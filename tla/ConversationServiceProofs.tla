--------------------- MODULE ConversationServiceProofs ---------------------
(***************************************************************************)
(* Every stream of the conversation service gets exactly one terminal      *)
(* event, jobs are served in the order of their submission and a shutdown  *)
(* ends them all, for any number of clients and any queue capacity.        *)
(*                                                                         *)
(* Three threads push terminal events: the worker at the end of a run, the *)
(* worker's drain and shutdown.  They never push to the same stream        *)
(* because an open job is in one place: the queue, the worker's hand, the  *)
(* worker's drained list or shutdown's pending list.                       *)
(***************************************************************************)
EXTENDS ConversationService, TLAPS

Busy == {"picked", "running", "pushed"}
Held == IF worker \in Busy THEN {job} ELSE {}

(* No terminal event yet; a terminal event at the end. *)
Raw(c) == \A i \in 1 .. Len(events[c]) : events[c][i] = "Delta"
Done(c) == events[c] # <<>> /\ events[c][Len(events[c])] \in Terminal

(* Where the open jobs are. *)
PlaceInv ==
  /\ ListOver(queue, Client) /\ ListOver(drained, Client) /\ ListOver(pending, Client)
  /\ Range(queue) \cap Range(drained) = {} /\ Range(queue) \cap Range(pending) = {}
  /\ Range(drained) \cap Range(pending) = {}
  /\ Held \subseteq Client /\ Held \cap Range(queue) = {}
  /\ Held \cap Range(drained) = {} /\ Held \cap Range(pending) = {}
  /\ worker = "drainClose" => drained # <<>>
  /\ watcher = "close" => pending # <<>>

(* What is in the stream of a client, given where its job is. *)
StreamInv(c) ==
  /\ handler[c] = "idle" =>
       /\ Raw(c)
       /\ c \notin Range(queue) /\ c \notin Range(drained) /\ c \notin Range(pending)
       /\ c \notin Held
  /\ c \in Range(queue) => Raw(c)
  /\ c \in Range(drained) =>
       IF worker = "drainClose" /\ c = Head(drained) THEN Done(c) ELSE Raw(c)
  /\ c \in Range(pending) =>
       IF watcher = "close" /\ c = Head(pending) THEN Done(c) ELSE Raw(c)
  /\ c \in Held => IF worker = "pushed" THEN Done(c) ELSE Raw(c)
  /\ \A i \in 1 .. Len(events[c]) : events[c][i] \in Terminal => i = Len(events[c])
  /\ closed[c] => Done(c)

IInv == TypeOK /\ PlaceInv /\ \A c \in Client : StreamInv(c)

-----------------------------------------------------------------------------
(* The empty list. *)
LEMMA EmptyList ==
  ASSUME NEW S
  PROVE  ListOver(<<>>, S) /\ Range(<<>>) = {}
BY DEF ListOver, IsInjective, Range

(* Appending a new element. *)
LEMMA AppendList ==
  ASSUME NEW S, NEW s, ListOver(s, S), NEW e \in S, e \notin Range(s)
  PROVE  ListOver(Append(s, e), S) /\ Range(Append(s, e)) = Range(s) \cup {e}
<1> DEFINE t == Append(s, e)
<1>1. s \in Seq(S) /\ t \in Seq(S) /\ Len(t) = Len(s) + 1 /\ t[Len(s) + 1] = e
      /\ \A i \in 1 .. Len(s) : t[i] = s[i]
  BY DEF ListOver
<1>2. DOMAIN s = 1 .. Len(s) /\ DOMAIN t = 1 .. Len(s) + 1 /\ Len(s) \in Nat
  BY <1>1
<1>3. IsInjective(t)
  BY <1>1, <1>2 DEF ListOver, IsInjective, Range
<1>4. Range(t) = Range(s) \cup {e}
  BY <1>1, <1>2 DEF Range
<1> QED BY <1>1, <1>3, <1>4 DEF ListOver

(* Taking the first element off. *)
LEMMA TailList ==
  ASSUME NEW S, NEW s, ListOver(s, S), s # <<>>
  PROVE  /\ Head(s) \in Range(s) /\ Head(s) \in S
         /\ ListOver(Tail(s), S) /\ Range(Tail(s)) = Range(s) \ {Head(s)}
<1> DEFINE t == Tail(s)
<1>1. s \in Seq(S) /\ Len(s) \in Nat \ {0} /\ DOMAIN s = 1 .. Len(s) /\ Head(s) = s[1]
  BY DEF ListOver
<1>2. t \in Seq(S) /\ Len(t) = Len(s) - 1 /\ DOMAIN t = 1 .. Len(s) - 1
      /\ \A i \in 1 .. Len(s) - 1 : t[i] = s[i + 1]
  BY <1>1
<1> HIDE DEF t
<1>3. IsInjective(t)
  <2>1. \A i, j \in 1 .. Len(s) : s[i] = s[j] => i = j
    BY <1>1 DEF ListOver, IsInjective
  <2>2. ASSUME NEW i \in 1 .. Len(s) - 1, NEW j \in 1 .. Len(s) - 1, t[i] = t[j]
        PROVE  i = j
    <3>1. i + 1 \in 1 .. Len(s) /\ j + 1 \in 1 .. Len(s) /\ s[i + 1] = s[j + 1]
      BY <1>1, <1>2, <2>2
    <3>2. i + 1 = j + 1
      BY <2>1, <3>1
    <3> QED BY <3>2
  <2> QED BY <1>2, <2>2 DEF IsInjective
<1>4. Range(t) = Range(s) \ {s[1]}
  <2>1. Range(t) \subseteq Range(s) \ {s[1]}
    <3> SUFFICES ASSUME NEW i \in 1 .. Len(s) - 1
                 PROVE  t[i] \in Range(s) /\ t[i] # s[1]
      BY <1>2 DEF Range
    <3>00. \A n \in Nat \ {0} : \A k \in 1 .. n - 1 :
              k + 1 \in 1 .. n /\ 1 \in 1 .. n /\ k + 1 # 1
      OBVIOUS
    <3>0. i + 1 \in 1 .. Len(s) /\ 1 \in 1 .. Len(s) /\ i + 1 # 1
      BY <1>1, <3>00, Zenon
    <3>1. i + 1 \in DOMAIN s /\ 1 \in DOMAIN s /\ i + 1 # 1 /\ t[i] = s[i + 1]
      BY <1>1, <1>2, <3>0, Zenon
    <3>2. t[i] \in Range(s)
      BY <3>1 DEF Range
    <3>3. t[i] # s[1]
      BY <3>1 DEF ListOver, IsInjective
    <3> QED BY <3>2, <3>3
  <2>2. \A i \in 1 .. Len(s) : s[i] # s[1] => i - 1 \in 1 .. Len(s) - 1 /\ s[i] = t[i - 1]
    BY <1>1, <1>2
  <2>3. Range(s) \ {s[1]} \subseteq Range(t)
    BY <1>1, <1>2, <2>2 DEF Range
  <2> QED BY <2>1, <2>3
<1>5. s[1] \in Range(s) /\ s[1] \in S
  BY <1>1 DEF Range
<1> QED BY <1>1, <1>2, <1>3, <1>4, <1>5 DEF ListOver, t

(* What a push does to a stream without a terminal event (JobStream::push). *)
LEMMA PushRaw ==
  ASSUME events \in [Client -> Seq(Event)], NEW c \in Client, NEW e \in Event,
         Raw(c), Push(c, e)
  PROVE  /\ events' \in [Client -> Seq(Event)]
         /\ \A d \in Client : d # c => events'[d] = events[d]
         /\ \A i \in 1 .. Len(events'[c]) : events'[c][i] \in Terminal => i = Len(events'[c])
         /\ e = "Delta" => Raw(c)'
         /\ e \in Terminal => Done(c)'
<1>1. events[c] \in Seq(Event) /\ events' = [events EXCEPT ![c] = Append(events[c], e)]
  BY DEF Push
<1>2. events'[c] = Append(events[c], e) /\ events' \in [Client -> Seq(Event)]
      /\ \A d \in Client : d # c => events'[d] = events[d]
  BY <1>1
<1>3. /\ Len(events'[c]) = Len(events[c]) + 1 /\ Len(events[c]) \in Nat
      /\ events'[c][Len(events[c]) + 1] = e
      /\ \A i \in 1 .. Len(events[c]) : events'[c][i] = events[c][i]
  BY <1>1, <1>2
<1>4. \A i \in 1 .. Len(events'[c]) : i = Len(events'[c]) \/ events'[c][i] = "Delta"
  BY <1>3 DEF Raw
<1> QED BY <1>2, <1>3, <1>4 DEF Raw, Done, Terminal

(* The elements after an append, whatever was there. *)
LEMMA AppendElements ==
  ASSUME NEW S, NEW s \in Seq(S), NEW e \in S
  PROVE  Range(Append(s, e)) = Range(s) \cup {e}
<1>1. /\ DOMAIN s = 1 .. Len(s) /\ Len(s) \in Nat /\ DOMAIN Append(s, e) = 1 .. Len(s) + 1
      /\ Append(s, e)[Len(s) + 1] = e /\ \A i \in 1 .. Len(s) : Append(s, e)[i] = s[i]
  OBVIOUS
<1>2. \A i \in 1 .. Len(s) + 1 : i = Len(s) + 1 \/ i \in 1 .. Len(s)
  BY <1>1
<1>3. Len(s) + 1 \in 1 .. Len(s) + 1 /\ 1 .. Len(s) \subseteq 1 .. Len(s) + 1
  BY <1>1
<1> QED BY <1>1, <1>2, <1>3 DEF Range

(* A stream that is not written keeps what is said of it. *)
LEMMA SameStream ==
  ASSUME NEW c \in Client, events'[c] = events[c]
  PROVE  (Raw(c)' <=> Raw(c)) /\ (Done(c)' <=> Done(c))
BY DEF Raw, Done

-----------------------------------------------------------------------------
(* The empty service. *)
LEMMA InitIInv == Init => IInv
<1> SUFFICES ASSUME Init PROVE IInv
  OBVIOUS
<1>1. TypeOK
  <2>1. <<>> \in Seq(Client) /\ Len(<<>>) <= MaxQueue /\ <<>> \in Seq(Event)
    BY QueueAssumption
  <2> QED BY <2>1 DEF Init, TypeOK, State, WorkerAt, WatcherAt, HandlerAt, Answer
<1>2. PlaceInv
  BY EmptyList DEF Init, PlaceInv, Busy, Held
<1>3. ASSUME NEW c \in Client PROVE StreamInv(c)
  BY EmptyList DEF Init, StreamInv, Raw, Held, Busy
<1> QED BY <1>1, <1>2, <1>3 DEF IInv

(* Types survive every step. *)
LEMMA WorkerTypes ==
  ASSUME TypeOK, PlaceInv, \A c \in Client : StreamInv(c), Worker \/ EngineLoaded \/ LoadFails
  PROVE  TypeOK'
<1> USE DEF TypeOK, serviceVars, streamVars, workerVars, stopVars, handlerVars, WorkerAt, State
<1>1. CASE TakeJob
  <2>1. Head(queue) \in Client /\ Tail(queue) \in Seq(Client) /\ Len(Tail(queue)) <= MaxQueue
    BY <1>1, QueueAssumption DEF TakeJob
  <2> QED BY <1>1, <2>1 DEF TakeJob
<1>2. CASE SkipJob
  <2>1. job \in Client /\ Raw(job)
    BY <1>2 DEF SkipJob, PlaceInv, StreamInv, Held, Busy
  <2>2. events' \in [Client -> Seq(Event)]
    BY <1>2, <2>1, PushRaw DEF SkipJob, Event
  <2> QED BY <1>2, <2>2 DEF SkipJob
<1>3. CASE EmitDelta
  <2>1. job \in Client /\ Raw(job)
    BY <1>3 DEF EmitDelta, PlaceInv, StreamInv, Held, Busy
  <2>2. events' \in [Client -> Seq(Event)]
    BY <1>3, <2>1, PushRaw DEF EmitDelta, Event
  <2> QED BY <1>3, <2>2 DEF EmitDelta
<1>4. CASE EndRun
  <2>1. job \in Client /\ Raw(job)
    BY <1>4 DEF EndRun, PlaceInv, StreamInv, Held, Busy
  <2>2. PICK e \in Terminal : Push(job, e)
    BY <1>4 DEF EndRun
  <2>3. events' \in [Client -> Seq(Event)]
    BY <2>1, <2>2, PushRaw DEF Terminal
  <2> QED BY <1>4, <2>3 DEF EndRun
<1>5. CASE CloseStream
  BY <1>5 DEF CloseStream, Close
<1>6. CASE DrainQueue
  <2>1. <<>> \in Seq(Client) /\ Len(<<>>) <= MaxQueue
    BY QueueAssumption
  <2> QED BY <1>6, <2>1 DEF DrainQueue
<1>7. CASE PushDrained
  <2>1. Head(drained) \in Client /\ Raw(Head(drained))
    BY <1>7, TailList DEF PushDrained, PlaceInv, StreamInv
  <2>2. events' \in [Client -> Seq(Event)]
    BY <1>7, <2>1, PushRaw DEF PushDrained, Event
  <2> QED BY <1>7, <2>2 DEF PushDrained
<1>8. CASE CloseDrained
  <2>1. Tail(drained) \in Seq(Client)
    BY <1>8, TailList DEF CloseDrained, PlaceInv, ListOver
  <2> QED BY <1>8, <2>1 DEF CloseDrained, Close
<1>9. CASE EngineLoaded \/ LoadFails \/ PublishReady \/ StartRun \/ ClearLive \/ LeaveLoop \/ WorkerReturns
  BY <1>9 DEF EngineLoaded, LoadFails, PublishReady, StartRun, ClearLive, LeaveLoop, WorkerReturns
<1> QED BY <1>1, <1>2, <1>3, <1>4, <1>5, <1>6, <1>7, <1>8, <1>9 DEF Worker

(* Types, for the watcher and the signal. *)
LEMMA WatcherTypes ==
  ASSUME TypeOK, PlaceInv, \A c \in Client : StreamInv(c), Watcher \/ Signal
  PROVE  TypeOK'
<1> USE DEF TypeOK, serviceVars, streamVars, workerVars, stopVars, handlerVars, WatcherAt, State
<1>1. CASE Shutdown
  <2>1. <<>> \in Seq(Client) /\ Len(<<>>) <= MaxQueue
    BY QueueAssumption
  <2>2. cancel' \in [Client -> BOOLEAN]
    BY <1>1 DEF Shutdown
  <2> QED BY <1>1, <2>1, <2>2 DEF Shutdown
<1>2. CASE PushPending
  <2>1. Head(pending) \in Client /\ Raw(Head(pending))
    BY <1>2, TailList DEF PushPending, PlaceInv, StreamInv
  <2>2. events' \in [Client -> Seq(Event)]
    BY <1>2, <2>1, PushRaw DEF PushPending, Event
  <2> QED BY <1>2, <2>2 DEF PushPending
<1>3. CASE ClosePending
  <2>1. Tail(pending) \in Seq(Client)
    BY <1>3, TailList DEF ClosePending, PlaceInv, ListOver
  <2> QED BY <1>3, <2>1 DEF ClosePending, Close
<1>4. CASE StopHttp \/ Exit \/ Signal
  BY <1>4 DEF StopHttp, Exit, Signal
<1> QED BY <1>1, <1>2, <1>3, <1>4 DEF Watcher

(* Types, for a handler and its client. *)
LEMMA HandlerTypes ==
  ASSUME TypeOK, NEW c \in Client,
         BadRequest(c) \/ Refuse(c) \/ Submit(c) \/ Handler(c) \/ Disconnect(c)
  PROVE  TypeOK'
<1> USE DEF TypeOK, serviceVars, streamVars, workerVars, stopVars, handlerVars, HandlerAt, Answer,
            Answered, GoesTo
<1>1. CASE Submit(c)
  <2>1. Append(queue, c) \in Seq(Client) /\ Len(Append(queue, c)) <= MaxQueue
        /\ Append(accepted, c) \in Seq(Client)
    BY <1>1, QueueAssumption DEF Submit
  <2> QED BY <1>1, <2>1 DEF Submit
<1>2. CASE Pop(c)
  <2>1. popped' \in [Client -> Nat]
    BY <1>2 DEF Pop
  <2>2. cancel' \in [Client -> BOOLEAN]
    BY <1>2 DEF Pop, Abort
  <2>3. handler' \in [Client -> HandlerAt] /\ answer' \in [Client -> Answer]
    BY <1>2 DEF Pop, Abort
  <2> QED BY <1>2, <2>1, <2>2, <2>3 DEF Pop
<1>3. CASE BadRequest(c) \/ Refuse(c) \/ PopFails(c) \/ SeesClosed(c) \/ Disconnect(c)
  BY <1>3 DEF BadRequest, Refuse, PopFails, SeesClosed, Disconnect
<1>4. CASE WriteRole(c) \/ CheckWritable(c) \/ CheckConnection(c)
  BY <1>4 DEF WriteRole, CheckWritable, CheckConnection, Abort
<1>5. CASE SeesOpen(c)
  BY <1>5 DEF SeesOpen, Abort
<1> QED BY <1>1, <1>2, <1>3, <1>4, <1>5 DEF Handler

-----------------------------------------------------------------------------
(* A step that moves no job, writes no stream and only takes handlers out of
   "idle". *)
LEMMA FrameStep ==
  ASSUME IInv, TypeOK', UNCHANGED <<queue, drained, pending, events, closed>>, Held' = Held,
         worker' = "pushed" <=> worker = "pushed",
         worker' = "drainClose" <=> worker = "drainClose",
         watcher' = "close" <=> watcher = "close",
         \A c \in Client : handler'[c] = "idle" => handler[c] = "idle"
  PROVE  IInv'
<1>1. PlaceInv'
  BY DEF IInv, PlaceInv
<1>2. ASSUME NEW c \in Client PROVE StreamInv(c)'
  <2>1. StreamInv(c) /\ (Raw(c)' <=> Raw(c)) /\ (Done(c)' <=> Done(c))
    BY SameStream DEF IInv
  <2> QED BY <2>1 DEF StreamInv
<1> QED BY <1>1, <1>2 DEF IInv

(* A client whose job is where it was, or nowhere any more, and whose stream is
   not written. *)
LEMMA OtherStreams ==
  ASSUME NEW c \in Client, StreamInv(c), events'[c] = events[c], closed'[c] = closed[c],
         handler'[c] = "idle" => handler[c] = "idle",
         c \in Range(queue') => c \in Range(queue),
         c \in Range(drained') => c \in Range(drained),
         c \in Range(pending') => c \in Range(pending),
         c \in Held' => c \in Held,
         c \in Range(drained') => ((worker' = "drainClose" /\ c = Head(drained'))
                                   <=> (worker = "drainClose" /\ c = Head(drained))),
         c \in Range(pending') => ((watcher' = "close" /\ c = Head(pending'))
                                   <=> (watcher = "close" /\ c = Head(pending))),
         c \in Held' => (worker' = "pushed" <=> worker = "pushed")
  PROVE  StreamInv(c)'
<1>1. (Raw(c)' <=> Raw(c)) /\ (Done(c)' <=> Done(c))
  BY SameStream
<1> QED BY <1>1 DEF StreamInv

(* Taking a job moves it from the queue into the worker's hand. *)
LEMMA TakeJobStep ==
  ASSUME IInv, TypeOK', TakeJob
  PROVE  IInv'
<1> DEFINE c0 == Head(queue)
<1>1. /\ c0 \in Client /\ c0 \in Range(queue) /\ ListOver(queue', Client)
      /\ Range(queue') = Range(queue) \ {c0}
  BY TailList DEF TakeJob, IInv, PlaceInv
<1>2. /\ Held = {} /\ Held' = {c0} /\ worker' = "picked" /\ worker = "wait"
      /\ drained' = drained /\ pending' = pending /\ watcher' = watcher
      /\ events' = events /\ closed' = closed /\ handler' = handler
  BY DEF TakeJob, Held, Busy, streamVars, stopVars, handlerVars
<1> HIDE DEF c0
<1>3. PlaceInv'
  BY <1>1, <1>2 DEF IInv, PlaceInv
<1>4. ASSUME NEW c \in Client, c # c0 PROVE StreamInv(c)'
  BY <1>1, <1>2, <1>4, OtherStreams DEF IInv
<1>5. ASSUME NEW c \in Client, c = c0 PROVE StreamInv(c)'
  <2>1. StreamInv(c) /\ (Raw(c)' <=> Raw(c)) /\ (Done(c)' <=> Done(c))
    BY <1>2, SameStream DEF IInv
  <2> QED BY <1>1, <1>2, <1>5, <2>1 DEF IInv, PlaceInv, StreamInv
<1> QED BY <1>3, <1>4, <1>5 DEF IInv

(* A push by the worker to the job it holds. *)
LEMMA HeldPushStep ==
  ASSUME IInv, TypeOK', NEW e \in Event, Push(job, e), worker \in {"picked", "running"},
         worker' = (IF e = "Delta" THEN worker ELSE "pushed"),
         UNCHANGED <<queue, drained, pending, closed, job, watcher, handler>>
  PROVE  IInv'
<1>1. Held = {job} /\ Held' = {job} /\ job \in Client
  BY DEF Held, Busy, IInv, PlaceInv
<1> DEFINE c0 == job
<1>2. c0 \in Client /\ StreamInv(c0) /\ Raw(c0)
  BY <1>1 DEF IInv, StreamInv
<1>3. /\ \A d \in Client : d # c0 => events'[d] = events[d]
      /\ \A i \in 1 .. Len(events'[c0]) : events'[c0][i] \in Terminal => i = Len(events'[c0])
  BY <1>2, PushRaw DEF IInv, TypeOK
<1>4. \/ e = "Delta" /\ \A i \in 1 .. Len(events'[c0]) : events'[c0][i] = "Delta"
      \/ e # "Delta" /\ events'[c0] # <<>> /\ events'[c0][Len(events'[c0])] \in Terminal
  BY <1>2, PushRaw DEF IInv, TypeOK, Terminal, Raw, Done
<1>5. PlaceInv'
  BY <1>1 DEF IInv, PlaceInv
<1>6. ASSUME NEW c \in Client, c # c0 PROVE StreamInv(c)'
  BY <1>1, <1>3, <1>6, OtherStreams DEF IInv
<1>7. ASSUME NEW c \in Client, c = c0 PROVE StreamInv(c)'
  <2>1. ~closed[c]
    BY <1>2, <1>7 DEF StreamInv, Raw, Done, Terminal
  <2> QED BY <1>1, <1>2, <1>3, <1>4, <1>7, <2>1 DEF IInv, PlaceInv, StreamInv, Raw, Done
<1> QED BY <1>5, <1>6, <1>7 DEF IInv

(* Closing the stream of a job that has its terminal event. *)
LEMMA CloseStreamStep ==
  ASSUME IInv, TypeOK', CloseStream
  PROVE  IInv'
<1>1. /\ Held = {job} /\ Held' = {} /\ job \in Client /\ worker = "pushed" /\ worker' = "publish"
      /\ UNCHANGED <<queue, drained, pending, events, watcher, handler>>
      /\ \A d \in Client : d # job => closed'[d] = closed[d]
  BY DEF CloseStream, Close, Held, Busy, IInv, PlaceInv, TypeOK, serviceVars, stopVars, handlerVars
<1>2. PlaceInv'
  BY <1>1 DEF IInv, PlaceInv
<1>3. ASSUME NEW c \in Client, c # job PROVE StreamInv(c)'
  BY <1>1, <1>3, OtherStreams DEF IInv
<1>4. ASSUME NEW c \in Client, c = job PROVE StreamInv(c)'
  <2>1. StreamInv(c) /\ (Raw(c)' <=> Raw(c)) /\ (Done(c)' <=> Done(c))
    BY <1>1, SameStream DEF IInv
  <2>2. Done(c) /\ handler[c] # "idle"
    BY <1>1, <1>4, <2>1 DEF StreamInv
  <2> QED BY <1>1, <1>4, <2>1, <2>2 DEF IInv, PlaceInv, StreamInv
<1> QED BY <1>2, <1>3, <1>4 DEF IInv

(* The worker's drain takes the whole queue. *)
LEMMA DrainQueueStep ==
  ASSUME IInv, TypeOK', DrainQueue
  PROVE  IInv'
<1>1. /\ Held = {} /\ Held' = {} /\ worker = "drain" /\ worker' = "drainPush"
      /\ queue' = <<>> /\ drained' = queue /\ Range(queue') = {} /\ ListOver(queue', Client)
      /\ UNCHANGED <<pending, events, closed, watcher, handler>>
  BY EmptyList DEF DrainQueue, Held, Busy, streamVars, stopVars, handlerVars
<1>2. PlaceInv'
  BY <1>1 DEF IInv, PlaceInv
<1>3. ASSUME NEW c \in Client PROVE StreamInv(c)'
  <2>1. StreamInv(c) /\ (Raw(c)' <=> Raw(c)) /\ (Done(c)' <=> Done(c))
    BY <1>1, SameStream DEF IInv
  <2> QED BY <1>1, <2>1 DEF IInv, PlaceInv, StreamInv
<1> QED BY <1>2, <1>3 DEF IInv

(* shutdown takes the whole queue. *)
LEMMA ShutdownStep ==
  ASSUME IInv, TypeOK', Shutdown
  PROVE  IInv'
<1>1. /\ Held' = Held /\ worker' = worker /\ watcher = "watch" /\ watcher' = "push"
      /\ queue' = <<>> /\ pending' = queue /\ Range(queue') = {} /\ ListOver(queue', Client)
      /\ UNCHANGED <<drained, events, closed, handler>>
  BY EmptyList DEF Shutdown, Held, Busy, streamVars, workerVars, handlerVars
<1>2. PlaceInv'
  BY <1>1 DEF IInv, PlaceInv
<1>3. ASSUME NEW c \in Client PROVE StreamInv(c)'
  <2>1. StreamInv(c) /\ (Raw(c)' <=> Raw(c)) /\ (Done(c)' <=> Done(c))
    BY <1>1, SameStream DEF IInv
  <2> QED BY <1>1, <2>1 DEF IInv, PlaceInv, StreamInv
<1> QED BY <1>2, <1>3 DEF IInv

(* Failing the first drained job, and closing its stream. *)
LEMMA DrainedStep ==
  ASSUME IInv, TypeOK', PushDrained \/ CloseDrained
  PROVE  IInv'
<1>1. /\ Held = {} /\ Held' = {} /\ drained # <<>>
      /\ UNCHANGED <<queue, pending, watcher, handler>>
  BY DEF PushDrained, CloseDrained, Held, Busy, IInv, PlaceInv, serviceVars, stopVars, handlerVars
<1> DEFINE c0 == Head(drained)
<1>2. /\ c0 \in Client /\ c0 \in Range(drained) /\ ListOver(Tail(drained), Client)
      /\ Range(Tail(drained)) = Range(drained) \ {c0}
  BY <1>1, TailList DEF IInv, PlaceInv
<1>3. CASE PushDrained
  <2>1. worker = "drainPush" /\ worker' = "drainClose" /\ drained' = drained /\ closed' = closed
        /\ Push(c0, "Cancelled") /\ "Cancelled" \in Event /\ "Cancelled" \in Terminal
    BY <1>3 DEF PushDrained, Event, Terminal
  <2>20. StreamInv(c0)
    BY <1>2 DEF IInv
  <2>21. Raw(c0) /\ handler[c0] # "idle" /\ (closed[c0] => Done(c0))
    BY <1>2, <2>1, <2>20 DEF StreamInv
  <2>22. ~closed[c0]
    <3>1. SUFFICES ASSUME Done(c0) PROVE FALSE
      BY <2>21
    <3>2. Len(events[c0]) \in 1 .. Len(events[c0])
      BY <1>2, <3>1 DEF IInv, TypeOK, Done
    <3>3. events[c0][Len(events[c0])] = "Delta"
      BY <2>21, <3>2 DEF Raw
    <3> QED BY <3>1, <3>3 DEF Done, Terminal
  <2>2. StreamInv(c0) /\ Raw(c0) /\ ~closed[c0] /\ handler[c0] # "idle"
    BY <2>20, <2>21, <2>22
  <2>3. /\ \A d \in Client : d # c0 => events'[d] = events[d]
        /\ \A i \in 1 .. Len(events'[c0]) : events'[c0][i] \in Terminal => i = Len(events'[c0])
    BY <1>2, <2>1, <2>2, PushRaw DEF IInv, TypeOK
  <2>4. events'[c0] # <<>> /\ events'[c0][Len(events'[c0])] \in Terminal
    BY <1>2, <2>1, <2>2, PushRaw DEF IInv, TypeOK, Done
  <2>5. PlaceInv'
    BY <1>1, <2>1 DEF IInv, PlaceInv
  <2>6. ASSUME NEW c \in Client, c # c0 PROVE StreamInv(c)'
    BY <1>1, <2>1, <2>3, <2>6, OtherStreams DEF IInv
  <2>7. ASSUME NEW c \in Client, c = c0 PROVE StreamInv(c)'
    BY <1>1, <1>2, <2>1, <2>2, <2>3, <2>4, <2>7 DEF IInv, PlaceInv, StreamInv, Done
  <2> QED BY <2>5, <2>6, <2>7 DEF IInv
<1>4. CASE CloseDrained
  <2>1. worker = "drainClose" /\ worker' = "drainPush" /\ drained' = Tail(drained) /\ events' = events
        /\ \A d \in Client : d # c0 => closed'[d] = closed[d]
    BY <1>2, <1>4 DEF CloseDrained, Close, IInv, TypeOK
  <2>2. StreamInv(c0) /\ Done(c0) /\ handler[c0] # "idle"
    BY <1>2, <2>1 DEF IInv, StreamInv
  <2>3. PlaceInv'
    BY <1>1, <1>2, <2>1 DEF IInv, PlaceInv
  <2>4. ASSUME NEW c \in Client, c # c0 PROVE StreamInv(c)'
    BY <1>1, <1>2, <2>1, <2>4, OtherStreams DEF IInv
  <2>5. ASSUME NEW c \in Client, c = c0 PROVE StreamInv(c)'
    <3>1. (Raw(c)' <=> Raw(c)) /\ (Done(c)' <=> Done(c))
      BY <2>1, SameStream
    <3> QED BY <1>1, <1>2, <2>1, <2>2, <2>5, <3>1 DEF IInv, PlaceInv, StreamInv
  <2> QED BY <2>3, <2>4, <2>5 DEF IInv
<1> QED BY <1>3, <1>4
(* The same for the first job shutdown took. *)
LEMMA PendingStep ==
  ASSUME IInv, TypeOK', PushPending \/ ClosePending
  PROVE  IInv'
<1>1. /\ Held' = Held /\ pending # <<>>
      /\ UNCHANGED <<queue, drained, worker, handler>>
  BY DEF PushPending, ClosePending, Held, Busy, IInv, PlaceInv, serviceVars, workerVars, handlerVars
<1> DEFINE c0 == Head(pending)
<1>2. /\ c0 \in Client /\ c0 \in Range(pending) /\ ListOver(Tail(pending), Client)
      /\ Range(Tail(pending)) = Range(pending) \ {c0}
  BY <1>1, TailList DEF IInv, PlaceInv
<1>3. CASE PushPending
  <2>1. watcher = "push" /\ watcher' = "close" /\ pending' = pending /\ closed' = closed
        /\ Push(c0, "Cancelled") /\ "Cancelled" \in Event /\ "Cancelled" \in Terminal
    BY <1>3 DEF PushPending, Event, Terminal
  <2>20. StreamInv(c0)
    BY <1>2 DEF IInv
  <2>21. Raw(c0) /\ handler[c0] # "idle" /\ (closed[c0] => Done(c0))
    BY <1>2, <2>1, <2>20 DEF StreamInv
  <2>22. ~closed[c0]
    <3>1. SUFFICES ASSUME Done(c0) PROVE FALSE
      BY <2>21
    <3>2. Len(events[c0]) \in 1 .. Len(events[c0])
      BY <1>2, <3>1 DEF IInv, TypeOK, Done
    <3>3. events[c0][Len(events[c0])] = "Delta"
      BY <2>21, <3>2 DEF Raw
    <3> QED BY <3>1, <3>3 DEF Done, Terminal
  <2>2. StreamInv(c0) /\ Raw(c0) /\ ~closed[c0] /\ handler[c0] # "idle"
    BY <2>20, <2>21, <2>22
  <2>3. /\ \A d \in Client : d # c0 => events'[d] = events[d]
        /\ \A i \in 1 .. Len(events'[c0]) : events'[c0][i] \in Terminal => i = Len(events'[c0])
    BY <1>2, <2>1, <2>2, PushRaw DEF IInv, TypeOK
  <2>4. events'[c0] # <<>> /\ events'[c0][Len(events'[c0])] \in Terminal
    BY <1>2, <2>1, <2>2, PushRaw DEF IInv, TypeOK, Done
  <2>5. PlaceInv'
    BY <1>1, <2>1 DEF IInv, PlaceInv
  <2>6. ASSUME NEW c \in Client, c # c0 PROVE StreamInv(c)'
    BY <1>1, <2>1, <2>3, <2>6, OtherStreams DEF IInv
  <2>7. ASSUME NEW c \in Client, c = c0 PROVE StreamInv(c)'
    BY <1>1, <1>2, <2>1, <2>2, <2>3, <2>4, <2>7 DEF IInv, PlaceInv, StreamInv, Done
  <2> QED BY <2>5, <2>6, <2>7 DEF IInv
<1>4. CASE ClosePending
  <2>1. watcher = "close" /\ watcher' = "push" /\ pending' = Tail(pending) /\ events' = events
        /\ \A d \in Client : d # c0 => closed'[d] = closed[d]
    BY <1>2, <1>4 DEF ClosePending, Close, IInv, TypeOK
  <2>2. StreamInv(c0) /\ Done(c0) /\ handler[c0] # "idle"
    BY <1>2, <2>1 DEF IInv, StreamInv
  <2>3. PlaceInv'
    BY <1>1, <1>2, <2>1 DEF IInv, PlaceInv
  <2>4. ASSUME NEW c \in Client, c # c0 PROVE StreamInv(c)'
    BY <1>1, <1>2, <2>1, <2>4, OtherStreams DEF IInv
  <2>5. ASSUME NEW c \in Client, c = c0 PROVE StreamInv(c)'
    <3>1. (Raw(c)' <=> Raw(c)) /\ (Done(c)' <=> Done(c))
      BY <2>1, SameStream
    <3> QED BY <1>1, <1>2, <2>1, <2>2, <2>5, <3>1 DEF IInv, PlaceInv, StreamInv
  <2> QED BY <2>3, <2>4, <2>5 DEF IInv
<1> QED BY <1>3, <1>4
(* Submitting puts a client that has no job yet at the end of the queue. *)
LEMMA SubmitStep ==
  ASSUME IInv, TypeOK', NEW c0 \in Client, Submit(c0)
  PROVE  IInv'
<1>1. /\ Held' = Held /\ queue' = Append(queue, c0) /\ handler[c0] = "idle" /\ handler'[c0] # "idle"
      /\ UNCHANGED <<drained, pending, events, closed, worker, watcher>>
      /\ \A d \in Client : d # c0 => handler'[d] = handler[d]
  BY DEF Submit, GoesTo, Held, Busy, streamVars, workerVars, stopVars, IInv, TypeOK
<1>2. /\ StreamInv(c0) /\ Raw(c0) /\ c0 \notin Range(queue) /\ c0 \notin Range(drained)
      /\ c0 \notin Range(pending) /\ c0 \notin Held
  BY <1>1 DEF IInv, StreamInv
<1>3. ListOver(queue', Client) /\ Range(queue') = Range(queue) \cup {c0}
  BY <1>1, <1>2, AppendList DEF IInv, PlaceInv
<1>4. PlaceInv'
  BY <1>1, <1>2, <1>3 DEF IInv, PlaceInv
<1>5. ASSUME NEW c \in Client, c # c0 PROVE StreamInv(c)'
  BY <1>1, <1>3, <1>5, OtherStreams DEF IInv
<1>6. StreamInv(c0)'
  <2>1. (Raw(c0)' <=> Raw(c0)) /\ (Done(c0)' <=> Done(c0))
    BY <1>1, SameStream
  <2> QED BY <1>1, <1>2, <2>1 DEF StreamInv
<1> QED BY <1>4, <1>5, <1>6 DEF IInv

(* No other step of a handler or a client moves a job or writes a stream. *)
LEMMA HandlerStep ==
  ASSUME IInv, TypeOK', NEW c \in Client, BadRequest(c) \/ Refuse(c) \/ Handler(c) \/ Disconnect(c)
  PROVE  IInv'
<1>1. UNCHANGED <<queue, drained, pending, events, closed, worker, job, watcher>>
  BY DEF BadRequest, Refuse, Handler, Disconnect, WriteRole, Pop, PopFails, CheckWritable,
         SeesClosed, SeesOpen, CheckConnection, serviceVars, streamVars, workerVars, stopVars
<1>2. \A d \in Client : handler'[d] = "idle" => handler[d] = "idle"
  <2>1. /\ handler \in [Client -> HandlerAt]
        /\ handler' = handler \/ \E p \in HandlerAt \ {"idle"} : handler' = [handler EXCEPT ![c] = p]
    BY DEF IInv, TypeOK, BadRequest, Refuse, Handler, Disconnect, WriteRole, Pop, PopFails,
           CheckWritable, SeesClosed, SeesOpen, CheckConnection, Answered, GoesTo, Abort, HandlerAt,
           handlerVars
  <2> QED BY <2>1
<1>3. Held' = Held
  BY <1>1 DEF Held
<1> QED BY <1>1, <1>2, <1>3, FrameStep

(* Every step keeps the invariant. *)
LEMMA NextIInv == IInv /\ [Next]_vars => IInv'
<1> SUFFICES ASSUME IInv, [Next]_vars PROVE IInv'
  OBVIOUS
<1> USE DEF serviceVars, streamVars, workerVars, stopVars, handlerVars
<1>1. CASE UNCHANGED vars \/ Finished
  <2>1. UNCHANGED vars
    BY <1>1 DEF Finished
  <2> QED BY <2>1 DEF vars, IInv, TypeOK, PlaceInv, StreamInv, Held, Raw, Done
<1>2. CASE Worker \/ EngineLoaded \/ LoadFails
  <2>1. TypeOK'
    BY <1>2, WorkerTypes DEF IInv
  <2>2. CASE SkipJob
    BY <2>1, <2>2, HeldPushStep DEF SkipJob, Event
  <2>3. CASE EmitDelta
    BY <2>1, <2>3, HeldPushStep DEF EmitDelta, Event
  <2>4. CASE EndRun
    <3>1. PICK e \in Terminal : Push(job, e)
      BY <2>4 DEF EndRun
    <3>2. e \in Event /\ e # "Delta"
      BY DEF Terminal
    <3> QED BY <2>1, <2>4, <3>1, <3>2, HeldPushStep DEF EndRun
  <2>5. CASE EngineLoaded \/ LoadFails \/ PublishReady \/ StartRun \/ ClearLive \/ LeaveLoop \/ WorkerReturns
    <3>1. /\ UNCHANGED <<queue, drained, pending, events, closed, watcher, handler>>
          /\ worker # "pushed" /\ worker' # "pushed" /\ worker # "drainClose" /\ worker' # "drainClose"
      BY <2>5 DEF EngineLoaded, LoadFails, PublishReady, StartRun, ClearLive, LeaveLoop, WorkerReturns
    <3>2. Held' = Held
      BY <2>5 DEF EngineLoaded, LoadFails, PublishReady, StartRun, ClearLive, LeaveLoop, WorkerReturns,
                  Held, Busy
    <3> QED BY <2>1, <3>1, <3>2, FrameStep
  <2> QED BY <1>2, <2>1, <2>2, <2>3, <2>4, <2>5, TakeJobStep, CloseStreamStep, DrainQueueStep,
             DrainedStep DEF Worker
<1>3. CASE Watcher \/ Signal
  <2>1. TypeOK'
    BY <1>3, WatcherTypes DEF IInv
  <2>2. CASE StopHttp \/ Exit \/ Signal
    <3>1. /\ UNCHANGED <<queue, drained, pending, events, closed, worker, job, handler>>
          /\ watcher' = "close" <=> watcher = "close"
      BY <2>2 DEF StopHttp, Exit, Signal
    <3>2. Held' = Held
      BY <3>1 DEF Held
    <3> QED BY <2>1, <3>1, <3>2, FrameStep
  <2> QED BY <1>3, <2>1, <2>2, ShutdownStep, PendingStep DEF Watcher
<1>4. CASE \E c \in Client : BadRequest(c) \/ Refuse(c) \/ Submit(c) \/ Handler(c) \/ Disconnect(c)
  <2>1. PICK c \in Client : BadRequest(c) \/ Refuse(c) \/ Submit(c) \/ Handler(c) \/ Disconnect(c)
    BY <1>4
  <2>2. TypeOK'
    BY <2>1, HandlerTypes DEF IInv
  <2> QED BY <2>1, <2>2, SubmitStep, HandlerStep
<1> QED BY <1>1, <1>2, <1>3, <1>4 DEF Next

(* The inductive invariant holds throughout. *)
THEOREM Invariance == Spec => []IInv
BY InitIInv, NextIInv, PTL DEF Spec

(* Every variable keeps its type, and the queue its capacity. *)
THEOREM TypeCorrect == Spec => []TypeOK
<1>1. IInv => TypeOK
  BY DEF IInv
<1> QED BY <1>1, Invariance, PTL

(* A stream gets one terminal event, and gets it before it is closed: the
   worker's run, its drain and shutdown never end the same job. *)
THEOREM OneTerminal == Spec => []OneTerminalEvent
<1>1. IInv => OneTerminalEvent
  BY DEF IInv, StreamInv, OneTerminalEvent, Done
<1> QED BY <1>1, Invariance, PTL

-----------------------------------------------------------------------------
(* What a shutdown leaves behind, when the worker is ready before the first
   signal.                                                                 *)

(* How far the three threads may be apart. *)
StopInv ==
  /\ worker \notin {"drainPush", "drainClose"} => drained = <<>>
  /\ watcher \notin {"push", "close"} => pending = <<>>
  /\ running <=> watcher = "watch"
  /\ ~running => gStop /\ state = "Stopping" /\ queue = <<>>
  /\ worker \in {"load", "unloaded", "start"} => ~gStop
  /\ worker \in {"drain", "drainPush", "drainClose", "returned"} => ~running

Placed(c) == c \in Range(queue) \/ c \in Range(drained) \/ c \in Range(pending) \/ c \in Held

(* An accepted job that is not closed is somewhere. *)
CoverInv == \A c \in Range(accepted) : c \in Client /\ (closed[c] \/ Placed(c))

JInv == IInv /\ StopInv /\ CoverInv

(* At the start nothing is stopped and nothing accepted. *)
LEMMA InitJInv == Init => JInv
BY InitIInv, EmptyList DEF Init, JInv, StopInv, CoverInv

(* The threads stay as far together as StopInv says. *)
LEMMA StopStep ==
  ASSUME ~EarlyStop, TypeOK, StopInv, [Next]_vars
  PROVE  StopInv'
<1> USE DEF StopInv, serviceVars, streamVars, workerVars, stopVars, handlerVars
<1>1. CASE UNCHANGED vars \/ Finished
  BY <1>1 DEF Finished, vars
<1>2. CASE EngineLoaded \/ LoadFails \/ PublishReady \/ TakeJob \/ SkipJob \/ StartRun \/ EmitDelta
  BY <1>2 DEF EngineLoaded, LoadFails, PublishReady, TakeJob, SkipJob, StartRun, EmitDelta
<1>3. CASE EndRun \/ CloseStream \/ ClearLive \/ LeaveLoop \/ DrainQueue
  BY <1>3 DEF EndRun, CloseStream, ClearLive, LeaveLoop, DrainQueue
<1>4. CASE PushDrained \/ CloseDrained \/ WorkerReturns
  BY <1>4 DEF PushDrained, CloseDrained, WorkerReturns
<1>5. CASE Watcher \/ Signal
  BY <1>5 DEF Watcher, Shutdown, PushPending, ClosePending, StopHttp, Exit, Signal
<1>6. CASE \E c \in Client : BadRequest(c) \/ Refuse(c) \/ Submit(c) \/ Handler(c) \/ Disconnect(c)
  <2>1. PICK c \in Client : BadRequest(c) \/ Refuse(c) \/ Submit(c) \/ Handler(c) \/ Disconnect(c)
    BY <1>6
  <2>2. CASE Submit(c)
    BY <2>2 DEF Submit
  <2>3. CASE ~Submit(c)
    <3>1. UNCHANGED <<serviceVars, workerVars, stopVars>>
      BY <2>1, <2>3 DEF BadRequest, Refuse, Handler, Disconnect, WriteRole, Pop, PopFails,
         CheckWritable, SeesClosed, SeesOpen, CheckConnection
    <3> QED BY <3>1
  <2> QED BY <2>2, <2>3
<1> QED BY <1>1, <1>2, <1>3, <1>4, <1>5, <1>6 DEF Next, Worker

(* No step loses a job: what leaves one place is closed or arrives in another. *)
LEMMA CoverStep ==
  ASSUME IInv, StopInv, CoverInv, [Next]_vars
  PROVE  CoverInv'
<1> USE DEF serviceVars, streamVars, workerVars, stopVars, handlerVars
<1>1. CASE accepted' = accepted
  <2> SUFFICES ASSUME NEW c \in Client, closed[c] \/ Placed(c) PROVE closed'[c] \/ Placed(c)'
    BY <1>1 DEF CoverInv
  <2>1. CASE UNCHANGED <<queue, drained, pending, closed>> /\ Held' = Held
    BY <2>1 DEF Placed
  <2>2. CASE TakeJob
    <3>1. Range(queue') = Range(queue) \ {Head(queue)} /\ Held' = {Head(queue)} /\ Held = {}
      BY <2>2, TailList DEF TakeJob, IInv, PlaceInv, Held, Busy
    <3> QED BY <2>2, <3>1 DEF TakeJob, Placed
  <2>3. CASE CloseStream
    <3>1. Held = {job} /\ job \in Client /\ closed'[job] /\ (closed[c] => closed'[c])
      BY <2>3 DEF CloseStream, Close, Held, Busy, IInv, PlaceInv, TypeOK
    <3> QED BY <2>3, <3>1 DEF CloseStream, Placed
  <2>4. CASE DrainQueue
    <3>1. Range(drained) = {} /\ Held = {} /\ drained' = queue
      BY <2>4, EmptyList DEF DrainQueue, StopInv, Held, Busy
    <3> QED BY <2>4, <3>1 DEF DrainQueue, Placed
  <2>5. CASE CloseDrained
    <3>1. /\ drained # <<>> /\ Head(drained) \in Client
          /\ Range(drained') = Range(drained) \ {Head(drained)} /\ Held = {}
      BY <2>5, TailList DEF CloseDrained, IInv, PlaceInv, Held, Busy
    <3>2. closed'[Head(drained)] /\ (closed[c] => closed'[c])
      BY <2>5, <3>1 DEF CloseDrained, Close, IInv, TypeOK
    <3> QED BY <2>5, <3>1, <3>2 DEF CloseDrained, Placed
  <2>6. CASE Shutdown
    <3>1. Range(pending) = {} /\ pending' = queue /\ Held' = Held
      BY <2>6, EmptyList DEF Shutdown, StopInv, Held, Busy
    <3> QED BY <2>6, <3>1 DEF Shutdown, Placed
  <2>7. CASE ClosePending
    <3>1. /\ pending # <<>> /\ Head(pending) \in Client
          /\ Range(pending') = Range(pending) \ {Head(pending)} /\ Held' = Held
      BY <2>7, TailList DEF ClosePending, IInv, PlaceInv, Held, Busy
    <3>2. closed'[Head(pending)] /\ (closed[c] => closed'[c])
      BY <2>7, <3>1 DEF ClosePending, Close, IInv, TypeOK
    <3> QED BY <2>7, <3>1, <3>2 DEF ClosePending, Placed
  <2>8. CASE UNCHANGED vars \/ Finished \/ EngineLoaded \/ LoadFails \/ PublishReady \/ SkipJob
             \/ StartRun \/ EmitDelta \/ EndRun \/ ClearLive \/ LeaveLoop \/ PushDrained
             \/ WorkerReturns
    <3>1. UNCHANGED <<queue, drained, pending, closed>>
      BY <2>8 DEF vars, Finished, EngineLoaded, LoadFails, PublishReady, SkipJob, StartRun,
                  EmitDelta, EndRun, ClearLive, LeaveLoop, PushDrained, WorkerReturns
    <3>2. Held' = Held
      BY <2>8 DEF vars, Finished, EngineLoaded, LoadFails, PublishReady, SkipJob, StartRun,
                  EmitDelta, EndRun, ClearLive, LeaveLoop, PushDrained, WorkerReturns, Held, Busy
    <3> QED BY <2>1, <3>1, <3>2
  <2>9. CASE PushPending \/ StopHttp \/ Exit \/ Signal
    BY <2>1, <2>9 DEF PushPending, StopHttp, Exit, Signal, Held
  <2>10. CASE \E d \in Client : BadRequest(d) \/ Refuse(d) \/ Handler(d) \/ Disconnect(d)
    <3>1. UNCHANGED <<queue, drained, pending, closed, worker, job>>
      BY <2>10 DEF BadRequest, Refuse, Handler, Disconnect, WriteRole, Pop, PopFails, CheckWritable,
                   SeesClosed, SeesOpen, CheckConnection
    <3> QED BY <2>1, <3>1 DEF Held
  <2>11. ~\E d \in Client : Submit(d)
    <3>1. accepted \in Seq(Client)
      BY DEF IInv, TypeOK
    <3>2. \A d \in Client : Append(accepted, d) # accepted
      BY <3>1
    <3> QED BY <1>1, <3>2 DEF Submit
  <2> QED BY <2>2, <2>3, <2>4, <2>5, <2>6, <2>7, <2>8, <2>9, <2>10, <2>11 DEF Next, Worker, Watcher
<1>2. ASSUME NEW d \in Client, Submit(d) PROVE CoverInv'
  <2>1. accepted' = Append(accepted, d) /\ queue' = Append(queue, d) /\ Held' = Held
        /\ UNCHANGED <<drained, pending, closed>>
    BY <1>2 DEF Submit, Held
  <2>2. Range(accepted') = Range(accepted) \cup {d}
    BY <2>1, AppendElements DEF IInv, TypeOK
  <2>3. Range(queue') = Range(queue) \cup {d}
    BY <2>1, AppendElements DEF IInv, TypeOK
  <2> QED BY <2>1, <2>2, <2>3 DEF CoverInv, Placed
<1>3. accepted' = accepted \/ \E d \in Client : Submit(d)
  BY DEF Next, Worker, Watcher, Handler, vars, Finished, EngineLoaded, LoadFails, PublishReady,
         TakeJob, SkipJob, StartRun, EmitDelta, EndRun, CloseStream, ClearLive, LeaveLoop,
         DrainQueue, PushDrained, CloseDrained, WorkerReturns, Signal, Shutdown, PushPending,
         ClosePending, StopHttp, Exit, BadRequest, Refuse, WriteRole, Pop, PopFails, CheckWritable,
         SeesClosed, SeesOpen, CheckConnection, Disconnect
<1> QED BY <1>1, <1>2, <1>3

(* shutdown "refuses new work", and once the worker has returned and the
   watcher is past its own drain every accepted job has been ended, if no
   signal comes before the worker is ready. *)
THEOREM CleanStop ==
  ASSUME ~EarlyStop
  PROVE  Spec => []StopEndsEveryJob /\ RefusesAfterShutdown
<1>1. JInv /\ [Next]_vars => JInv'
  BY NextIInv, StopStep, CoverStep DEF JInv, IInv
<1>2. JInv => StopEndsEveryJob
  <2> SUFFICES ASSUME JInv, worker = "returned", watcher \in {"join", "exited"},
                      NEW c \in Range(accepted)
               PROVE  closed[c]
    BY DEF StopEndsEveryJob
  <2>1. Range(queue) = {} /\ Range(drained) = {} /\ Range(pending) = {} /\ Held = {}
    BY EmptyList DEF JInv, StopInv, Held, Busy
  <2> QED BY <2>1 DEF JInv, CoverInv, Placed
<1>3. JInv /\ [Next]_vars => [~running => accepted' = accepted]_vars
  BY DEF JInv, StopInv, serviceVars, Next, Worker, Watcher, Handler, vars, Finished, EngineLoaded,
         LoadFails, PublishReady, TakeJob, SkipJob, StartRun, EmitDelta, EndRun, CloseStream,
         ClearLive, LeaveLoop, DrainQueue, PushDrained, CloseDrained, WorkerReturns, Signal,
         Shutdown, PushPending, ClosePending, StopHttp, Exit, BadRequest, Refuse, Submit, WriteRole,
         Pop, PopFails, CheckWritable, SeesClosed, SeesOpen, CheckConnection, Disconnect
<1> QED BY <1>1, <1>2, <1>3, InitJInv, PTL DEF Spec, RefusesAfterShutdown

-----------------------------------------------------------------------------
(* The order of service.                                                   *)

Drains == {"drain", "drainPush", "drainClose", "returned"}
Ended(c) == closed[c] \/ c \in Held

(* Until shutdown, the queue is the end of the list of accepted jobs, and every
   job before it is closed or in the worker's hand. *)
FifoInv ==
  /\ ListOver(accepted, Client)
  /\ \A c \in Client : handler[c] = "idle" => c \notin Range(accepted)
  /\ worker \in Drains => ~running
  /\ running =>
       /\ Len(queue) <= Len(accepted)
       /\ \A i \in 1 .. Len(queue) : queue[i] = accepted[Len(accepted) - Len(queue) + i]
       /\ \A i \in 1 .. Len(accepted) - Len(queue) : Ended(accepted[i])

(* A step that neither queues nor takes a job and keeps what has ended. *)
LEMMA FifoFrame ==
  ASSUME IInv, FifoInv, accepted' = accepted, running' => running /\ queue' = queue,
         worker' \in Drains => ~running',
         \A c \in Client : handler'[c] = "idle" => handler[c] = "idle",
         \A c \in Client : Ended(c) => Ended(c)'
  PROVE  FifoInv'
<1>1. \A i \in 1 .. Len(accepted) - Len(queue) : running => accepted[i] \in Client
  <2>1. /\ running => Len(queue) <= Len(accepted)
        /\ accepted \in Seq(Client) /\ queue \in Seq(Client)
    BY ONLY IInv, FifoInv DEF FifoInv, IInv, TypeOK
  <2>2. running => \A i \in 1 .. Len(accepted) - Len(queue) : i \in 1 .. Len(accepted)
    BY ONLY <2>1
  <2> QED BY ONLY <2>1, <2>2
<1>2. ASSUME running'
      PROVE  /\ Len(queue') <= Len(accepted')
             /\ \A i \in 1 .. Len(queue') : queue'[i] = accepted'[Len(accepted') - Len(queue') + i]
             /\ \A i \in 1 .. Len(accepted') - Len(queue') : Ended(accepted[i])'
  <2>1. running /\ queue' = queue /\ accepted' = accepted
    BY ONLY <1>2, running' => running /\ queue' = queue, accepted' = accepted
  <2>2. ASSUME NEW i \in 1 .. Len(accepted) - Len(queue) PROVE Ended(accepted[i])'
    <3>1. PICK c \in Client : c = accepted[i] /\ Ended(c)
      BY ONLY <1>1, <2>1, <2>2, FifoInv DEF FifoInv
    <3>2. Ended(c)' /\ accepted'[i] = c
      BY ONLY <2>1, <3>1, \A d \in Client : Ended(d) => Ended(d)'
    <3> QED BY ONLY <3>2 DEF Ended
  <2> QED BY ONLY <2>1, <2>2, FifoInv DEF FifoInv
<1>3. /\ ListOver(accepted', Client)
      /\ \A c \in Client : handler'[c] = "idle" => c \notin Range(accepted')
  BY ONLY FifoInv, accepted' = accepted,
          \A c \in Client : handler'[c] = "idle" => handler[c] = "idle" DEF FifoInv
<1> QED BY ONLY <1>2, <1>3, worker' \in Drains => ~running' DEF FifoInv

(* The worker takes the job after all that have ended. *)
LEMMA TakeJobFifo ==
  ASSUME IInv, FifoInv, TakeJob
  PROVE  /\ FifoInv'
         /\ \A i, j \in DOMAIN accepted : i < j /\ accepted[j] = job' => closed[accepted[i]]
<1> DEFINE n == Len(accepted)
           q == Len(queue)
           p == n - q
<1>1. /\ worker = "wait" /\ running /\ queue # <<>> /\ worker' = "picked" /\ job' = Head(queue)
      /\ queue' = Tail(queue) /\ running' = running /\ accepted' = accepted /\ closed' = closed
      /\ handler' = handler
  BY ONLY TakeJob DEF TakeJob, streamVars, handlerVars
<1>2. /\ queue \in Seq(Client) /\ accepted \in Seq(Client) /\ n \in Nat /\ q \in Nat \ {0} /\ q <= n
      /\ DOMAIN accepted = 1 .. n
      /\ \A i, j \in 1 .. n : accepted[i] = accepted[j] => i = j
      /\ \A i \in 1 .. q : queue[i] = accepted[p + i]
      /\ \A i \in 1 .. p : Ended(accepted[i])
  <2>1. queue \in Seq(Client) /\ accepted \in Seq(Client)
    BY ONLY IInv DEF IInv, TypeOK
  <2>2. n \in Nat /\ q \in Nat \ {0} /\ DOMAIN accepted = 1 .. n
    BY ONLY <1>1, <2>1
  <2> QED BY ONLY <1>1, <2>1, <2>2, FifoInv DEF FifoInv, ListOver, IsInjective
<1>3. job' = accepted[p + 1] /\ p + 1 \in 1 .. n /\ p \in Nat
  <2>1. 1 \in 1 .. q /\ Head(queue) = queue[1] /\ p + 1 \in 1 .. n /\ p \in Nat
    BY ONLY <1>2
  <2> QED BY ONLY <1>1, <1>2, <2>1
<1>4. Len(queue') = q - 1 /\ \A i \in 1 .. q - 1 : queue'[i] = queue[i + 1]
  BY ONLY <1>1, <1>2
<1>5. Held = {} /\ Held' = {job'}
  BY ONLY <1>1 DEF Held, Busy
<1>6. \A i \in 1 .. p : closed[accepted[i]]
  BY ONLY <1>2, <1>5 DEF Ended
<1>7. ASSUME NEW i \in 1 .. n, NEW j \in 1 .. n, i < j, accepted[j] = job' PROVE closed[accepted[i]]
  <2>1. j = p + 1
    BY ONLY <1>2, <1>3, <1>7
  <2>2. i \in 1 .. p
    BY ONLY <1>3, <1>7, <2>1
  <2> QED BY ONLY <1>6, <2>2
<1>8. FifoInv'
  <2>1. n - (q - 1) = p + 1 /\ q - 1 <= n
    BY ONLY <1>2
  <2>2. ASSUME NEW i \in 1 .. q - 1 PROVE queue'[i] = accepted[(p + 1) + i]
    <3>1. i + 1 \in 1 .. q /\ p + (i + 1) = (p + 1) + i
      BY ONLY <1>2, i \in 1 .. q - 1
    <3> QED BY ONLY <1>2, <1>4, <3>1, i \in 1 .. q - 1
  <2>3. ASSUME NEW i \in 1 .. p + 1 PROVE Ended(accepted[i])'
    <3>1. i \in 1 .. p \/ i = p + 1
      BY ONLY <1>3, i \in 1 .. p + 1
    <3>2. i \in 1 .. p => closed'[accepted'[i]]
      BY ONLY <1>1, <1>6
    <3>3. i = p + 1 => accepted'[i] \in Held'
      BY ONLY <1>1, <1>3, <1>5
    <3> QED BY ONLY <3>1, <3>2, <3>3 DEF Ended
  <2>4. /\ ListOver(accepted', Client)
        /\ \A c \in Client : handler'[c] = "idle" => c \notin Range(accepted')
    BY ONLY <1>1, FifoInv DEF FifoInv
  <2>5. worker' \notin Drains
    BY ONLY <1>1 DEF Drains
  <2>6. /\ Len(queue') <= Len(accepted')
        /\ \A i \in 1 .. Len(queue') : queue'[i] = accepted'[Len(accepted') - Len(queue') + i]
        /\ \A i \in 1 .. Len(accepted') - Len(queue') : Ended(accepted[i])'
    <3>1. Len(accepted') = n /\ Len(queue') = q - 1 /\ accepted' = accepted
      BY ONLY <1>1, <1>4
    <3> HIDE DEF n, q, p
    <3> QED BY ONLY <2>1, <2>2, <2>3, <3>1
  <2> QED BY ONLY <2>4, <2>5, <2>6 DEF FifoInv
<1> QED BY ONLY <1>2, <1>7, <1>8

(* A new job is queued behind all the others. *)
LEMMA SubmitFifo ==
  ASSUME IInv, FifoInv, NEW d \in Client, Submit(d)
  PROVE  FifoInv'
<1> DEFINE n == Len(accepted)
           q == Len(queue)
<1>1. /\ handler[d] = "idle" /\ queue' = Append(queue, d) /\ accepted' = Append(accepted, d)
      /\ handler' = [handler EXCEPT ![d] = IF d \in Streaming THEN "open" ELSE "pop"]
      /\ running' = running /\ worker' = worker /\ job' = job /\ closed' = closed
  BY ONLY Submit(d) DEF Submit, GoesTo, streamVars, workerVars
<1>2. queue \in Seq(Client) /\ accepted \in Seq(Client) /\ handler \in [Client -> HandlerAt]
  BY ONLY IInv DEF IInv, TypeOK
<1>3. /\ n \in Nat /\ q \in Nat /\ Len(queue') = q + 1 /\ Len(accepted') = n + 1
      /\ queue'[q + 1] = d /\ accepted'[n + 1] = d
      /\ \A i \in 1 .. q : queue'[i] = queue[i]
      /\ \A i \in 1 .. n : accepted'[i] = accepted[i]
  BY ONLY <1>1, <1>2
<1>4. ListOver(accepted', Client) /\ Range(accepted') = Range(accepted) \cup {d}
  <2>1. ListOver(accepted, Client) /\ d \notin Range(accepted)
    BY ONLY <1>1, FifoInv DEF FifoInv
  <2> QED BY ONLY <1>1, <2>1, AppendList
<1>5. \A c \in Client : handler'[c] = "idle" => c \notin Range(accepted')
  <2>1. \A c \in Client : handler'[c] = "idle" => c # d /\ handler[c] = "idle"
    BY ONLY <1>1, <1>2
  <2> QED BY ONLY <1>4, <2>1, FifoInv DEF FifoInv
<1>6. ASSUME running'
      PROVE  /\ q + 1 <= n + 1
             /\ \A i \in 1 .. q + 1 : queue'[i] = accepted'[(n + 1) - (q + 1) + i]
             /\ \A i \in 1 .. (n + 1) - (q + 1) : Ended(accepted[i])'
  <2>1. /\ q <= n /\ \A i \in 1 .. q : queue[i] = accepted[n - q + i]
        /\ \A i \in 1 .. n - q : Ended(accepted[i])
    BY ONLY <1>1, <1>6, FifoInv DEF FifoInv
  <2>2. (n + 1) - (q + 1) = n - q /\ q + 1 <= n + 1
    BY ONLY <1>3, <2>1
  <2>3. ASSUME NEW i \in 1 .. q + 1 PROVE queue'[i] = accepted'[n - q + i]
    <3>1. CASE i \in 1 .. q
      <4>1. n - q + i \in 1 .. n
        BY ONLY <1>3, <2>1, <3>1
      <4> QED BY ONLY <1>3, <2>1, <3>1, <4>1
    <3>2. CASE i = q + 1
      <4>1. n - q + i = n + 1
        BY ONLY <1>3, <2>1, <3>2
      <4> QED BY ONLY <1>3, <3>2, <4>1
    <3>3. i \in 1 .. q \/ i = q + 1
      BY ONLY <1>3, i \in 1 .. q + 1
    <3> QED BY ONLY <3>1, <3>2, <3>3
  <2>4. ASSUME NEW i \in 1 .. n - q PROVE Ended(accepted[i])'
    <3>1. i \in 1 .. n
      BY ONLY <1>3, <2>1, i \in 1 .. n - q
    <3>2. accepted'[i] = accepted[i] /\ Ended(accepted[i])
      BY ONLY <1>3, <2>1, <3>1, i \in 1 .. n - q
    <3> QED BY ONLY <1>1, <3>2 DEF Ended, Held
  <2> QED BY ONLY <2>2, <2>3, <2>4
<1>7. worker' \in Drains => ~running'
  BY ONLY <1>1, FifoInv DEF FifoInv
<1> QED BY ONLY <1>3, <1>4, <1>5, <1>6, <1>7 DEF FifoInv

(* Every other step only closes streams, stops the service, or moves a job that
   was taken. *)
LEMMA FifoStep ==
  ASSUME IInv, FifoInv, [Next]_vars
  PROVE  /\ FifoInv'
         /\ job' # job /\ job' # NoJob =>
              \A i, j \in DOMAIN accepted : i < j /\ accepted[j] = job' => closed[accepted[i]]
<1>0. closed \in [Client -> BOOLEAN] /\ handler \in [Client -> HandlerAt]
  BY ONLY IInv DEF IInv, TypeOK
<1>1. CASE TakeJob
  BY ONLY <1>1, IInv, FifoInv, TakeJobFifo
<1>2. ASSUME NEW d \in Client, Submit(d) PROVE FifoInv' /\ job' = job
  <2>1. job' = job
    BY ONLY <1>2 DEF Submit, workerVars
  <2> QED BY ONLY <1>2, <2>1, IInv, FifoInv, SubmitFifo
<1>3. CASE UNCHANGED vars \/ Finished \/ EngineLoaded \/ LoadFails \/ PublishReady \/ SkipJob
           \/ StartRun \/ EmitDelta \/ EndRun \/ ClearLive \/ LeaveLoop \/ PushDrained
           \/ WorkerReturns
  <2>1. UNCHANGED <<accepted, queue, running, closed, handler>> /\ job' \in {job, NoJob}
    BY ONLY <1>3 DEF vars, Finished, EngineLoaded, LoadFails, PublishReady, SkipJob, StartRun,
                EmitDelta, EndRun, ClearLive, LeaveLoop, PushDrained, WorkerReturns,
                serviceVars, streamVars, workerVars, stopVars, handlerVars
  <2>2. Held' = Held
    BY ONLY <1>3 DEF vars, Finished, EngineLoaded, LoadFails, PublishReady, SkipJob, StartRun,
                EmitDelta, EndRun, ClearLive, LeaveLoop, PushDrained, WorkerReturns, Held, Busy,
                serviceVars, streamVars, workerVars, stopVars, handlerVars
  <2>3. worker' \in Drains => worker \in Drains \/ ~running
    BY ONLY <1>3 DEF vars, Finished, EngineLoaded, LoadFails, PublishReady, SkipJob, StartRun,
                EmitDelta, EndRun, ClearLive, LeaveLoop, PushDrained, WorkerReturns, Drains,
                serviceVars, streamVars, workerVars, stopVars, handlerVars
  <2>4. worker' \in Drains => ~running'
    BY ONLY <2>1, <2>3, FifoInv DEF FifoInv
  <2>5. FifoInv'
    BY ONLY <2>1, <2>2, <2>4, IInv, FifoInv, FifoFrame DEF Ended
  <2> QED BY ONLY <2>1, <2>5
<1>4. CASE CloseStream
  <2>1. /\ UNCHANGED <<accepted, queue, running, handler, job>> /\ worker = "pushed"
        /\ worker' = "publish" /\ closed' = [closed EXCEPT ![job] = TRUE]
    BY ONLY <1>4 DEF CloseStream, Close, serviceVars, handlerVars
  <2>2. Held = {job} /\ job \in Client
    <3>1. Held = {job} /\ Held \subseteq Client
      BY ONLY <2>1, IInv DEF Held, Busy, IInv, PlaceInv
    <3> QED BY ONLY <3>1
  <2>3. \A c \in Client : Ended(c) => Ended(c)'
    BY ONLY <1>0, <2>1, <2>2 DEF Ended
  <2>4. worker' \in Drains => ~running'
    BY ONLY <2>1 DEF Drains
  <2> QED BY ONLY <2>1, <2>3, <2>4, IInv, FifoInv, FifoFrame
<1>5. CASE DrainQueue \/ CloseDrained
  <2>1. /\ UNCHANGED <<accepted, running, handler, job>> /\ worker \in Drains /\ worker' \in Drains
        /\ Held = {} /\ closed' \in {closed, [closed EXCEPT ![Head(drained)] = TRUE]}
    BY ONLY <1>5 DEF DrainQueue, CloseDrained, Close, Held, Busy, Drains, serviceVars, handlerVars,
                     streamVars
  <2>2. ~running /\ ~running'
    BY ONLY <2>1, FifoInv DEF FifoInv
  <2>3. \A c \in Client : Ended(c) => Ended(c)'
    BY ONLY <1>0, <2>1 DEF Ended
  <2> QED BY ONLY <2>1, <2>2, <2>3, IInv, FifoInv, FifoFrame
<1>6. CASE Shutdown \/ PushPending \/ ClosePending \/ StopHttp \/ Exit \/ Signal
  <2>1. /\ UNCHANGED <<accepted, handler, job, worker>> /\ (running' => running /\ queue' = queue)
        /\ closed' \in {closed, [closed EXCEPT ![Head(pending)] = TRUE]}
    BY ONLY <1>6 DEF Shutdown, PushPending, ClosePending, StopHttp, Exit, Signal, Close,
                     serviceVars, handlerVars, streamVars, workerVars
  <2>2. Held' = Held
    BY ONLY <2>1 DEF Held
  <2>3. \A c \in Client : Ended(c) => Ended(c)'
    BY ONLY <1>0, <2>1, <2>2 DEF Ended
  <2>4. worker' \in Drains => ~running'
    BY ONLY <2>1, FifoInv DEF FifoInv
  <2> QED BY ONLY <2>1, <2>3, <2>4, IInv, FifoInv, FifoFrame
<1>7. ASSUME NEW d \in Client, BadRequest(d) \/ Refuse(d) \/ Handler(d) \/ Disconnect(d)
      PROVE  FifoInv' /\ job' = job
  <2>1. UNCHANGED <<accepted, queue, running, closed, job, worker>>
    BY ONLY <1>7 DEF BadRequest, Refuse, Handler, Disconnect, WriteRole, Pop, PopFails,
                CheckWritable, SeesClosed, SeesOpen, CheckConnection,
                serviceVars, streamVars, workerVars
  <2>2. handler' = handler \/ \E p \in HandlerAt \ {"idle"} : handler' = [handler EXCEPT ![d] = p]
    BY ONLY <1>7 DEF BadRequest, Refuse, Handler, Disconnect, WriteRole, Pop, PopFails,
                CheckWritable, SeesClosed, SeesOpen, CheckConnection, Abort, Answered, GoesTo,
                HandlerAt, handlerVars
  <2>3. \A c \in Client : handler'[c] = "idle" => handler[c] = "idle"
    BY ONLY <1>0, <2>2
  <2>4. \A c \in Client : Ended(c) => Ended(c)'
    BY ONLY <2>1 DEF Ended, Held
  <2>5. worker' \in Drains => ~running'
    BY ONLY <2>1, FifoInv DEF FifoInv
  <2> QED BY ONLY <2>1, <2>3, <2>4, <2>5, IInv, FifoInv, FifoFrame
<1> QED BY ONLY <1>1, <1>2, <1>3, <1>4, <1>5, <1>6, <1>7, [Next]_vars DEF Next, Worker, Watcher

(* The service is first come, first served, for any number of clients and any
   queue capacity, whether or not it is stopped, early or late: the worker takes
   a job only when the stream of every job submitted before it is closed. *)
THEOREM FirstComeFirstServed == Spec => FifoService
<1>1. Init => FifoInv
  BY EmptyList DEF Init, FifoInv, Drains
<1>2. IInv /\ FifoInv /\ [Next]_vars => FifoInv'
  BY FifoStep
<1>3. IInv /\ FifoInv /\ [Next]_vars =>
        [job' # job /\ job' # NoJob =>
           \A i, j \in DOMAIN accepted : i < j /\ accepted[j] = job' => closed[accepted[i]]]_vars
  BY FifoStep
<1> QED BY <1>1, <1>2, <1>3, Invariance, PTL DEF Spec, FifoService
=============================================================================
