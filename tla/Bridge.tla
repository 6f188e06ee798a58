------------------------------- MODULE Bridge -------------------------------
(***************************************************************************)
(* A host and its worker: the client that turns calls into messages and    *)
(* answers into settled promises, and the server that turns messages into  *)
(* calls of the one session or engine it makes on the first of them.       *)
(* src/src/session/{client,server}.ts and src/src/host/{client,server}.ts. *)
(*                                                                         *)
(* A port delivers in order.  A message is handled up to its first await   *)
(* in one piece; handlers of several messages are in flight at once.  A    *)
(* call is named by its number, which is the id of its message.  What the  *)
(* session or the engine does with it is the subject of Session and        *)
(* Engine: here a call works for a while, for ever if the model is silent. *)
(***************************************************************************)
EXTENDS Naturals, Sequences, FiniteSets

CONSTANTS
  Worlds,     \* [family, slow]: the bridge there is, "session" or "engine", and
              \* whether createSession() or createPorts() waits for anything
  MaxCalls    \* bound: messages of the client, the close of a session aside

ASSUME WorldsAssumption == Worlds \subseteq [family : {"session", "engine"}, slow : BOOLEAN]

VARIABLES
  family, slow,
  calls,      \* of each call: [kind, at, answer, open], as the host sees it;
              \* it is pending, answered, aborted or closed
  closed,     \* the client was closed
  toWorker,   \* messages on their way: numbers of calls, Closing
  toHost,     \* answers on their way: [id, of]
  attached,   \* the server listens
  handling,   \* of each call: where its handler is
  target,     \* of each call: the session or engine it works on
  sessions,   \* the sessions or engines made: [open, busy]
  current,    \* the one the server holds, or 0
  starting,   \* the flag of the engine's server
  cancelled   \* calls whose work was told to stop

host == <<calls, closed>>
server == <<attached, handling, target, sessions, current, starting, cancelled>>
vars == <<family, slow, host, toWorker, toHost, server>>

\* The message of close(), which has no number of its own here.
Closing == 0

\* Calls that may wait for the model.  The others end by themselves.
Long == {"auto", "generate", "assess", "apply", "start"}

\* Calls whose AbortSignal the session's client listens to.
Signalled == {"auto", "generate"}

\* Calls that share the session's busy flag, and all that have a controller,
\* which session.cancel() fires.
Locked == {"auto", "apply", "delete"}
Controlled == Locked \cup {"generate"}

\* "auto" is startAutoWrite or chapterWrite, "assess" an assessment that the
\* model refines, "apply" applyFoundationChange.  "read" stands for the calls
\* that only look at or write the store, "control" for pause, resume, steer and
\* snapshot.
KindsOf(f) ==
  IF f = "session" THEN {"auto", "generate", "assess", "apply", "delete", "read", "cancel"}
                   ELSE {"start", "control"}

Ids == 1..Len(calls)

Pending(i) == calls[i].at = "pending"

-----------------------------------------------------------------------------
Init ==
  /\ \E world \in Worlds : family = world.family /\ slow = world.slow
  /\ calls = <<>> /\ closed = FALSE /\ toWorker = <<>> /\ toHost = <<>>
  /\ attached = TRUE /\ handling = <<>> /\ target = <<>>
  /\ sessions = <<>> /\ current = 0 /\ starting = FALSE /\ cancelled = {}

-----------------------------------------------------------------------------
(* The client. *)

Record(kind, at) ==
  calls' = Append(calls, [kind |-> kind, at |-> at, answer |-> 0, open |-> ~closed])

\* The new call has a number that no handler knows yet.
NewHandler ==
  /\ handling' = Append(handling, "none")
  /\ target' = Append(target, 0)
  /\ UNCHANGED <<family, slow, closed, toHost, attached, sessions, current, starting, cancelled>>

\* send(): the session's client refuses when it is closed, the engine's does
\* not, and a signal that has fired is seen before anything is sent.
Call(kind, signalled) ==
  /\ Len(calls) < MaxCalls
  /\ NewHandler
  /\ IF signalled THEN Record(kind, "aborted") /\ UNCHANGED toWorker
     ELSE IF closed /\ family = "session"
     THEN Record(kind, "closed") /\ UNCHANGED toWorker
     ELSE Record(kind, "pending") /\ toWorker' = Append(toWorker, Len(calls) + 1)

\* The signal of a call in flight fires: withClientAbort() sends a cancel.
Abort(i) ==
  /\ Pending(i) /\ calls[i].kind \in Signalled
  /\ ~closed /\ Call("cancel", FALSE)

\* Slip: the answer goes to the call that waits longest.
Waiter_First(notice) == CHOOSE i \in Ids : Pending(i) /\ \A j \in 1..(i-1) : ~Pending(j)

\* The call that waits for an answer, by its id.
Waiter(notice) == notice.id

\* onMessage() of the client; after close() nobody listens.
Receive ==
  /\ toHost # <<>>
  /\ toHost' = Tail(toHost)
  /\ LET notice == Head(toHost)
     IN  IF ~closed /\ \E i \in Ids : Pending(i) /\ i = Waiter(notice)
         THEN calls' = [calls EXCEPT ![Waiter(notice)].at = "answered",
                                     ![Waiter(notice)].answer = notice.of]
         ELSE UNCHANGED calls
  /\ UNCHANGED <<family, slow, closed, toWorker, server>>

\* close(): everything that waits is rejected; the session is told.
Close ==
  /\ ~closed
  /\ closed' = TRUE
  /\ calls' = [i \in Ids |-> IF Pending(i) THEN [calls[i] EXCEPT !.at = "closed"]
                                           ELSE calls[i]]
  /\ toWorker' = IF family = "session" THEN Append(toWorker, Closing) ELSE toWorker
  /\ UNCHANGED <<family, slow, toHost, server>>

-----------------------------------------------------------------------------
(* The server. *)

Answer(i) == toHost' = Append(toHost, [id |-> i, of |-> i])

\* Slip: the flag counts for nothing while the engine is not running yet.
StartRefused_Held(made, x) == made[x].busy

\* A start is refused while this engine runs or the server runs any.
StartRefused(made, x) == made[x].busy \/ starting

\* The call is at work: in refineWithLlm(), which waits for the model and is
\* given no signal, or anywhere else.
Working == {"refine", "work"}

\* Slip: only the call under the busy flag is told.
ToldBy_Locked(x) ==
  {i \in Ids : handling[i] \in Working /\ target[i] = x /\ calls[i].kind \in Locked}

\* session.cancel() tells every call with a controller.
ToldBy(x) ==
  {i \in Ids : handling[i] \in Working /\ target[i] = x /\ calls[i].kind \in Controlled}

\* Where a call may wait once it has begun.  A change of the foundation has the
\* model refine its assessment if the host asked for it.
WaitsOf(kind) ==
  CASE kind = "cancel" -> {"done"}
    [] kind = "assess" -> {"refine"}
    [] kind = "apply"  -> {"refine", "work"}
    [] OTHER           -> {"work"}

\* The call is made on session or engine x of those made, up to its first await.
Begin(i, made, x) ==
  LET kind    == calls[i].kind
      refused == \/ family = "session" /\ ~made[x].open
                 \/ kind \in Locked /\ made[x].busy
                 \/ kind = "start" /\ StartRefused(made, x)
  IN  /\ \E at \in IF refused THEN {"done"} ELSE WaitsOf(kind) :
           /\ handling' = [handling EXCEPT ![i] = at]
           /\ IF at = "done" THEN Answer(i) ELSE UNCHANGED toHost
      /\ target' = [target EXCEPT ![i] = x]
      /\ cancelled' = IF kind = "cancel" /\ ~refused THEN cancelled \cup ToldBy(x) ELSE cancelled
      /\ starting' = (starting \/ (kind = "start" /\ ~refused))
      /\ sessions' = IF ~refused /\ kind \in Locked \cup {"start"}
                     THEN [made EXCEPT ![x].busy = TRUE] ELSE made

\* ensureSession(), ensureEngine(): made now, and held from now on.
Create(i) ==
  LET made == Append(sessions, [open |-> TRUE, busy |-> FALSE])
  IN  /\ current' = Len(made)
      /\ Begin(i, made, Len(made))

\* A message arrives.  Without a session the handler first makes one, and
\* that may take a while.
Handle ==
  /\ toWorker # <<>> /\ attached
  /\ toWorker' = Tail(toWorker)
  /\ UNCHANGED <<family, slow, host, attached>>
  /\ LET i == Head(toWorker)
     IN  CASE i = Closing ->
                /\ sessions' = [x \in DOMAIN sessions |->
                                  IF x = current THEN [sessions[x] EXCEPT !.open = FALSE]
                                                 ELSE sessions[x]]
                /\ current' = 0
                /\ UNCHANGED <<toHost, handling, target, starting, cancelled>>
           [] i # Closing /\ current # 0 -> Begin(i, sessions, current) /\ UNCHANGED current
           [] i # Closing /\ current = 0 /\ ~slow -> Create(i)
           [] i # Closing /\ current = 0 /\ slow ->
                /\ handling' = [handling EXCEPT ![i] = "create"]
                /\ UNCHANGED <<toHost, target, sessions, current, starting, cancelled>>

Created(i) ==
  /\ handling[i] = "create"
  /\ Create(i)
  /\ UNCHANGED <<family, slow, host, toWorker, attached>>

\* The model has refined the assessment, and the foundation is changed next.
Refined(i) ==
  /\ handling[i] = "refine" /\ calls[i].kind = "apply"
  /\ handling' = [handling EXCEPT ![i] = "work"]
  /\ UNCHANGED <<family, slow, host, toWorker, toHost, attached, target, sessions, current,
                 starting, cancelled>>

\* The work of a call ends, with a result or an error; either is posted.
Finish(i) ==
  /\ handling[i] \in Working
  /\ handling' = [handling EXCEPT ![i] = "done"]
  /\ Answer(i)
  /\ IF calls[i].kind \in Locked \cup {"start"}
     THEN sessions' = [sessions EXCEPT ![target[i]].busy = FALSE]
     ELSE UNCHANGED sessions
  /\ starting' = (starting /\ calls[i].kind # "start")
  /\ UNCHANGED <<family, slow, host, toWorker, attached, target, current, cancelled>>

\* createSession() or createPorts() rejects.
CreateFails(i) ==
  /\ handling[i] = "create"
  /\ handling' = [handling EXCEPT ![i] = "done"]
  /\ Answer(i)
  /\ UNCHANGED <<family, slow, host, toWorker, attached, target, sessions, current, starting,
                 cancelled>>

\* detach() of the server.
Detach ==
  /\ attached
  /\ attached' = FALSE
  /\ sessions' = [x \in DOMAIN sessions |->
                    IF family = "session" /\ x = current
                    THEN [sessions[x] EXCEPT !.open = FALSE] ELSE sessions[x]]
  /\ current' = IF family = "session" THEN 0 ELSE current
  /\ UNCHANGED <<family, slow, host, toWorker, toHost, handling, target, starting, cancelled>>

-----------------------------------------------------------------------------
HostStep ==
  \/ \E kind \in KindsOf(family), signalled \in BOOLEAN :
       (signalled => kind \in Signalled) /\ Call(kind, signalled)
  \/ \E i \in Ids : Abort(i)
  \/ Close

ServerStep ==
  \/ Handle
  \/ \E i \in Ids : Created(i) \/ CreateFails(i) \/ Refined(i) \/ Finish(i)

Next == HostStep \/ ServerStep \/ Receive \/ Detach

\* Ports deliver and handlers go on.  Only the model may be silent: for ever in
\* refineWithLlm(), elsewhere as long as the call is not told to stop.
Fairness ==
  /\ WF_vars(Handle)
  /\ WF_vars(Receive)
  /\ \A i \in 1..MaxCalls :
       /\ WF_vars(i \in Ids /\ Created(i))
       /\ WF_vars(/\ i \in Ids /\ handling[i] = "work"
                  /\ calls[i].kind \notin Long \/ i \in cancelled
                  /\ Finish(i))

Spec == Init /\ [][Next]_vars

FairSpec == Spec /\ Fairness

-----------------------------------------------------------------------------
(* Properties. *)

\* A call is settled by the answer to itself, by a signal that had fired or by
\* close(), although calls end in another order than they were sent in.
AnswersMatch ==
  \A i \in Ids : calls[i].at = "answered" => calls[i].answer = i /\ handling[i] = "done"

\* One at a time: the worker has one session that is open, the one it holds,
\* and none once it was told to close; of the calls under the busy flag one
\* works.  An engine's worker runs one start, even if its first messages made
\* several engines.
OneAtATime ==
  /\ Cardinality({i \in Ids : /\ handling[i] \in Working
                              /\ calls[i].kind \in Locked \cup {"start"}}) <= 1
  /\ family = "session" =>
       \A x \in DOMAIN sessions : sessions[x].open => x = current

\* As long as the worker listens, a call made on an open client settles if it
\* does not wait for the model or if the client is closed.  A call with a
\* controller also settles once its signal fires or the session is cancelled,
\* unless the model is refining its assessment (session/impact.ts:670): there it
\* goes on waiting, as an assessment by itself does, which has no controller.
CallsSettle ==
  \A i \in 1..MaxCalls :
    /\ (i \in Ids /\ calls[i].open /\ (calls[i].kind \notin Long \/ closed))
         ~> (attached => i \in Ids /\ ~Pending(i))
    /\ (i \in Ids /\ calls[i].kind \in Controlled /\ calls[i].open
          /\ \E j \in Ids : j > i /\ calls[j].kind = "cancel" /\ calls[j].open)
         ~> (attached => i \in Ids /\ (~Pending(i) \/ handling[i] = "refine"))
=============================================================================
