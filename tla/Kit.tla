---------------------------------- MODULE Kit ----------------------------------
(***************************************************************************)
(* The kit a host writes with: one handle on many books, of which one is   *)
(* open.  src/src/kit/novel-kit.ts over src/src/session/workspace.ts on    *)
(* the main thread, or over a worker per book (kit/connect-worker.ts,      *)
(* kit/worker-runtime.ts) and the list of books of kit/book-index.ts.      *)
(*                                                                         *)
(* A call runs to its next await in one step; a write of the list of books *)
(* lands whole or fails.  What a session does is the subject of Session    *)
(* and Bridge.                                                             *)
(***************************************************************************)
EXTENDS Naturals, Sequences, FiniteSets

CONSTANTS
  Books,        \* names of books
  None,         \* no book
  Slots,        \* calls of the host that may be under way at once
  MaxSessions   \* bound: sessions opened before the page is loaded anew

VARIABLES
  runtime,      \* "main" or "worker"
  disk,         \* _index.json: [books, current]
  books,        \* the list of books in memory
  currentId,    \* the workspace's current book
  current,      \* the workspace's current session, or 0
  sessions,     \* sessions made: [book, open, worker]; worker: its thread lives
  kit,          \* [status, book, session]; "none" before create() returned
  served,       \* sessions the kit has held
  call,         \* of each slot: [at, op, book, session, payload]
  outcome,      \* how the last call ended
  created       \* books whose createBook() or first create() has returned

page == <<books, currentId, current, sessions, kit, served, call, outcome>>
vars == <<runtime, disk, page, created>>

Nowhere == [books |-> {}, current |-> None]

Idle == [at |-> "idle", op |-> "create", book |-> None, session |-> 0, payload |-> Nowhere]

NoKit == [status |-> "none", book |-> None, session |-> 0]

Open(x) == x # 0 /\ sessions[x].open

FreshPage ==
  /\ books' = {} /\ currentId' = None /\ current' = 0 /\ sessions' = <<>>
  /\ kit' = NoKit /\ served' = {} /\ call' = [s \in Slots |-> Idle] /\ outcome' = "ok"

-----------------------------------------------------------------------------
Init ==
  /\ runtime \in {"main", "worker"}
  /\ disk = Nowhere
  /\ books = {} /\ currentId = None /\ current = 0 /\ sessions = <<>>
  /\ kit = NoKit /\ served = {} /\ call = [s \in Slots |-> Idle] /\ outcome = "ok"
  /\ created = {}

-----------------------------------------------------------------------------
(* How a call goes on. *)

At(s, at, payload) == call' = [call EXCEPT ![s].at = at, ![s].payload = payload]

\* A new call, at its first await.
Enter(s, op, b, at, x, payload) ==
  call' = [call EXCEPT ![s] = [at |-> at, op |-> op, book |-> b, session |-> x,
                               payload |-> payload]]

\* Slip: the worker that served is forgotten, not terminated.
Retired_Left(all, x) == IF x = 0 THEN all ELSE [all EXCEPT ![x].open = FALSE]

\* The sessions after x was closed and its worker terminated.
Retired(all, x) ==
  IF x = 0 THEN all ELSE [all EXCEPT ![x].open = FALSE, ![x].worker = FALSE]

\* The kit takes the session, whatever has become of the kit meanwhile.
Adopt(b, x) ==
  /\ kit' = [status |-> IF kit.status = "none" THEN "open" ELSE kit.status,
             book |-> b, session |-> x]
  /\ served' = served \cup {x}

Returns(s) ==
  /\ call' = [call EXCEPT ![s] = Idle]
  /\ outcome' = "ok"
  /\ created' = IF call[s].op = "switch" THEN created ELSE created \cup {call[s].book}

\* A call that rejects.  Of a create() that fails nobody holds anything: its
\* workspace, index and client are gone.  A worker it made still runs.
Rejects(s) ==
  /\ call' = [call EXCEPT ![s] = Idle]
  /\ outcome' = "failed"
  /\ UNCHANGED <<runtime, disk, kit, served, created>>
  /\ IF call[s].op = "create"
     THEN /\ books' = {} /\ currentId' = None /\ current' = 0
          /\ sessions' = [x \in DOMAIN sessions |-> [sessions[x] EXCEPT !.open = FALSE]]
     ELSE UNCHANGED <<books, currentId, current, sessions>>

\* A call that rejects before it does anything.
Refused ==
  /\ outcome' = "failed"
  /\ UNCHANGED <<runtime, disk, books, currentId, current, sessions, kit, served, call, created>>

-----------------------------------------------------------------------------
(* The workspace of the main thread. *)

\* openSession() closes the session of another book before it waits.
Vacated == Retired(sessions, current)

\* openSession(): the current session if it is of this book and open, else a
\* new one, for which the store is opened first.
OpenSession(s, op, b) ==
  IF Open(current) /\ sessions[current].book = b
  THEN /\ Adopt(b, current)
       /\ call' = [call EXCEPT ![s] = Idle] /\ outcome' = "ok"
       /\ created' = IF op = "switch" THEN created ELSE created \cup {b}
       /\ UNCHANGED <<current, sessions>>
  ELSE /\ sessions' = Vacated
       /\ current' = 0
       /\ Enter(s, op, b, "store", 0, Nowhere)
       /\ UNCHANGED <<kit, served, outcome, created>>

\* createBook() writes the list with the new book before it opens it.
AddBook(s, op, b, all, at) ==
  /\ books' = all \cup {b}
  /\ Enter(s, op, b, "list", 0, [books |-> books', current |-> at])
  /\ UNCHANGED <<current, sessions, kit, served, outcome, created>>

\* The list of books has been written; the book is opened.
Listed(s) ==
  /\ call[s].at = "list"
  /\ disk' = call[s].payload
  /\ OpenSession(s, call[s].op, call[s].book)
  /\ UNCHANGED <<runtime, books, currentId>>

\* The store is open: the session is made, it is current, the list written.
StoreOpened(s) ==
  /\ call[s].at = "store" /\ Len(sessions) < MaxSessions
  /\ LET x == Len(sessions) + 1
         b == call[s].book
     IN  /\ sessions' = Append(sessions, [book |-> b, open |-> TRUE, worker |-> FALSE])
         /\ current' = x /\ currentId' = b
         /\ Enter(s, call[s].op, b, "mark", x, [books |-> books, current |-> b])
  /\ UNCHANGED <<runtime, disk, books, kit, served, outcome, created>>

-----------------------------------------------------------------------------
(* Workers. *)

\* Slip: the session before is closed while the next worker is waited for.
WhileConnecting_Closed == Retired(sessions, kit.session)

\* The sessions while a worker is waited for.
WhileConnecting == sessions

\* connectKitWorker(): the thread is started and sent its init.
Connect(s, op, b) ==
  LET x == Len(sessions) + 1
  IN  /\ Len(sessions) < MaxSessions
      /\ sessions' = Append(WhileConnecting, [book |-> b, open |-> FALSE, worker |-> TRUE])
      /\ Enter(s, op, b, "connect", x, Nowhere)
      /\ UNCHANGED <<runtime, disk, books, currentId, current, kit, served, outcome, created>>

\* Slip: add() does not wait until the list of books has been read.
Known_Unread(op) == books

\* The list of books in memory; a kit that is made reads it first.
Known(op) == IF op = "create" THEN disk.books ELSE books

\* The worker is ready.  switchWorkerBook() puts it in the place of the one
\* before; then the list of books is written.
Ready(s) ==
  /\ call[s].at = "connect"
  /\ LET x   == call[s].session
         b   == call[s].book
         now == IF call[s].op = "switch" THEN books ELSE Known(call[s].op) \cup {b}
     IN  /\ books' = now
         /\ At(s, "mark", [books |-> now, current |-> b])
         /\ IF call[s].op = "create"
            THEN sessions' = [sessions EXCEPT ![x].open = TRUE] /\ UNCHANGED <<kit, served>>
            ELSE /\ sessions' = [Retired(sessions, kit.session) EXCEPT ![x].open = TRUE]
                 /\ Adopt(b, x)
  /\ UNCHANGED <<runtime, disk, currentId, current, outcome, created>>

\* An error of the worker, or no word of it for 15 s; the thread is left alone.
NotReady(s) == call[s].at = "connect" /\ Rejects(s)

-----------------------------------------------------------------------------
(* Both. *)

\* The list of books has been written with its current book, and the call
\* returns.  The main thread's kit takes the session now, a worker's did.
Marked(s) ==
  /\ call[s].at = "mark"
  /\ disk' = call[s].payload
  /\ IF runtime = "main" \/ call[s].op = "create"
     THEN Adopt(call[s].book, call[s].session) ELSE UNCHANGED <<kit, served>>
  /\ Returns(s)
  /\ UNCHANGED <<runtime, books, currentId, current, sessions>>

\* A store does not open, or the list cannot be written.
IoFails(s) == call[s].at \in {"list", "store", "mark"} /\ Rejects(s)

\* NovelKit.create() of one book, on the main thread and with a worker.
CreateMain(s, b) ==
  /\ runtime = "main"
  /\ currentId' = disk.current
  /\ UNCHANGED <<runtime, disk>>
  /\ IF b \in disk.books
     THEN books' = disk.books /\ OpenSession(s, "create", b)
     ELSE AddBook(s, "create", b, disk.books, disk.current)

CreateWorker(s, b) == runtime = "worker" /\ Connect(s, "create", b)

Create(s, b) ==
  /\ kit.status = "none" /\ \A r \in Slots : call[r].at = "idle"
  /\ CreateMain(s, b) \/ CreateWorker(s, b)

CreateBook(s, b) ==
  /\ kit.status = "open" /\ call[s].at = "idle"
  /\ \/ b \in books /\ Refused
     \/ /\ b \notin books /\ runtime = "worker"
        /\ Connect(s, "createBook", b)
     \/ /\ b \notin books /\ runtime = "main"
        /\ AddBook(s, "createBook", b, books, currentId)
        /\ UNCHANGED <<runtime, disk, currentId>>

SwitchBook(s, b) ==
  /\ kit.status = "open" /\ call[s].at = "idle"
  /\ \/ b \notin books /\ Refused
     \/ /\ b \in books /\ runtime = "worker"
        /\ Connect(s, "switch", b)
     \/ /\ b \in books /\ runtime = "main"
        /\ OpenSession(s, "switch", b)
        /\ UNCHANGED <<runtime, disk, books, currentId>>

\* dispose() does not wait for the calls under way, and they go on.
Dispose ==
  /\ kit.status = "open"
  /\ kit' = [kit EXCEPT !.status = "disposed"]
  /\ sessions' = Retired(Retired(sessions, kit.session), current)
  /\ current' = 0
  /\ currentId' = IF runtime = "main" THEN None ELSE currentId
  /\ UNCHANGED <<runtime, disk, books, served, call, outcome, created>>

\* The page is closed or loaded anew at any moment.
Reload == FreshPage /\ UNCHANGED <<runtime, disk, created>>

-----------------------------------------------------------------------------
Proceed(s) ==
  Listed(s) \/ StoreOpened(s) \/ Ready(s) \/ NotReady(s) \/ Marked(s) \/ IoFails(s)

Next ==
  \/ \E s \in Slots, b \in Books : Create(s, b) \/ CreateBook(s, b) \/ SwitchBook(s, b)
  \/ \E s \in Slots : Proceed(s)
  \/ Dispose
  \/ Reload

Spec == Init /\ [][Next]_vars

-----------------------------------------------------------------------------
(* Properties. *)

\* One session serves: at most one is open at any moment, also while books are
\* switched, while a switch fails and when the kit was disposed meanwhile; one
\* that served the kit and does so no longer is closed and its worker ended.
OneServing ==
  /\ Cardinality({x \in DOMAIN sessions : sessions[x].open}) <= 1
  /\ \A x \in served : x \notin {kit.session, current} =>
       ~sessions[x].open /\ ~sessions[x].worker

\* A kit that is open has an open session of the book it names, with a live
\* worker behind it.  Only on the main thread may a call that is under way or
\* that failed leave it with a closed one: there the session is closed before
\* the store of the next book is opened.
KitServes ==
  kit.status = "open" =>
    /\ sessions[kit.session].book = kit.book
    /\ \/ Open(kit.session) /\ (runtime = "worker" => sessions[kit.session].worker)
       \/ /\ runtime = "main"
          /\ outcome = "failed" \/ \E s \in Slots : call[s].at # "idle"

\* A book whose creation has returned is in the list of books on disk for ever,
\* through switches, failed writes, disposal and reloads.
CreatedIsListed == created \subseteq disk.books
=============================================================================
