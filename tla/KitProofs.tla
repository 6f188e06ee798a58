------------------------------ MODULE KitProofs ------------------------------
(***************************************************************************)
(* What the kit promises a host that awaits each call before the next, for *)
(* any books and any number of sessions, with failures of every wait,      *)
(* disposal in the middle of a call and reloads of the page.               *)
(***************************************************************************)
EXTENDS Kit, FiniteSetTheorems, TLAPS

Lists == [books : SUBSET Books, current : Books \cup {None}]

Ops == {"create", "createBook", "switch"}

Places == {"idle", "list", "store", "connect", "mark"}

CallRecords ==
  [at : Places, op : Ops, book : Books \cup {None}, session : Nat, payload : Lists]

Kits == [status : {"none", "open", "disposed"}, book : Books \cup {None}, session : Nat]

SessionRecords == [book : Books, open : BOOLEAN, worker : BOOLEAN]

TypeOK ==
  /\ runtime \in {"main", "worker"}
  /\ disk \in Lists /\ books \in SUBSET Books /\ currentId \in Books \cup {None}
  /\ sessions \in Seq(SessionRecords) /\ current \in 0..Len(sessions)
  /\ kit \in Kits
  /\ call \in [Slots -> CallRecords]

\* Where the list of books in memory holds the one on disk: whoever writes the
\* list has read it.
ListRead ==
  /\ kit.status # "none" => disk.books \subseteq books
  /\ \A s \in Slots :
       LET c == call[s]
       IN  /\ c.at # "idle" => (c.op = "create" <=> kit.status = "none")
           /\ c.at \in {"list", "store", "mark"} => disk.books \subseteq books /\ c.book \in books
           /\ c.at \in {"list", "mark"} => c.payload.books = books
           /\ c.at = "connect" => c.book \in Books /\ (c.op = "switch" => c.book \in books)

ListInv == TypeOK /\ ListRead /\ CreatedIsListed

-----------------------------------------------------------------------------
LEMMA NowhereIsList == Nowhere \in Lists /\ Nowhere.books = {} /\ Idle \in CallRecords /\ NoKit \in Kits
  BY DEF Nowhere, Lists, Idle, CallRecords, Places, Ops, NoKit, Kits

\* A sequence of sessions in which one is exchanged, or all are.
LEMMA OneExchanged ==
  ASSUME NEW all \in Seq(SessionRecords), NEW x \in 1..Len(all), NEW r \in SessionRecords,
         NEW next, next = [all EXCEPT ![x] = r]
  PROVE  /\ next \in Seq(SessionRecords) /\ Len(next) = Len(all) /\ next[x] = r
         /\ \A y \in 1..Len(all) : y # x => next[y] = all[y]
  OBVIOUS

\* Whoever retires a session closes it, ends its worker, and leaves the others.
LEMMA RetiredSession ==
  ASSUME NEW all \in Seq(SessionRecords), NEW x \in 0..Len(all)
  PROVE  /\ Retired(all, x) \in Seq(SessionRecords) /\ Len(Retired(all, x)) = Len(all)
         /\ \A y \in 1..Len(all) :
              /\ Retired(all, x)[y].book = all[y].book
              /\ y # x => Retired(all, x)[y] = all[y]
         /\ x # 0 => ~Retired(all, x)[x].open /\ ~Retired(all, x)[x].worker
<1>1. CASE x = 0
  BY <1>1 DEF Retired
<1>2. CASE x # 0
  <2> DEFINE r == [all[x] EXCEPT !.open = FALSE, !.worker = FALSE]
             next == Retired(all, x)
  <2>1. x \in 1..Len(all)
    BY <1>2
  <2>2. r \in SessionRecords /\ r.book = all[x].book /\ ~r.open /\ ~r.worker
    <3>1. all[x] \in SessionRecords
      BY <2>1
    <3> QED
      BY <3>1 DEF SessionRecords
  <2>3. next = [all EXCEPT ![x] = r]
    BY <1>2 DEF Retired
  <2> HIDE DEF r, next
  <2>4. /\ next \in Seq(SessionRecords) /\ Len(next) = Len(all) /\ next[x] = r
        /\ \A y \in 1..Len(all) : y # x => next[y] = all[y]
    BY <2>1, <2>2, <2>3, OneExchanged
  <2> QED
    BY <2>1, <2>2, <2>4 DEF next
<1> QED
  BY <1>1, <1>2

Opened(all, x) == [all EXCEPT ![x].open = TRUE]

LEMMA OpenedSession ==
  ASSUME NEW all \in Seq(SessionRecords), NEW x \in 1..Len(all)
  PROVE  /\ Opened(all, x) \in Seq(SessionRecords) /\ Len(Opened(all, x)) = Len(all)
         /\ \A y \in 1..Len(all) : y # x => Opened(all, x)[y] = all[y]
         /\ Opened(all, x)[x].open /\ Opened(all, x)[x].book = all[x].book
         /\ Opened(all, x)[x].worker = all[x].worker
<1> DEFINE r == [all[x] EXCEPT !.open = TRUE]
           next == Opened(all, x)
<1>1. r \in SessionRecords /\ r.book = all[x].book /\ r.open /\ r.worker = all[x].worker
  <2>1. all[x] \in SessionRecords
    OBVIOUS
  <2> QED
    BY <2>1 DEF SessionRecords
<1>2. next = [all EXCEPT ![x] = r]
  BY DEF Opened
<1> HIDE DEF r, next
<1>3. /\ next \in Seq(SessionRecords) /\ Len(next) = Len(all) /\ next[x] = r
      /\ \A y \in 1..Len(all) : y # x => next[y] = all[y]
  BY <1>1, <1>2, OneExchanged
<1> QED
  BY <1>1, <1>3 DEF next

LEMMA AddedSession ==
  ASSUME NEW all \in Seq(SessionRecords), NEW r \in SessionRecords, NEW next, next = Append(all, r)
  PROVE  /\ next \in Seq(SessionRecords) /\ Len(next) = Len(all) + 1
         /\ next[Len(all) + 1] = r /\ \A y \in 1..Len(all) : next[y] = all[y]
  OBVIOUS

-----------------------------------------------------------------------------
(* The list of books. *)

LEMMA InitHasListInv ==
  ASSUME Init
  PROVE  ListInv
<1>1. call \in [Slots -> CallRecords] /\ kit \in Kits /\ disk \in Lists /\ disk.books = {}
  BY NowhereIsList DEF Init
<1>2. sessions \in Seq(SessionRecords) /\ Len(sessions) = 0 /\ current = 0
  BY DEF Init
<1>3. TypeOK
  BY <1>1, <1>2 DEF Init, TypeOK
<1>4. ListRead
  BY <1>1 DEF Init, ListRead, Idle, NoKit
<1> QED
  BY <1>1, <1>3, <1>4 DEF Init, ListInv, CreatedIsListed

\* The step of a call that ends, or goes on at a wait.
LEMMA CallChanges ==
  ASSUME call \in [Slots -> CallRecords], NEW s \in Slots, NEW r \in CallRecords,
         call' = [call EXCEPT ![s] = r]
  PROVE  call' \in [Slots -> CallRecords] /\ call'[s] = r
  OBVIOUS

\* openSession(), wherever it is called.
LEMMA OpenSessionTypes ==
  ASSUME TypeOK, NEW s \in Slots, NEW op \in Ops, NEW b \in Books, OpenSession(s, op, b)
  PROVE  /\ sessions' \in Seq(SessionRecords) /\ current' \in 0..Len(sessions')
         /\ kit' \in Kits /\ call' \in [Slots -> CallRecords]
         /\ \/ /\ call'[s].at = "idle" /\ kit'.status # "none"
               /\ kit'.status = kit.status \/ kit.status = "none"
               /\ created' = IF op = "switch" THEN created ELSE created \cup {b}
            \/ /\ call'[s].at = "store" /\ call'[s].op = op /\ call'[s].book = b
               /\ UNCHANGED <<kit, created>>
<1>1. CASE Open(current) /\ sessions[current].book = b
  <2>1. /\ kit' = [status |-> IF kit.status = "none" THEN "open" ELSE kit.status,
                   book |-> b, session |-> current]
        /\ call' = [call EXCEPT ![s] = Idle]
        /\ created' = IF op = "switch" THEN created ELSE created \cup {b}
        /\ UNCHANGED <<current, sessions>>
    BY <1>1 DEF OpenSession, Adopt
  <2>2. kit' \in Kits /\ kit'.status # "none" /\ (kit'.status = kit.status \/ kit.status = "none")
    BY <2>1 DEF TypeOK, Kits
  <2>3. call' \in [Slots -> CallRecords] /\ call'[s] = Idle
    BY <2>1, NowhereIsList, CallChanges DEF TypeOK
  <2> QED
    BY <2>1, <2>2, <2>3 DEF TypeOK, Idle
<1>2. CASE ~(Open(current) /\ sessions[current].book = b)
  <2> DEFINE r == [at |-> "store", op |-> op, book |-> b, session |-> 0, payload |-> Nowhere]
  <2>1. /\ sessions' = Retired(sessions, current) /\ current' = 0
        /\ call' = [call EXCEPT ![s] = r]
        /\ UNCHANGED <<kit, created>>
    BY <1>2 DEF OpenSession, Vacated, Enter
  <2>2. r \in CallRecords
    BY NowhereIsList DEF CallRecords, Places
  <2>3. r.at = "store" /\ r.op = op /\ r.book = b
    OBVIOUS
  <2> HIDE DEF r
  <2>4. call' \in [Slots -> CallRecords] /\ call'[s] = r
    BY <2>1, <2>2, CallChanges DEF TypeOK
  <2>5. sessions' \in Seq(SessionRecords) /\ Len(sessions') = Len(sessions)
    BY <2>1, RetiredSession DEF TypeOK
  <2> QED
    BY <2>1, <2>3, <2>4, <2>5 DEF TypeOK
<1> QED
  BY <1>1, <1>2

LEMMA ListedKeepsListInv ==
  ASSUME ListInv, \A r, t \in Slots : r = t, NEW s \in Slots, Listed(s)
  PROVE  ListInv'
<1> DEFINE c == call[s]
<1>1. c \in CallRecords /\ c.op \in Ops /\ c.book \in books /\ books \in SUBSET Books
  BY DEF ListInv, TypeOK, ListRead, Listed, CallRecords
<1>2. /\ disk' = c.payload /\ OpenSession(s, c.op, c.book) /\ c.payload \in Lists
      /\ UNCHANGED <<runtime, books, currentId>> /\ c.payload.books = books
      /\ c.op = "create" <=> kit.status = "none"
  BY <1>1 DEF ListInv, ListRead, Listed, CallRecords
<1>3. /\ sessions' \in Seq(SessionRecords) /\ current' \in 0..Len(sessions')
      /\ kit' \in Kits /\ call' \in [Slots -> CallRecords]
      /\ \/ /\ call'[s].at = "idle" /\ kit'.status # "none"
            /\ kit'.status = kit.status \/ kit.status = "none"
            /\ created' = IF c.op = "switch" THEN created ELSE created \cup {c.book}
         \/ /\ call'[s].at = "store" /\ call'[s].op = c.op /\ call'[s].book = c.book
            /\ UNCHANGED <<kit, created>>
  BY <1>1, <1>2, OpenSessionTypes DEF ListInv
<1>4. TypeOK'
  BY <1>2, <1>3 DEF ListInv, TypeOK
<1>5. ListRead'
  BY <1>1, <1>2, <1>3 DEF ListRead
<1>6. CreatedIsListed'
  <2>1. disk.books \subseteq books
    BY DEF ListInv, ListRead, Listed
  <2> QED
    BY <1>1, <1>2, <1>3, <2>1 DEF ListInv, CreatedIsListed
<1> QED
  BY <1>4, <1>5, <1>6 DEF ListInv

\* A session number that nobody has is exchanged for nothing.
LEMMA NobodyExchanged ==
  ASSUME NEW all \in Seq(SessionRecords), NEW x \in Nat, x > Len(all), NEW r,
         NEW next, next = [all EXCEPT ![x] = r]
  PROVE  next = all
<1>1. x \notin DOMAIN all /\ all = [y \in DOMAIN all |-> all[y]]
  OBVIOUS
<1>2. next = [y \in DOMAIN all |-> all[y]]
  BY <1>1, Zenon
<1> QED
  BY <1>1, <1>2

LEMMA RetiredStays ==
  ASSUME NEW all \in Seq(SessionRecords), NEW x \in Nat
  PROVE  Retired(all, x) \in Seq(SessionRecords) /\ Len(Retired(all, x)) = Len(all)
<1>1. CASE x \in 0..Len(all)
  BY <1>1, RetiredSession
<1>2. CASE x \notin 0..Len(all)
  <2> DEFINE r == [all[x] EXCEPT !.open = FALSE, !.worker = FALSE]
             next == Retired(all, x)
  <2>1. x # 0 /\ x > Len(all)
    BY <1>2
  <2>2. next = [all EXCEPT ![x] = r]
    BY <2>1 DEF Retired
  <2> HIDE DEF r, next
  <2>3. next = all
    BY <2>1, <2>2, NobodyExchanged
  <2> QED
    BY <2>3 DEF next
<1> QED
  BY <1>1, <1>2

LEMMA OpenedStays ==
  ASSUME NEW all \in Seq(SessionRecords), NEW x \in Nat
  PROVE  Opened(all, x) \in Seq(SessionRecords) /\ Len(Opened(all, x)) = Len(all)
<1>1. CASE x \in 1..Len(all)
  BY <1>1, OpenedSession
<1>2. CASE x > Len(all)
  <2> DEFINE r == [all[x] EXCEPT !.open = TRUE]
             next == Opened(all, x)
  <2>1. next = [all EXCEPT ![x] = r]
    BY DEF Opened
  <2> HIDE DEF r, next
  <2>2. next = all
    BY <1>2, <2>1, NobodyExchanged
  <2> QED
    BY <2>2 DEF next
<1>3. CASE x = 0
  <2>1. Opened(all, x) = [y \in 1..Len(all) |-> all[y]]
    BY <1>3 DEF Opened
  <2> QED
    BY <2>1
<1> QED
  BY <1>1, <1>2, <1>3

\* The step of one call that keeps the kit and goes on to another wait.
LEMMA GoesOn ==
  ASSUME ListInv, \A r, t \in Slots : r = t, NEW s \in Slots, NEW r \in CallRecords,
         call' = [call EXCEPT ![s] = r], UNCHANGED <<kit, disk>>, books' \subseteq Books,
         disk.books \subseteq books', r.at \in {"connect", "store", "list", "mark"},
         r.op = "create" <=> kit.status = "none", r.book \in books',
         r.at \in {"list", "mark"} => r.payload.books = books'
  PROVE  ListRead' /\ call' \in [Slots -> CallRecords]
<1>1. call' \in [Slots -> CallRecords] /\ call'[s] = r
  BY CallChanges DEF ListInv, TypeOK
<1> QED
  BY <1>1 DEF ListRead

LEMMA StoreOpenedKeepsListInv ==
  ASSUME ListInv, \A r, t \in Slots : r = t, NEW s \in Slots, StoreOpened(s)
  PROVE  ListInv'
<1> DEFINE x == Len(sessions) + 1
           b == call[s].book
           session == [book |-> b, open |-> TRUE, worker |-> FALSE]
           r == [at |-> "mark", op |-> call[s].op, book |-> b, session |-> x,
                 payload |-> [books |-> books, current |-> b]]
<1>1. call[s] \in CallRecords /\ b \in books /\ b \in Books /\ disk.books \subseteq books
  BY DEF ListInv, TypeOK, ListRead, StoreOpened
<1>2. /\ sessions' = Append(sessions, session) /\ current' = x /\ currentId' = b
      /\ call' = [call EXCEPT ![s] = r]
      /\ UNCHANGED <<runtime, disk, books, kit, created>>
  BY DEF StoreOpened, Enter
<1>3. session \in SessionRecords /\ sessions \in Seq(SessionRecords)
  BY <1>1 DEF SessionRecords, ListInv, TypeOK
<1>4. r \in CallRecords /\ r.at = "mark" /\ r.op = call[s].op /\ r.book = b /\ r.payload.books = books
  BY <1>1, <1>3 DEF CallRecords, Places, Lists, ListInv, TypeOK
<1>5. call[s].op = "create" <=> kit.status = "none"
  BY DEF ListInv, ListRead, StoreOpened
<1> HIDE DEF session, r
<1>6. sessions' \in Seq(SessionRecords) /\ Len(sessions') = x
  BY <1>2, <1>3, AddedSession
<1>7. ListRead' /\ call' \in [Slots -> CallRecords]
  BY <1>1, <1>2, <1>4, <1>5, GoesOn DEF ListInv, TypeOK
<1>8. TypeOK'
  BY <1>1, <1>2, <1>3, <1>6, <1>7 DEF ListInv, TypeOK
<1>9. CreatedIsListed'
  BY <1>2 DEF ListInv, CreatedIsListed
<1> QED
  BY <1>7, <1>8, <1>9 DEF ListInv

\* connectKitWorker() leaves the list of books as it is.
LEMMA ConnectKeepsListInv ==
  ASSUME ListInv, \A r, t \in Slots : r = t, NEW s \in Slots, NEW op \in Ops, NEW b \in Books,
         Connect(s, op, b), op = "create" <=> kit.status = "none",
         op = "switch" => b \in books
  PROVE  ListInv'
<1> DEFINE x == Len(sessions) + 1
           session == [book |-> b, open |-> FALSE, worker |-> TRUE]
           r == [at |-> "connect", op |-> op, book |-> b, session |-> x, payload |-> Nowhere]
<1>1. /\ sessions' = Append(sessions, session) /\ call' = [call EXCEPT ![s] = r]
      /\ UNCHANGED <<runtime, disk, books, currentId, current, kit, created>>
  BY DEF Connect, WhileConnecting, Enter
<1>2. session \in SessionRecords /\ sessions \in Seq(SessionRecords)
  BY DEF SessionRecords, ListInv, TypeOK
<1>3. r \in CallRecords /\ r.at = "connect" /\ r.op = op /\ r.book = b
  BY <1>2, NowhereIsList DEF CallRecords, Places
<1> HIDE DEF session, r
<1>4. sessions' \in Seq(SessionRecords) /\ Len(sessions') = x
  BY <1>1, <1>2, AddedSession
<1>5. call' \in [Slots -> CallRecords] /\ call'[s] = r
  BY <1>1, <1>3, CallChanges DEF ListInv, TypeOK
<1>6. ListRead'
  BY <1>1, <1>3, <1>5 DEF ListInv, ListRead
<1>7. TypeOK'
  BY <1>1, <1>2, <1>4, <1>5 DEF ListInv, TypeOK
<1>8. CreatedIsListed'
  BY <1>1 DEF ListInv, CreatedIsListed
<1> QED
  BY <1>6, <1>7, <1>8 DEF ListInv

\* The new worker is in the place of the one before; the list is written next.
LEMMA ReadyKeepsListInv ==
  ASSUME ListInv, \A r, t \in Slots : r = t, NEW s \in Slots, Ready(s)
  PROVE  ListInv'
<1> DEFINE c == call[s]
           now == IF c.op = "switch" THEN books ELSE Known(c.op) \cup {c.book}
           r == [c EXCEPT !.at = "mark", !.payload = [books |-> now, current |-> c.book]]
<1>1. /\ c \in CallRecords /\ c.at = "connect" /\ c.book \in Books
      /\ c.op = "switch" => c.book \in books
      /\ c.op = "create" <=> kit.status = "none"
      /\ kit.status # "none" => disk.books \subseteq books
  BY DEF ListInv, TypeOK, ListRead, Ready
<1>2. now \subseteq Books /\ c.book \in now /\ disk.books \subseteq now
  BY <1>1 DEF Known, ListInv, TypeOK, Lists
<1>3. /\ books' = now /\ call' = [call EXCEPT ![s] = r]
      /\ UNCHANGED <<runtime, disk, currentId, current, created>>
  <2>1. call' = [call EXCEPT ![s].at = "mark",
                             ![s].payload = [books |-> now, current |-> c.book]]
    BY DEF Ready, At
  <2>2. call' = [call EXCEPT ![s] = r]
    BY <2>1
  <2> QED
    BY <2>2 DEF Ready
<1>4. r \in CallRecords /\ r.at = "mark" /\ r.op = c.op /\ r.book = c.book /\ r.payload.books = now
  BY <1>1, <1>2 DEF CallRecords, Places, Lists
<1>5. /\ kit' \in Kits /\ (kit'.status = "none" <=> kit.status = "none")
      /\ sessions' \in Seq(SessionRecords) /\ Len(sessions') = Len(sessions)
  <2>1. CASE c.op = "create"
    <3>1. sessions' = Opened(sessions, c.session) /\ kit' = kit
      BY <2>1 DEF Ready, Opened
    <3>2. c.session \in Nat
      BY <1>1 DEF CallRecords
    <3> QED
      BY <3>1, <3>2, OpenedStays DEF ListInv, TypeOK
  <2>2. CASE c.op # "create"
    <3> DEFINE rest == Retired(sessions, kit.session)
    <3>1. /\ sessions' = Opened(rest, c.session)
          /\ kit' = [status |-> kit.status, book |-> c.book, session |-> c.session]
      BY <1>1, <2>2 DEF Ready, Opened, Adopt
    <3>2. c.session \in Nat /\ kit.session \in Nat /\ kit.status \in {"none", "open", "disposed"}
      BY <1>1 DEF CallRecords, ListInv, TypeOK, Kits
    <3>3. rest \in Seq(SessionRecords) /\ Len(rest) = Len(sessions)
      BY <3>2, RetiredStays DEF ListInv, TypeOK
    <3> HIDE DEF rest
    <3>4. sessions' \in Seq(SessionRecords) /\ Len(sessions') = Len(sessions)
      BY <3>1, <3>2, <3>3, OpenedStays
    <3> QED
      BY <1>1, <3>1, <3>2, <3>4 DEF Kits
  <2> QED
    BY <2>1, <2>2
<1> HIDE DEF now, r
<1>6. call' \in [Slots -> CallRecords] /\ call'[s] = r
  BY <1>3, <1>4, CallChanges DEF ListInv, TypeOK
<1>7. TypeOK'
  BY <1>2, <1>3, <1>5, <1>6 DEF ListInv, TypeOK
<1>8. ListRead'
  BY <1>1, <1>2, <1>3, <1>4, <1>5, <1>6 DEF ListRead
<1>9. CreatedIsListed'
  BY <1>3 DEF ListInv, CreatedIsListed
<1> QED
  BY <1>7, <1>8, <1>9 DEF ListInv

LEMMA RejectsKeepsListInv ==
  ASSUME ListInv, \A r, t \in Slots : r = t, NEW s \in Slots, call[s].at # "idle", Rejects(s)
  PROVE  ListInv'
<1>1. call' \in [Slots -> CallRecords] /\ call'[s] = Idle
  BY NowhereIsList, CallChanges DEF ListInv, TypeOK, Rejects
<1>2. UNCHANGED <<runtime, disk, kit, created>>
  BY DEF Rejects
<1>3. CASE call[s].op = "create"
  <2> DEFINE shut(x) == [sessions[x] EXCEPT !.open = FALSE]
  <2>1. /\ books' = {} /\ currentId' = None /\ current' = 0
        /\ sessions' = [x \in DOMAIN sessions |-> shut(x)]
    BY <1>3 DEF Rejects
  <2>2. sessions \in Seq(SessionRecords) /\ DOMAIN sessions = 1..Len(sessions)
    BY DEF ListInv, TypeOK
  <2>3. \A x \in 1..Len(sessions) : shut(x) \in SessionRecords
    <3> TAKE x \in 1..Len(sessions)
    <3>1. sessions[x] \in SessionRecords
      BY <2>2
    <3> QED
      BY <3>1 DEF SessionRecords
  <2> HIDE DEF shut
  <2>4. sessions' \in Seq(SessionRecords) /\ Len(sessions') = Len(sessions)
    BY <2>1, <2>2, <2>3
  <2>5. kit.status = "none"
    BY <1>3 DEF ListInv, ListRead
  <2> QED
    BY <1>1, <1>2, <2>1, <2>4, <2>5 DEF ListInv, TypeOK, ListRead, CreatedIsListed, Idle
<1>4. CASE call[s].op # "create"
  <2>1. UNCHANGED <<books, currentId, current, sessions>>
    BY <1>4 DEF Rejects
  <2> QED
    BY <1>1, <1>2, <2>1 DEF ListInv, TypeOK, ListRead, CreatedIsListed, Idle
<1> QED
  BY <1>3, <1>4

\* The call returns: what it created is in the list that was just written.
LEMMA MarkedKeepsListInv ==
  ASSUME ListInv, \A r, t \in Slots : r = t, NEW s \in Slots, Marked(s)
  PROVE  ListInv'
<1> DEFINE c == call[s]
<1>1. /\ c \in CallRecords /\ disk.books \subseteq books /\ c.book \in books
      /\ c.payload \in Lists /\ c.payload.books = books /\ books \subseteq Books
      /\ c.op = "create" <=> kit.status = "none"
      /\ c.session \in Nat /\ kit.status \in {"none", "open", "disposed"}
  BY DEF ListInv, TypeOK, ListRead, Marked, CallRecords, Kits
<1>2. /\ disk' = c.payload /\ call' = [call EXCEPT ![s] = Idle]
      /\ created' = IF c.op = "switch" THEN created ELSE created \cup {c.book}
      /\ UNCHANGED <<runtime, books, currentId, current, sessions>>
  BY DEF Marked, Returns
<1>3. kit' \in Kits /\ kit'.status # "none"
  <2>1. CASE runtime = "main" \/ c.op = "create"
    <3>1. kit' = [status |-> IF kit.status = "none" THEN "open" ELSE kit.status,
                  book |-> c.book, session |-> c.session]
      BY <2>1 DEF Marked, Adopt
    <3> QED
      BY <1>1, <3>1 DEF ListInv, TypeOK, Kits
  <2>2. CASE ~(runtime = "main" \/ c.op = "create")
    <3>1. kit' = kit
      BY <2>2 DEF Marked
    <3> QED
      BY <1>1, <2>2, <3>1 DEF ListInv, TypeOK
  <2> QED
    BY <2>1, <2>2
<1>4. call' \in [Slots -> CallRecords] /\ call'[s] = Idle
  BY <1>2, NowhereIsList, CallChanges DEF ListInv, TypeOK
<1>5. TypeOK'
  BY <1>1, <1>2, <1>3, <1>4 DEF ListInv, TypeOK
<1>6. ListRead'
  BY <1>1, <1>2, <1>3, <1>4 DEF ListRead, Idle
<1>7. CreatedIsListed'
  BY <1>1, <1>2 DEF ListInv, CreatedIsListed
<1> QED
  BY <1>5, <1>6, <1>7 DEF ListInv

-----------------------------------------------------------------------------
(* The calls of the host. *)

LEMMA AddBookKeepsListInv ==
  ASSUME ListInv, \A r, t \in Slots : r = t, NEW s \in Slots, NEW op \in Ops, NEW b \in Books,
         NEW all \in SUBSET Books, NEW at \in Books \cup {None}, AddBook(s, op, b, all, at),
         disk.books \subseteq all, op = "create" <=> kit.status = "none",
         currentId' \in Books \cup {None}, UNCHANGED <<runtime, disk>>
  PROVE  ListInv'
<1> DEFINE now == all \cup {b}
           r == [at |-> "list", op |-> op, book |-> b, session |-> 0,
                 payload |-> [books |-> now, current |-> at]]
<1>1. /\ books' = now /\ call' = [call EXCEPT ![s] = r]
      /\ UNCHANGED <<current, sessions, kit, created>>
  <2>1. books' = now /\ UNCHANGED <<current, sessions, kit, created>>
    BY DEF AddBook
  <2>2. call' = [call EXCEPT ![s] = [at |-> "list", op |-> op, book |-> b, session |-> 0,
                                     payload |-> [books |-> books', current |-> at]]]
    BY DEF AddBook, Enter
  <2> QED
    BY <2>1, <2>2
<1>2. r \in CallRecords /\ r.at = "list" /\ r.op = op /\ r.book = b /\ r.payload.books = now
  BY DEF CallRecords, Places, Lists
<1>3. b \in now /\ disk.books \subseteq now /\ now \subseteq Books
  OBVIOUS
<1> HIDE DEF now, r
<1>4. ListRead' /\ call' \in [Slots -> CallRecords]
  BY <1>1, <1>2, <1>3, GoesOn
<1>5. TypeOK'
  BY <1>1, <1>3, <1>4 DEF ListInv, TypeOK
<1>6. CreatedIsListed'
  BY <1>1 DEF ListInv, CreatedIsListed
<1> QED
  BY <1>4, <1>5, <1>6 DEF ListInv

LEMMA RefusedKeepsListInv ==
  ASSUME ListInv, Refused
  PROVE  ListInv'
  BY DEF Refused, ListInv, TypeOK, ListRead, CreatedIsListed

LEMMA CreateKeepsListInv ==
  ASSUME ListInv, \A r, t \in Slots : r = t, NEW s \in Slots, NEW b \in Books, Create(s, b)
  PROVE  ListInv'
<1>1. kit.status = "none" /\ "create" \in Ops
  BY DEF Create, Ops
<1>2. CASE CreateWorker(s, b)
  BY <1>1, <1>2, ConnectKeepsListInv DEF CreateWorker
<1>3. CASE CreateMain(s, b) /\ b \in disk.books
  <2>1. /\ books' = disk.books /\ currentId' = disk.current /\ UNCHANGED <<runtime, disk>>
        /\ OpenSession(s, "create", b)
    BY <1>3 DEF CreateMain
  <2>2. /\ sessions' \in Seq(SessionRecords) /\ current' \in 0..Len(sessions')
        /\ kit' \in Kits /\ call' \in [Slots -> CallRecords]
        /\ \/ /\ call'[s].at = "idle" /\ kit'.status # "none"
              /\ created' = created \cup {b}
           \/ /\ call'[s].at = "store" /\ call'[s].op = "create" /\ call'[s].book = b
              /\ UNCHANGED <<kit, created>>
    BY <1>1, <2>1, OpenSessionTypes DEF ListInv
  <2>3. TypeOK'
    BY <2>1, <2>2 DEF ListInv, TypeOK, Lists
  <2>4. ListRead'
    BY <1>1, <1>3, <2>1, <2>2 DEF ListRead
  <2>5. CreatedIsListed'
    BY <1>3, <2>1, <2>2 DEF ListInv, CreatedIsListed
  <2> QED
    BY <2>3, <2>4, <2>5 DEF ListInv
<1>4. CASE CreateMain(s, b) /\ b \notin disk.books
  <2>1. /\ AddBook(s, "create", b, disk.books, disk.current)
        /\ currentId' = disk.current /\ UNCHANGED <<runtime, disk>>
    BY <1>4 DEF CreateMain
  <2> QED
    BY <1>1, <2>1, AddBookKeepsListInv DEF ListInv, TypeOK, Lists
<1> QED
  BY <1>2, <1>3, <1>4 DEF Create

LEMMA CreateBookKeepsListInv ==
  ASSUME ListInv, \A r, t \in Slots : r = t, NEW s \in Slots, NEW b \in Books, CreateBook(s, b)
  PROVE  ListInv'
<1>1. kit.status # "none" /\ "createBook" \in Ops /\ disk.books \subseteq books
  BY DEF CreateBook, Ops, ListInv, ListRead
<1>2. CASE Refused
  BY <1>2, RefusedKeepsListInv
<1>3. CASE Connect(s, "createBook", b)
  BY <1>1, <1>3, ConnectKeepsListInv
<1>4. CASE AddBook(s, "createBook", b, books, currentId) /\ UNCHANGED <<runtime, disk, currentId>>
  BY <1>1, <1>4, AddBookKeepsListInv DEF ListInv, TypeOK
<1> QED
  BY <1>2, <1>3, <1>4 DEF CreateBook

LEMMA SwitchBookKeepsListInv ==
  ASSUME ListInv, \A r, t \in Slots : r = t, NEW s \in Slots, NEW b \in Books, SwitchBook(s, b)
  PROVE  ListInv'
<1>1. kit.status # "none" /\ "switch" \in Ops /\ disk.books \subseteq books
  BY DEF SwitchBook, Ops, ListInv, ListRead
<1>2. CASE Refused
  BY <1>2, RefusedKeepsListInv
<1>3. CASE b \in books /\ Connect(s, "switch", b)
  BY <1>1, <1>3, ConnectKeepsListInv
<1>4. CASE b \in books /\ OpenSession(s, "switch", b) /\ UNCHANGED <<runtime, disk, books, currentId>>
  <2>1. /\ sessions' \in Seq(SessionRecords) /\ current' \in 0..Len(sessions')
        /\ kit' \in Kits /\ call' \in [Slots -> CallRecords]
        /\ \/ /\ call'[s].at = "idle" /\ kit'.status # "none" /\ created' = created
           \/ /\ call'[s].at = "store" /\ call'[s].op = "switch" /\ call'[s].book = b
              /\ UNCHANGED <<kit, created>>
    BY <1>1, <1>4, OpenSessionTypes DEF ListInv
  <2>2. TypeOK'
    BY <1>4, <2>1 DEF ListInv, TypeOK
  <2>3. ListRead'
    BY <1>1, <1>4, <2>1 DEF ListRead
  <2>4. CreatedIsListed'
    BY <1>4, <2>1 DEF ListInv, CreatedIsListed
  <2> QED
    BY <2>2, <2>3, <2>4 DEF ListInv
<1> QED
  BY <1>2, <1>3, <1>4 DEF SwitchBook

LEMMA DisposeKeepsListInv ==
  ASSUME ListInv, Dispose
  PROVE  ListInv'
<1> DEFINE rest == Retired(sessions, kit.session)
<1>1. /\ kit' = [kit EXCEPT !.status = "disposed"] /\ kit.status = "open"
      /\ sessions' = Retired(rest, current) /\ current' = 0
      /\ currentId' \in Books \cup {None}
      /\ UNCHANGED <<runtime, disk, books, call, created>>
  BY DEF Dispose, ListInv, TypeOK
<1>2. kit' \in Kits /\ kit'.status = "disposed" /\ kit.session \in Nat /\ current \in Nat
  BY <1>1 DEF ListInv, TypeOK, Kits
<1>3. rest \in Seq(SessionRecords)
  BY <1>2, RetiredStays DEF ListInv, TypeOK
<1> HIDE DEF rest
<1>4. sessions' \in Seq(SessionRecords)
  BY <1>1, <1>2, <1>3, RetiredStays
<1>5. TypeOK'
  BY <1>1, <1>2, <1>4 DEF ListInv, TypeOK
<1> QED
  BY <1>1, <1>2, <1>5 DEF ListInv, ListRead, CreatedIsListed

\* What a page loses is in memory only.
LEMMA ReloadKeepsListInv ==
  ASSUME ListInv, Reload
  PROVE  ListInv'
<1>1. call' = [s \in Slots |-> Idle] /\ kit' = NoKit /\ UNCHANGED <<runtime, disk, created>>
  BY DEF Reload, FreshPage
<1>2. call' \in [Slots -> CallRecords] /\ kit' \in Kits
  BY <1>1, NowhereIsList
<1>3. sessions' \in Seq(SessionRecords) /\ Len(sessions') = 0
  BY DEF Reload, FreshPage
<1>4. TypeOK'
  BY <1>1, <1>2, <1>3 DEF Reload, FreshPage, ListInv, TypeOK
<1> QED
  BY <1>1, <1>4 DEF ListInv, ListRead, CreatedIsListed, Idle, NoKit

LEMMA StepKeepsListInv ==
  ASSUME ListInv, \A r, t \in Slots : r = t, [Next]_vars
  PROVE  ListInv'
<1>1. ASSUME NEW s \in Slots, NEW b \in Books, Create(s, b) \/ CreateBook(s, b) \/ SwitchBook(s, b)
      PROVE  ListInv'
  BY <1>1, CreateKeepsListInv, CreateBookKeepsListInv, SwitchBookKeepsListInv
<1>2. ASSUME NEW s \in Slots, Proceed(s)
      PROVE  ListInv'
  <2>1. CASE Listed(s)
    BY <2>1, ListedKeepsListInv
  <2>2. CASE StoreOpened(s)
    BY <2>2, StoreOpenedKeepsListInv
  <2>3. CASE Ready(s)
    BY <2>3, ReadyKeepsListInv
  <2>4. CASE NotReady(s)
    BY <2>4, RejectsKeepsListInv DEF NotReady
  <2>5. CASE Marked(s)
    BY <2>5, MarkedKeepsListInv
  <2>6. CASE IoFails(s)
    BY <2>6, RejectsKeepsListInv DEF IoFails
  <2> QED
    BY <1>2, <2>1, <2>2, <2>3, <2>4, <2>5, <2>6 DEF Proceed
<1>3. CASE Dispose
  BY <1>3, DisposeKeepsListInv
<1>4. CASE Reload
  BY <1>4, ReloadKeepsListInv
<1>5. CASE UNCHANGED vars
  BY <1>5 DEF vars, page, ListInv, TypeOK, ListRead, CreatedIsListed
<1> QED
  BY <1>1, <1>2, <1>3, <1>4, <1>5 DEF Next

\* A host that awaits each call before the next never loses a book: one whose
\* createBook() or create() has returned is in _index.json for ever, whatever
\* waits fail, whenever the kit is disposed and however often the page is
\* loaded anew.  Every call writes the list it keeps in memory, and none does
\* so before it has read the one on disk.
THEOREM CreatedStaysListed ==
  ASSUME \A r, t \in Slots : r = t
  PROVE  Spec => []CreatedIsListed
<1>1. Init => ListInv
  BY InitHasListInv
<1>2. ListInv /\ [Next]_vars => ListInv'
  BY StepKeepsListInv
<1>3. ListInv => CreatedIsListed
  BY DEF ListInv
<1> QED
  BY <1>1, <1>2, <1>3, PTL DEF Spec

-----------------------------------------------------------------------------
(* Of the same host: one session serves, and the kit holds it.              *)

\* What both runtimes share.
Held ==
  /\ served \subseteq 1..Len(sessions)
  /\ kit.status = "none" => kit.session = 0 /\ served = {}
  /\ kit.status # "none" =>
       kit.session \in 1..Len(sessions) /\ sessions[kit.session].book = kit.book
  /\ \A s \in Slots : call[s].session \in 0..Len(sessions)

\* The main thread: the workspace's session is the only one that may be open.
MainServes ==
  runtime = "main" =>
    /\ \A x \in 1..Len(sessions) : (sessions[x].open => x = current) /\ ~sessions[x].worker
    /\ \A s \in Slots :
         LET c == call[s]
         IN  /\ c.at # "connect" /\ (c.at = "store" => current = 0)
             /\ c.at = "mark" =>
                  /\ c.session # 0 /\ sessions[c.session].book = c.book
                  /\ kit.status # "disposed" => c.session = current /\ sessions[current].open
    /\ kit.status = "open" /\ outcome # "failed" /\ (\A s \in Slots : call[s].at = "idle")
         => Open(kit.session)

\* The worker that create() waits for, or that a switch does.
Coming(c) == c.at = "connect" \/ (c.at = "mark" /\ c.op = "create")

\* Workers: the kit's session is the only one that may be open, but for the one
\* that create() has not handed out yet.
OnlyHeldIsOpen ==
  \A x \in 1..Len(sessions) : sessions[x].open =>
    x = kit.session \/ \E s \in Slots : /\ call[s].at = "mark" /\ call[s].op = "create"
                                        /\ call[s].session = x

EarlierIsEnded ==
  \A x \in served : x # kit.session => ~sessions[x].open /\ ~sessions[x].worker

HeldIsOpen ==
  kit.status = "open" => Open(kit.session) /\ sessions[kit.session].worker

CallsBring ==
  \A s \in Slots :
    LET c == call[s]
    IN  /\ c.at \in {"idle", "connect", "mark"}
        /\ Coming(c) => /\ c.session \in (1..Len(sessions)) \ (served \cup {kit.session})
                        /\ sessions[c.session].book = c.book /\ sessions[c.session].worker
        /\ c.at = "mark" /\ c.op = "create" => sessions[c.session].open

WorkerServes ==
  runtime = "worker" =>
    current = 0 /\ OnlyHeldIsOpen /\ EarlierIsEnded /\ HeldIsOpen /\ CallsBring

ServeInv == ListInv /\ Held /\ MainServes /\ WorkerServes

Serves == Held /\ MainServes /\ WorkerServes

-----------------------------------------------------------------------------
LEMMA InitServes ==
  ASSUME Init
  PROVE  Serves
  BY DEF Init, Serves, Held, MainServes, WorkerServes, OnlyHeldIsOpen, EarlierIsEnded,
         HeldIsOpen, CallsBring, Coming, Idle, NoKit

LEMMA IdleCall ==
  ASSUME call \in [Slots -> CallRecords], NEW s \in Slots, call' = [call EXCEPT ![s] = Idle]
  PROVE  call'[s].at = "idle" /\ call'[s].session = 0
  BY DEF Idle

-----------------------------------------------------------------------------
(* The main thread. *)

\* openSession(): whatever was open is closed before another one is waited for.
LEMMA OpenSessionServes ==
  ASSUME ServeInv, \A r, t \in Slots : r = t, NEW s \in Slots, NEW op \in Ops, NEW b \in Books,
         OpenSession(s, op, b), runtime = "main", UNCHANGED runtime
  PROVE  Serves'
<1>1. /\ sessions \in Seq(SessionRecords) /\ current \in 0..Len(sessions)
      /\ kit.status \in {"none", "open", "disposed"}
      /\ call \in [Slots -> CallRecords]
  BY DEF ServeInv, ListInv, TypeOK, Kits
<1>2. CASE Open(current) /\ sessions[current].book = b
  <2>1. /\ kit' = [status |-> IF kit.status = "none" THEN "open" ELSE kit.status,
                   book |-> b, session |-> current]
        /\ served' = served \cup {current}
        /\ call' = [call EXCEPT ![s] = Idle]
        /\ UNCHANGED <<current, sessions>>
    BY <1>2 DEF OpenSession, Adopt
  <2>2. call'[s].at = "idle" /\ call'[s].session = 0
    BY <1>1, <2>1, IdleCall
  <2>3. current \in 1..Len(sessions) /\ sessions[current].open
    BY <1>1, <1>2 DEF Open
  <2>4. Held'
    <3>1. kit'.status # "none" /\ kit'.session = current /\ kit'.book = b
      BY <2>1
    <3>2. served' \subseteq 1..Len(sessions)
      BY <2>1, <2>3 DEF ServeInv, Held
    <3> QED
      BY <1>1, <1>2, <2>1, <2>2, <2>3, <3>1, <3>2 DEF Held
  <2>5. MainServes'
    BY <2>1, <2>2, <2>3 DEF ServeInv, MainServes, Open
  <2> QED
    BY <2>4, <2>5 DEF Serves, WorkerServes
<1>3. CASE ~(Open(current) /\ sessions[current].book = b)
  <2> DEFINE r == [at |-> "store", op |-> op, book |-> b, session |-> 0, payload |-> Nowhere]
             rest == Retired(sessions, current)
  <2>1. /\ sessions' = rest /\ current' = 0 /\ call' = [call EXCEPT ![s] = r]
        /\ UNCHANGED <<kit, served>>
    BY <1>3 DEF OpenSession, Vacated, Enter
  <2>2. r.at = "store" /\ r.session = 0
    OBVIOUS
  <2>3. /\ Len(rest) = Len(sessions)
        /\ \A y \in 1..Len(sessions) : rest[y].book = sessions[y].book
        /\ \A y \in 1..Len(sessions) : y # current => rest[y] = sessions[y]
        /\ current # 0 => ~rest[current].open /\ ~rest[current].worker
    BY <1>1, RetiredSession
  <2> HIDE DEF r, rest
  <2>4. \A y \in 1..Len(sessions) : ~rest[y].open /\ ~rest[y].worker
    <3> SUFFICES ASSUME NEW y \in 1..Len(sessions)
                 PROVE  ~rest[y].open /\ ~rest[y].worker
      OBVIOUS
    <3>1. CASE y = current
      BY <2>3, <3>1
    <3>2. CASE y # current
      <4>1. ~sessions[y].open /\ ~sessions[y].worker
        BY <3>2 DEF ServeInv, MainServes
      <4>2. rest[y] = sessions[y]
        BY <2>3, <3>2
      <4> QED
        BY <4>1, <4>2
    <3> QED
      BY <3>1, <3>2
  <2>5. call'[s] = r
    BY <1>1, <2>1
  <2>6. Held'
    BY <1>1, <2>1, <2>2, <2>3, <2>5 DEF ServeInv, Held
  <2>7. MainServes'
    BY <2>1, <2>2, <2>3, <2>4, <2>5 DEF ServeInv, MainServes
  <2> QED
    BY <2>6, <2>7 DEF Serves, WorkerServes
<1> QED
  BY <1>2, <1>3

\* createBook() goes on to the write of the list.
LEMMA AddBookServes ==
  ASSUME ServeInv, \A r, t \in Slots : r = t, NEW s \in Slots, NEW op, NEW b, NEW all, NEW at,
         AddBook(s, op, b, all, at), runtime = "main", UNCHANGED runtime
  PROVE  Serves'
<1> DEFINE r == [at |-> "list", op |-> op, book |-> b, session |-> 0,
                 payload |-> [books |-> books', current |-> at]]
<1>1. call' = [call EXCEPT ![s] = r] /\ UNCHANGED <<current, sessions, kit, served, outcome>>
  BY DEF AddBook, Enter
<1>2. r.at = "list" /\ r.session = 0
  OBVIOUS
<1> HIDE DEF r
<1>3. call'[s] = r /\ Len(sessions) \in Nat
  BY <1>1 DEF ServeInv, ListInv, TypeOK
<1>4. Held'
  BY <1>1, <1>2, <1>3 DEF ServeInv, Held
<1>5. MainServes'
  BY <1>1, <1>2, <1>3 DEF ServeInv, MainServes
<1> QED
  BY <1>4, <1>5 DEF Serves, WorkerServes

LEMMA StoreOpenedServes ==
  ASSUME ServeInv, \A r, t \in Slots : r = t, NEW s \in Slots, StoreOpened(s)
  PROVE  Serves'
<1> DEFINE x == Len(sessions) + 1
           b == call[s].book
           session == [book |-> b, open |-> TRUE, worker |-> FALSE]
           r == [at |-> "mark", op |-> call[s].op, book |-> b, session |-> x,
                 payload |-> [books |-> books, current |-> b]]
<1>1. /\ sessions \in Seq(SessionRecords) /\ call \in [Slots -> CallRecords]
      /\ runtime = "main" /\ b \in Books
  BY DEF ServeInv, ListInv, TypeOK, ListRead, WorkerServes, CallsBring, StoreOpened, CallRecords
<1>2. /\ sessions' = Append(sessions, session) /\ current' = x
      /\ call' = [call EXCEPT ![s] = r] /\ UNCHANGED <<runtime, kit, served>>
  BY DEF StoreOpened, Enter
<1>3. session \in SessionRecords /\ session.open /\ ~session.worker /\ session.book = b
  BY <1>1 DEF SessionRecords
<1>4. r.at = "mark" /\ r.book = b /\ r.session = x
  OBVIOUS
<1> HIDE DEF session, r
<1>5. /\ Len(sessions') = x /\ Len(sessions) \in Nat /\ sessions'[x] = session
      /\ \A y \in 1..Len(sessions) : sessions'[y] = sessions[y]
  BY <1>1, <1>2, <1>3, AddedSession
<1>6. \A y \in 1..Len(sessions) : ~sessions[y].open /\ ~sessions[y].worker
  BY <1>1 DEF ServeInv, MainServes, StoreOpened
<1>7. call'[s] = r
  BY <1>1, <1>2
<1>8. Held'
  BY <1>2, <1>4, <1>5, <1>7 DEF ServeInv, Held
<1>9. MainServes'
  BY <1>2, <1>3, <1>4, <1>5, <1>6, <1>7 DEF ServeInv, MainServes
<1> QED
  BY <1>1, <1>2, <1>8, <1>9 DEF Serves, WorkerServes

LEMMA ListedServes ==
  ASSUME ServeInv, \A r, t \in Slots : r = t, NEW s \in Slots, Listed(s)
  PROVE  Serves'
<1>1. runtime = "main"
  BY DEF ServeInv, ListInv, TypeOK, WorkerServes, CallsBring, Listed
<1>2. call[s].op \in Ops /\ call[s].book \in Books
  BY DEF ServeInv, ListInv, TypeOK, ListRead, CallRecords, Listed
<1> QED
  BY <1>1, <1>2, OpenSessionServes DEF Listed

-----------------------------------------------------------------------------
(* Workers. *)

\* connectKitWorker() adds a worker that serves nobody yet.
LEMMA ConnectServes ==
  ASSUME ServeInv, \A r, t \in Slots : r = t, NEW s \in Slots, NEW op \in Ops, NEW b \in Books,
         Connect(s, op, b), runtime = "worker", call[s].at = "idle"
  PROVE  Serves'
<1> DEFINE x == Len(sessions) + 1
           session == [book |-> b, open |-> FALSE, worker |-> TRUE]
           r == [at |-> "connect", op |-> op, book |-> b, session |-> x, payload |-> Nowhere]
<1>1. /\ sessions' = Append(sessions, session) /\ call' = [call EXCEPT ![s] = r]
      /\ UNCHANGED <<runtime, current, kit, served>>
  BY DEF Connect, WhileConnecting, Enter
<1>2. /\ session \in SessionRecords /\ sessions \in Seq(SessionRecords)
      /\ call \in [Slots -> CallRecords] /\ session.book = b /\ session.worker /\ ~session.open
  BY DEF SessionRecords, ServeInv, ListInv, TypeOK
<1>3. r.at = "connect" /\ r.book = b /\ r.session = x
  OBVIOUS
<1> HIDE DEF session, r
<1>4. /\ Len(sessions') = x /\ Len(sessions) \in Nat /\ sessions'[x] = session
      /\ \A y \in 1..Len(sessions) : sessions'[y] = sessions[y]
  BY <1>1, <1>2, AddedSession
<1>5. call'[s] = r
  BY <1>1, <1>2
<1>6. kit.session \in 0..Len(sessions)
  BY DEF ServeInv, Held, ListInv, TypeOK, Kits
<1>7. Held'
  BY <1>1, <1>3, <1>4, <1>5 DEF ServeInv, Held
<1>8. WorkerServes'
  <2>1. \A y \in 1..Len(sessions) : sessions[y].open => y = kit.session
    BY DEF ServeInv, WorkerServes, OnlyHeldIsOpen
  <2>2. \A y \in 1..x : sessions'[y].open => y = kit.session
    BY <1>2, <1>4, <2>1
  <2>3. x \notin served \cup {kit.session}
    BY <1>4, <1>6 DEF ServeInv, Held
  <2>4. \A y \in served : y # kit.session => ~sessions'[y].open /\ ~sessions'[y].worker
    BY <1>4 DEF ServeInv, Held, WorkerServes, EarlierIsEnded
  <2>5. kit.status = "open" => /\ kit.session # 0 /\ sessions'[kit.session].open
                               /\ sessions'[kit.session].worker
    BY <1>4, <1>6 DEF ServeInv, WorkerServes, HeldIsOpen, Open
  <2>6. OnlyHeldIsOpen'
    BY <1>1, <1>4, <2>2 DEF OnlyHeldIsOpen
  <2>7. EarlierIsEnded' /\ HeldIsOpen'
    BY <1>1, <2>4, <2>5 DEF EarlierIsEnded, HeldIsOpen, Open
  <2>8. CallsBring'
    BY <1>1, <1>2, <1>3, <1>4, <1>5, <2>3 DEF CallsBring, Coming
  <2> QED
    BY <1>1, <2>6, <2>7, <2>8 DEF ServeInv, WorkerServes
<1> QED
  BY <1>1, <1>7, <1>8 DEF Serves, MainServes

\* The worker is ready: create() keeps it for itself, a switch puts it in the
\* place of the one before, which is ended.
LEMMA ReadyServes ==
  ASSUME ServeInv, \A r, t \in Slots : r = t, NEW s \in Slots, Ready(s)
  PROVE  Serves'
<1> DEFINE c == call[s]
           x == c.session
<1>1. /\ runtime = "worker" /\ c.at = "connect" /\ sessions \in Seq(SessionRecords)
      /\ call \in [Slots -> CallRecords] /\ kit.session \in 0..Len(sessions)
      /\ kit.status \in {"none", "open", "disposed"} /\ (c.op = "create" <=> kit.status = "none")
  BY DEF ServeInv, ListInv, TypeOK, ListRead, Held, Kits, MainServes, Ready
<1>2. /\ x \in 1..Len(sessions) /\ x \notin served /\ x # kit.session
      /\ sessions[x].book = c.book /\ sessions[x].worker
  BY <1>1 DEF ServeInv, WorkerServes, CallsBring, Coming
<1>3. \A y \in 1..Len(sessions) : sessions[y].open => y = kit.session
  BY <1>1 DEF ServeInv, WorkerServes, OnlyHeldIsOpen
<1>4. /\ call'[s].at = "mark" /\ call'[s].op = c.op /\ call'[s].session = x
      /\ call'[s].book = c.book /\ UNCHANGED <<runtime, current>>
  BY <1>1 DEF Ready, At, CallRecords
<1>5. CASE c.op = "create"
  <2>1. sessions' = Opened(sessions, x) /\ UNCHANGED <<kit, served>>
    BY <1>5 DEF Ready, Opened
  <2>2. /\ Len(sessions') = Len(sessions)
        /\ \A y \in 1..Len(sessions) : y # x => sessions'[y] = sessions[y]
        /\ sessions'[x].open /\ sessions'[x].book = sessions[x].book
        /\ sessions'[x].worker = sessions[x].worker
    BY <1>1, <1>2, <2>1, OpenedSession
  <2>3. Held'
    BY <1>1, <1>2, <1>4, <1>5, <2>1, <2>2 DEF ServeInv, Held
  <2>4. WorkerServes'
    <3>1. \A y \in 1..Len(sessions) : sessions'[y].open => y = kit.session \/ y = x
      BY <1>3, <2>2
    <3>2. OnlyHeldIsOpen'
      BY <1>4, <1>5, <2>1, <2>2, <3>1 DEF OnlyHeldIsOpen
    <3>3. EarlierIsEnded' /\ HeldIsOpen'
      BY <1>1, <1>5, <2>1 DEF ServeInv, Held, EarlierIsEnded, HeldIsOpen
    <3>4. CallsBring'
      BY <1>2, <1>4, <2>1, <2>2 DEF CallsBring, Coming
    <3>5. current' = 0
      BY <1>1, <1>4 DEF ServeInv, WorkerServes
    <3> QED
      BY <3>2, <3>3, <3>4, <3>5 DEF WorkerServes
  <2> QED
    BY <1>1, <1>4, <2>3, <2>4 DEF Serves, MainServes
<1>6. CASE c.op # "create"
  <2> DEFINE rest == Retired(sessions, kit.session)
  <2>1. /\ sessions' = Opened(rest, x) /\ served' = served \cup {x}
        /\ kit' = [status |-> kit.status, book |-> c.book, session |-> x]
    BY <1>1, <1>6 DEF Ready, Opened, Adopt
  <2>2. /\ rest \in Seq(SessionRecords) /\ Len(rest) = Len(sessions)
        /\ \A y \in 1..Len(sessions) :
             /\ rest[y].book = sessions[y].book
             /\ y # kit.session => rest[y] = sessions[y]
        /\ kit.session # 0 => ~rest[kit.session].open /\ ~rest[kit.session].worker
    BY <1>1, RetiredSession
  <2> HIDE DEF rest
  <2>3. /\ Len(sessions') = Len(sessions)
        /\ \A y \in 1..Len(sessions) : y # x => sessions'[y] = rest[y]
        /\ sessions'[x].open /\ sessions'[x].book = rest[x].book
        /\ sessions'[x].worker = rest[x].worker
    <3>1. x \in 1..Len(rest)
      BY <1>2, <2>2
    <3>2. /\ Len(Opened(rest, x)) = Len(rest)
          /\ \A y \in 1..Len(rest) : y # x => Opened(rest, x)[y] = rest[y]
          /\ Opened(rest, x)[x].open /\ Opened(rest, x)[x].book = rest[x].book
          /\ Opened(rest, x)[x].worker = rest[x].worker
      BY <2>2, <3>1, OpenedSession
    <3> QED
      BY <2>1, <2>2, <3>2
  <2>4. /\ sessions'[x].book = c.book /\ sessions'[x].worker
        /\ kit'.status = kit.status /\ kit'.session = x /\ kit'.book = c.book
    BY <1>2, <2>1, <2>2, <2>3
  <2>5. Held'
    BY <1>1, <1>2, <1>4, <1>6, <2>1, <2>3, <2>4 DEF ServeInv, Held
  <2>6. WorkerServes'
    <3>1. \A y \in 1..Len(sessions) : sessions'[y].open => y = x
      BY <1>2, <1>3, <2>2, <2>3
    <3>2. \A y \in served : y # x => ~sessions'[y].open /\ ~sessions'[y].worker
      BY <1>1, <1>2, <2>2, <2>3 DEF ServeInv, Held, WorkerServes, EarlierIsEnded
    <3>3. x # 0 /\ current' = 0 /\ call'[s].at = "mark" /\ call'[s].op # "create"
      BY <1>1, <1>2, <1>4, <1>6 DEF ServeInv, WorkerServes
    <3>4. OnlyHeldIsOpen'
      BY <2>3, <2>4, <3>1 DEF OnlyHeldIsOpen
    <3>5. EarlierIsEnded' /\ HeldIsOpen'
      BY <2>1, <2>3, <2>4, <3>2, <3>3 DEF EarlierIsEnded, HeldIsOpen, Open
    <3>6. CallsBring'
      BY <3>3 DEF CallsBring, Coming
    <3> QED
      BY <3>3, <3>4, <3>5, <3>6 DEF WorkerServes
  <2> QED
    BY <1>1, <1>4, <2>5, <2>6 DEF Serves, MainServes
<1> QED
  BY <1>5, <1>6

-----------------------------------------------------------------------------
(* Both. *)

\* A create() that fails closes what it opened, any other call leaves the kit
\* as it was: on the main thread perhaps with a closed session.
LEMMA RejectsServes ==
  ASSUME ServeInv, \A r, t \in Slots : r = t, NEW s \in Slots, call[s].at # "idle", Rejects(s)
  PROVE  Serves'
<1>1. /\ call \in [Slots -> CallRecords] /\ sessions \in Seq(SessionRecords)
      /\ call' = [call EXCEPT ![s] = Idle] /\ outcome' = "failed"
      /\ UNCHANGED <<runtime, kit, served>>
  BY DEF ServeInv, ListInv, TypeOK, Rejects
<1>2. call'[s].at = "idle" /\ call'[s].session = 0
  BY <1>1, IdleCall
<1>3. CASE call[s].op = "create"
  <2>1. current' = 0 /\ sessions' = [x \in DOMAIN sessions |-> [sessions[x] EXCEPT !.open = FALSE]]
    BY <1>3 DEF Rejects
  <2>2. \A x \in 1..Len(sessions) : sessions[x] \in SessionRecords
    BY <1>1
  <2>3. /\ DOMAIN sessions' = 1..Len(sessions)
        /\ \A x \in 1..Len(sessions) :
             ~sessions'[x].open /\ (runtime = "main" => ~sessions'[x].worker)
    BY <1>1, <2>1, <2>2 DEF SessionRecords, ServeInv, MainServes
  <2>4. kit.status = "none" /\ served = {} /\ kit.session = 0
    BY <1>3 DEF ServeInv, ListInv, ListRead, Held
  <2>5. Len(sessions') = Len(sessions)
    BY <1>1, <2>1
  <2>6. Held'
    BY <1>1, <1>2, <2>4, <2>5 DEF Held
  <2>7. MainServes'
    BY <1>1, <1>2, <2>3, <2>4, <2>5 DEF MainServes
  <2>8. OnlyHeldIsOpen' /\ EarlierIsEnded' /\ HeldIsOpen'
    BY <1>1, <2>3, <2>4, <2>5 DEF OnlyHeldIsOpen, EarlierIsEnded, HeldIsOpen
  <2>9. CallsBring'
    BY <1>2 DEF CallsBring, Coming
  <2> QED
    BY <2>1, <2>6, <2>7, <2>8, <2>9 DEF Serves, WorkerServes
<1>4. CASE call[s].op # "create"
  <2>1. UNCHANGED <<current, sessions>>
    BY <1>4 DEF Rejects
  <2>2. Held'
    BY <1>1, <1>2, <2>1 DEF ServeInv, Held
  <2>3. MainServes'
    BY <1>1, <1>2, <2>1 DEF ServeInv, MainServes
  <2>4. WorkerServes'
    <3>1. runtime = "worker" => OnlyHeldIsOpen' /\ EarlierIsEnded' /\ HeldIsOpen'
      BY <1>1, <1>4, <2>1
         DEF ServeInv, WorkerServes, OnlyHeldIsOpen, EarlierIsEnded, HeldIsOpen, Open
    <3>2. CallsBring'
      BY <1>2 DEF CallsBring, Coming
    <3> QED
      BY <1>1, <2>1, <3>1, <3>2 DEF ServeInv, WorkerServes
  <2> QED
    BY <2>2, <2>3, <2>4 DEF Serves
<1> QED
  BY <1>3, <1>4

\* The call returns, and the kit has its session.
LEMMA MarkedServes ==
  ASSUME ServeInv, \A r, t \in Slots : r = t, NEW s \in Slots, Marked(s)
  PROVE  Serves'
<1> DEFINE c == call[s]
           x == c.session
<1>1. /\ call \in [Slots -> CallRecords] /\ sessions \in Seq(SessionRecords) /\ c.at = "mark"
      /\ kit.status \in {"none", "open", "disposed"} /\ (c.op = "create" <=> kit.status = "none")
      /\ runtime \in {"main", "worker"}
  BY DEF ServeInv, ListInv, TypeOK, ListRead, Kits, Marked
<1>2. call' = [call EXCEPT ![s] = Idle] /\ UNCHANGED <<runtime, current, sessions>>
  BY DEF Marked, Returns
<1>3. call'[s].at = "idle" /\ call'[s].session = 0
  BY <1>1, <1>2, IdleCall
<1>4. CASE runtime = "worker" /\ c.op # "create"
  <2>1. UNCHANGED <<kit, served>>
    BY <1>4 DEF Marked
  <2>2. Held'
    BY <1>2, <1>3, <2>1 DEF ServeInv, Held
  <2>3. OnlyHeldIsOpen' /\ EarlierIsEnded' /\ HeldIsOpen'
    BY <1>2, <1>4, <2>1
       DEF ServeInv, WorkerServes, OnlyHeldIsOpen, EarlierIsEnded, HeldIsOpen, Open
  <2>4. CallsBring'
    BY <1>3 DEF CallsBring, Coming
  <2> QED
    BY <1>2, <1>4, <2>2, <2>3, <2>4 DEF ServeInv, Serves, MainServes, WorkerServes
<1>5. CASE runtime = "main" \/ c.op = "create"
  <2>1. /\ kit' = [status |-> IF kit.status = "none" THEN "open" ELSE kit.status,
                   book |-> c.book, session |-> x]
        /\ served' = served \cup {x}
    BY <1>5 DEF Marked, Adopt
  <2>2. /\ kit'.status # "none" /\ kit'.session = x /\ kit'.book = c.book
        /\ kit'.status = "open" => kit.status # "disposed"
    BY <1>1, <2>1
  <2>3. x \in 1..Len(sessions) /\ sessions[x].book = c.book
    <3>1. CASE runtime = "main"
      BY <1>1, <3>1 DEF ServeInv, Held, MainServes
    <3>2. CASE runtime = "worker"
      BY <1>1, <1>5, <3>2 DEF ServeInv, WorkerServes, CallsBring, Coming
    <3> QED
      BY <1>1, <3>1, <3>2
  <2>4. Held'
    <3>1. served' \subseteq 1..Len(sessions)
      BY <2>1, <2>3 DEF ServeInv, Held
    <3> QED
      BY <1>1, <1>2, <1>3, <2>2, <2>3, <3>1 DEF Held
  <2>5. MainServes'
    BY <1>1, <1>2, <1>3, <2>2 DEF ServeInv, MainServes, Open
  <2>6. WorkerServes'
    <3> SUFFICES ASSUME runtime = "worker"
                 PROVE  current = 0 /\ (OnlyHeldIsOpen /\ EarlierIsEnded /\ HeldIsOpen /\ CallsBring)'
      BY <1>2 DEF WorkerServes
    <3>1. /\ current = 0 /\ kit.session = 0 /\ served = {} /\ sessions[x].open /\ sessions[x].worker
          /\ \A y \in 1..Len(sessions) : sessions[y].open => y = x
      BY <1>1, <1>5 DEF ServeInv, Held, WorkerServes, OnlyHeldIsOpen, CallsBring, Coming
    <3>2. OnlyHeldIsOpen'
      BY <1>2, <2>2, <3>1 DEF OnlyHeldIsOpen
    <3>3. EarlierIsEnded' /\ HeldIsOpen'
      BY <1>2, <2>1, <2>2, <2>3, <3>1 DEF EarlierIsEnded, HeldIsOpen, Open
    <3>4. CallsBring'
      BY <1>3 DEF CallsBring, Coming
    <3> QED
      BY <3>1, <3>2, <3>3, <3>4
  <2> QED
    BY <2>4, <2>5, <2>6 DEF Serves
<1> QED
  BY <1>1, <1>4, <1>5

\* dispose() closes the session and ends its worker; calls under way go on.
LEMMA DisposeServes ==
  ASSUME ServeInv, Dispose
  PROVE  Serves'
<1> DEFINE rest == Retired(sessions, kit.session)
           last == Retired(rest, current)
<1>1. /\ sessions \in Seq(SessionRecords) /\ current \in 0..Len(sessions)
      /\ kit.session \in 0..Len(sessions) /\ kit \in Kits /\ runtime \in {"main", "worker"}
  BY DEF ServeInv, ListInv, TypeOK, Held, Kits
<1>2. /\ kit' = [kit EXCEPT !.status = "disposed"] /\ kit.status = "open"
      /\ sessions' = last /\ current' = 0 /\ UNCHANGED <<runtime, served, call>>
  BY DEF Dispose
<1>3. /\ rest \in Seq(SessionRecords) /\ Len(rest) = Len(sessions)
      /\ \A y \in 1..Len(sessions) : rest[y].book = sessions[y].book
      /\ \A y \in 1..Len(sessions) : y # kit.session => rest[y] = sessions[y]
      /\ kit.session # 0 => ~rest[kit.session].open /\ ~rest[kit.session].worker
  BY <1>1, RetiredSession
<1> HIDE DEF rest
<1>4. /\ Len(last) = Len(sessions)
      /\ \A y \in 1..Len(sessions) : last[y].book = rest[y].book
      /\ \A y \in 1..Len(sessions) : y # current => last[y] = rest[y]
      /\ current # 0 => ~last[current].open /\ ~last[current].worker
  BY <1>1, <1>3, RetiredSession
<1>5. current = 0 => last = rest
  BY DEF Retired
<1> HIDE DEF last
<1>6. kit'.status = "disposed" /\ kit'.session = kit.session /\ kit'.book = kit.book
  BY <1>1, <1>2 DEF Kits
<1>7. Held'
  <2>1. sessions'[kit.session].book = kit.book /\ kit.session \in 1..Len(sessions)
    BY <1>2, <1>3, <1>4 DEF ServeInv, Held
  <2> QED
    BY <1>1, <1>2, <1>4, <1>6, <2>1 DEF ServeInv, Held
<1>8. ASSUME runtime = "main" PROVE MainServes' /\ WorkerServes'
  <2>1. \A y \in 1..Len(sessions) : ~last[y].open /\ ~last[y].worker
    <3> SUFFICES ASSUME NEW y \in 1..Len(sessions)
                 PROVE  ~last[y].open /\ ~last[y].worker
      OBVIOUS
    <3>1. CASE y = current
      BY <1>4, <3>1
    <3>2. CASE y # current /\ y = kit.session
      <4>1. last[y] = rest[y]
        BY <1>4, <3>2
      <4> QED
        BY <1>3, <3>2, <4>1
    <3>3. CASE y # current /\ y # kit.session
      <4>1. last[y] = sessions[y]
        BY <1>3, <1>4, <3>3
      <4>2. ~sessions[y].open /\ ~sessions[y].worker
        BY <1>8, <3>3 DEF ServeInv, MainServes
      <4> QED
        BY <4>1, <4>2
    <3> QED
      BY <3>1, <3>2, <3>3
  <2>2. \A s \in Slots : call[s].at # "connect" /\
          (call[s].at = "mark" => /\ call[s].session \in 1..Len(sessions)
                                  /\ sessions[call[s].session].book = call[s].book)
    BY <1>8 DEF ServeInv, Held, MainServes
  <2>3. \A s \in Slots : call[s].at = "mark" => /\ call[s].session # 0
                                               /\ last[call[s].session].book = call[s].book
    BY <1>3, <1>4, <2>2
  <2>4. MainServes'
    BY <1>2, <1>4, <1>6, <2>1, <2>2, <2>3 DEF MainServes
  <2> QED
    BY <1>2, <1>8, <2>4 DEF WorkerServes
<1>9. ASSUME runtime = "worker" PROVE MainServes' /\ WorkerServes'
  <2>1. sessions' = rest
    BY <1>2, <1>5, <1>9 DEF ServeInv, WorkerServes
  <2>2. \A s \in Slots : ~(call[s].at = "mark" /\ call[s].op = "create")
    BY <1>2 DEF ServeInv, ListInv, ListRead
  <2>3. OnlyHeldIsOpen'
    <3> SUFFICES ASSUME NEW y \in 1..Len(sessions), y # kit.session, rest[y].open
                 PROVE  FALSE
      BY <1>3, <1>6, <2>1 DEF OnlyHeldIsOpen
    <3>1. rest[y] = sessions[y]
      BY <1>3
    <3> QED
      BY <1>9, <2>2, <3>1 DEF ServeInv, WorkerServes, OnlyHeldIsOpen
  <2>4. EarlierIsEnded'
    <3> SUFFICES ASSUME NEW y \in served, y # kit.session
                 PROVE  ~rest[y].open /\ ~rest[y].worker
      BY <1>2, <1>6, <2>1 DEF EarlierIsEnded
    <3>1. rest[y] = sessions[y]
      BY <1>3 DEF ServeInv, Held
    <3> QED
      BY <1>9, <3>1 DEF ServeInv, WorkerServes, EarlierIsEnded
  <2>5. CallsBring'
    <3> SUFFICES ASSUME NEW s \in Slots, call[s].at = "connect"
                 PROVE  /\ call[s].session \in (1..Len(sessions)) \ (served \cup {kit.session})
                        /\ rest[call[s].session].book = call[s].book
                        /\ rest[call[s].session].worker
      BY <1>2, <1>3, <1>6, <1>9, <2>1, <2>2 DEF ServeInv, WorkerServes, CallsBring, Coming
    <3>1. /\ call[s].session \in (1..Len(sessions)) \ (served \cup {kit.session})
          /\ sessions[call[s].session].book = call[s].book /\ sessions[call[s].session].worker
      BY <1>9 DEF ServeInv, WorkerServes, CallsBring, Coming
    <3>2. rest[call[s].session] = sessions[call[s].session]
      BY <1>3, <3>1
    <3> QED
      BY <3>1, <3>2
  <2> QED
    BY <1>2, <1>6, <1>9, <2>3, <2>4, <2>5 DEF MainServes, WorkerServes, HeldIsOpen
<1> QED
  BY <1>1, <1>7, <1>8, <1>9 DEF Serves

\* A new page has nothing, whatever the one before had.
LEMMA ReloadServes ==
  ASSUME Reload
  PROVE  Serves'
  BY DEF Reload, FreshPage, Serves, Held, MainServes, WorkerServes, OnlyHeldIsOpen,
         EarlierIsEnded, HeldIsOpen, CallsBring, Coming, Idle, NoKit

LEMMA RefusedServes ==
  ASSUME ServeInv, Refused
  PROVE  Serves'
<1>1. UNCHANGED <<runtime, current, sessions, kit, served, call>> /\ outcome' = "failed"
  BY DEF Refused
<1>2. Held'
  BY <1>1 DEF ServeInv, Held
<1>3. MainServes'
  BY <1>1 DEF ServeInv, MainServes
<1>4. WorkerServes'
  BY <1>1 DEF ServeInv, WorkerServes, OnlyHeldIsOpen, EarlierIsEnded, HeldIsOpen, CallsBring, Open
<1> QED
  BY <1>2, <1>3, <1>4 DEF Serves

LEMMA NothingServes ==
  ASSUME ServeInv, UNCHANGED vars
  PROVE  Serves'
<1>1. UNCHANGED <<runtime, current, sessions, kit, served, call, outcome>>
  BY DEF vars, page
<1>2. Held'
  BY <1>1 DEF ServeInv, Held
<1>3. MainServes'
  BY <1>1 DEF ServeInv, MainServes, Open
<1>4. WorkerServes'
  BY <1>1 DEF ServeInv, WorkerServes, OnlyHeldIsOpen, EarlierIsEnded, HeldIsOpen, CallsBring, Open
<1> QED
  BY <1>2, <1>3, <1>4 DEF Serves

LEMMA StepServes ==
  ASSUME ServeInv, \A r, t \in Slots : r = t, [Next]_vars
  PROVE  Serves'
<1> DEFINE Asks(s, b) == Create(s, b) \/ CreateBook(s, b) \/ SwitchBook(s, b)
<1>1. ASSUME NEW s \in Slots, NEW b \in Books, Asks(s, b)
      PROVE  Serves'
  <2>1. CASE Refused
    BY <2>1, RefusedServes
  <2>2. CASE \E op \in Ops : Connect(s, op, b) /\ runtime = "worker" /\ call[s].at = "idle"
    BY <2>2, ConnectServes
  <2>3. CASE /\ runtime = "main" /\ UNCHANGED runtime
             /\ \/ \E op \in Ops : OpenSession(s, op, b)
                \/ \E op, all, at : AddBook(s, op, b, all, at)
    BY <2>3, OpenSessionServes, AddBookServes
  <2> QED
    BY <1>1, <2>1, <2>2, <2>3 DEF Create, CreateMain, CreateWorker, CreateBook, SwitchBook, Ops
<1>2. ASSUME NEW s \in Slots, Proceed(s)
      PROVE  Serves'
  <2>1. CASE Listed(s)
    BY <2>1, ListedServes
  <2>2. CASE StoreOpened(s)
    BY <2>2, StoreOpenedServes
  <2>3. CASE Ready(s)
    BY <2>3, ReadyServes
  <2>4. CASE NotReady(s)
    BY <2>4, RejectsServes DEF NotReady
  <2>5. CASE Marked(s)
    BY <2>5, MarkedServes
  <2>6. CASE IoFails(s)
    BY <2>6, RejectsServes DEF IoFails
  <2> QED
    BY <1>2, <2>1, <2>2, <2>3, <2>4, <2>5, <2>6 DEF Proceed
<1>3. CASE Dispose
  BY <1>3, DisposeServes
<1>4. CASE Reload
  BY <1>4, ReloadServes
<1>5. CASE UNCHANGED vars
  BY <1>5, NothingServes
<1> QED
  BY <1>1, <1>2, <1>3, <1>4, <1>5 DEF Next

LEMMA StepKeepsServeInv ==
  ASSUME ServeInv, \A r, t \in Slots : r = t, [Next]_vars
  PROVE  ServeInv'
  BY StepServes, StepKeepsListInv DEF ServeInv, Serves

-----------------------------------------------------------------------------
(* What it gives. *)

LEMMA ServeInvGivesKitServes ==
  ASSUME ServeInv
  PROVE  KitServes
<1> SUFFICES ASSUME kit.status = "open"
             PROVE  /\ sessions[kit.session].book = kit.book
                    /\ \/ Open(kit.session) /\ (runtime = "worker" => sessions[kit.session].worker)
                       \/ /\ runtime = "main"
                          /\ outcome = "failed" \/ \E s \in Slots : call[s].at # "idle"
  BY DEF KitServes
<1>1. sessions[kit.session].book = kit.book /\ runtime \in {"main", "worker"}
  BY DEF ServeInv, Held, ListInv, TypeOK
<1>2. CASE runtime = "main"
  BY <1>1, <1>2 DEF ServeInv, MainServes
<1>3. CASE runtime = "worker"
  BY <1>1, <1>3 DEF ServeInv, WorkerServes, HeldIsOpen
<1> QED
  BY <1>1, <1>2, <1>3

LEMMA ServeInvGivesOneServing ==
  ASSUME ServeInv, \A r, t \in Slots : r = t
  PROVE  OneServing
<1> DEFINE open == {x \in DOMAIN sessions : sessions[x].open}
<1>1. sessions \in Seq(SessionRecords) /\ DOMAIN sessions = 1..Len(sessions)
      /\ runtime \in {"main", "worker"}
  BY DEF ServeInv, ListInv, TypeOK
<1>2. \E z : open \subseteq {z}
  <2>1. CASE runtime = "main"
    BY <1>1, <2>1 DEF ServeInv, MainServes
  <2>2. CASE runtime = "worker" /\ \E s \in Slots : call[s].at = "mark" /\ call[s].op = "create"
    <3> PICK s \in Slots : call[s].at = "mark" /\ call[s].op = "create"
      BY <2>2
    <3>1. kit.session = 0
      BY DEF ServeInv, ListInv, ListRead, Held
    <3>2. \A x \in 1..Len(sessions) : sessions[x].open => x = call[s].session
      BY <2>2, <3>1 DEF ServeInv, WorkerServes, OnlyHeldIsOpen
    <3> QED
      BY <1>1, <3>2
  <2>3. CASE runtime = "worker" /\ ~\E s \in Slots : call[s].at = "mark" /\ call[s].op = "create"
    <3>1. \A x \in 1..Len(sessions) : sessions[x].open => x = kit.session
      BY <2>3 DEF ServeInv, WorkerServes, OnlyHeldIsOpen
    <3> QED
      BY <1>1, <3>1
  <2> QED
    BY <1>1, <2>1, <2>2, <2>3
<1>3. Cardinality(open) <= 1
  <2>1. open = {} \/ \E z : open = {z}
    BY <1>2
  <2>2. CASE open = {}
    BY <2>2, FS_EmptySet
  <2>3. CASE \E z : open = {z}
    <3>1. PICK z : open = {z}
      BY <2>3
    <3>2. Cardinality({z}) = 1
      BY FS_Singleton
    <3> QED
      BY <3>1, <3>2
  <2> QED
    BY <2>1, <2>2, <2>3
<1>4. \A x \in served : x \notin {kit.session, current} => ~sessions[x].open /\ ~sessions[x].worker
  <2>1. CASE runtime = "main"
    BY <2>1 DEF ServeInv, Held, MainServes
  <2>2. CASE runtime = "worker"
    BY <2>2 DEF ServeInv, WorkerServes, EarlierIsEnded
  <2> QED
    BY <1>1, <2>1, <2>2
<1> QED
  BY <1>3, <1>4 DEF OneServing

LEMMA SpecServes ==
  ASSUME \A r, t \in Slots : r = t
  PROVE  Spec => []ServeInv
<1>1. Init => ServeInv
  BY InitHasListInv, InitServes DEF ServeInv, Serves
<1>2. ServeInv /\ [Next]_vars => ServeInv'
  BY StepKeepsServeInv
<1> QED
  BY <1>1, <1>2, PTL DEF Spec

\* When the host awaits each call of the kit before the next, at most one
\* session is open at any moment, and one that served the kit before is closed
\* and its worker terminated: through failures of every wait of create(),
\* createBook() and switchBook(), and a dispose() in the middle of them.
THEOREM OneSessionServes ==
  ASSUME \A r, t \in Slots : r = t
  PROVE  Spec => []OneServing
<1>1. Spec => []ServeInv
  BY SpecServes
<1>2. ServeInv => OneServing
  BY ServeInvGivesOneServing
<1> QED
  BY <1>1, <1>2, PTL

\* Under the same assumption a kit that is open has an open session of the book
\* it names, with its worker alive; on the main thread, where openSession()
\* closes a session before it waits for the next store, unless a call is under
\* way or the last one failed.
THEOREM OpenKitServes ==
  ASSUME \A r, t \in Slots : r = t
  PROVE  Spec => []KitServes
<1>1. Spec => []ServeInv
  BY SpecServes
<1>2. ServeInv => KitServes
  BY ServeInvGivesKitServes
<1> QED
  BY <1>1, <1>2, PTL
=============================================================================
