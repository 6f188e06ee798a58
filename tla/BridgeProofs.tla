---------------------------- MODULE BridgeProofs -----------------------------
(***************************************************************************)
(* A call is settled by its own answer, whatever the number of messages    *)
(* and the order in which their work ends; and a worker does one thing at  *)
(* a time, if a session is made without waiting.                           *)
(***************************************************************************)
EXTENDS Bridge, FiniteSetTheorems, TLAPS

KindSet ==
  {"auto", "generate", "assess", "apply", "delete", "read", "cancel", "start", "control"}

Calls ==
  [kind : KindSet, at : {"pending", "answered", "aborted", "closed"}, answer : Nat,
   open : BOOLEAN]

Notices == [id : Nat, of : Nat]

Places == {"none", "create", "refine", "work", "done"}

Sessions == [open : BOOLEAN, busy : BOOLEAN]

TypeOK ==
  /\ family \in {"session", "engine"}
  /\ calls \in Seq(Calls)
  /\ toWorker \in Seq(Nat) /\ toHost \in Seq(Notices)
  /\ handling \in Seq(Places) /\ Len(handling) = Len(calls)
  /\ target \in Seq(Nat) /\ Len(target) = Len(calls)
  /\ sessions \in Seq(Sessions)
  /\ current \in 0..Len(sessions)

\* A message that is on its way is the only one of its call, and not handled.
Fresh ==
  /\ \A m \in DOMAIN toWorker : toWorker[m] # Closing =>
       toWorker[m] \in Ids /\ handling[toWorker[m]] = "none"
  /\ \A m, n \in DOMAIN toWorker : toWorker[m] = toWorker[n] => m = n

\* Only a client that is closed has told the server to close.
Told == \A m \in DOMAIN toWorker : toWorker[m] = Closing => closed

\* An answer on its way is that of a call whose handler is done.
Truthful ==
  \A m \in DOMAIN toHost :
    toHost[m].id \in Ids /\ toHost[m].of = toHost[m].id /\ handling[toHost[m].id] = "done"

AnswerInv == TypeOK /\ Fresh /\ Told /\ Truthful /\ AnswersMatch

-----------------------------------------------------------------------------
LEMMA InitHasAnswerInv ==
  ASSUME Init
  PROVE  AnswerInv
<1>1. PICK world \in Worlds : family = world.family /\ slow = world.slow
  BY DEF Init
<1>2. family \in {"session", "engine"}
  BY <1>1, WorldsAssumption
<1>3. TypeOK
  <2>1. \A S : <<>> \in Seq(S) /\ Len(<<>>) = 0
    OBVIOUS
  <2> QED
    BY <1>2, <2>1 DEF Init, TypeOK
<1> QED
  BY <1>3 DEF Init, AnswerInv, Fresh, Told, Truthful, AnswersMatch, Ids

\* What the head, the tail and an appended element of a sequence are.
LEMMA Appended ==
  ASSUME NEW S, NEW q \in Seq(S), NEW e \in S
  PROVE  /\ Append(q, e) \in Seq(S) /\ Len(Append(q, e)) = Len(q) + 1
         /\ \A i \in 1..Len(q) : Append(q, e)[i] = q[i]
         /\ Append(q, e)[Len(q) + 1] = e
  OBVIOUS

LEMMA Taken ==
  ASSUME NEW S, NEW q \in Seq(S), q # <<>>
  PROVE  /\ Head(q) = q[1] /\ q[1] \in S
         /\ Tail(q) \in Seq(S) /\ Len(Tail(q)) = Len(q) - 1
         /\ \A i \in 1..(Len(q) - 1) : Tail(q)[i] = q[i + 1]
  OBVIOUS

\* A sequence of at most one element.
LEMMA AtMostOne ==
  ASSUME NEW S, NEW q \in Seq(S), Len(q) <= 1
  PROVE  /\ \A x \in 1..Len(q) : x = 1 /\ Len(q) = 1
         /\ Len(q) # 1 => q = <<>>
<1> DEFINE n == Len(q)
<1>1. n \in Nat /\ n <= 1 /\ (n = 0 => q = <<>>)
  OBVIOUS
<1> HIDE DEF n
<1>2. n = 0 \/ n = 1
  BY <1>1
<1>3. \A x \in 1..n : x = 1 /\ n = 1
  BY <1>2
<1> QED
  BY <1>1, <1>2, <1>3 DEF n

\* A new call has a number above those of all messages.
LEMMA CallKeepsAnswerInv ==
  ASSUME AnswerInv, NEW kind \in KindSet, NEW signalled \in BOOLEAN, Call(kind, signalled)
  PROVE  AnswerInv'
<1> DEFINE n == Len(calls) + 1
<1>0. n \in Nat /\ n # Closing /\ \A i \in Ids : i # n
  BY DEF AnswerInv, TypeOK, Closing, Ids
<1>1. PICK r \in Calls :
        /\ calls' = Append(calls, r) /\ r.at # "answered"
        /\ \/ toWorker' = toWorker
           \/ toWorker' = Append(toWorker, n)
  <2>1. \A at \in {"pending", "aborted", "closed"} :
          [kind |-> kind, at |-> at, answer |-> 0, open |-> ~closed] \in Calls
    BY DEF Calls, KindSet
  <2> QED
    BY <2>1 DEF Call, Record
<1>2. /\ handling' = Append(handling, "none") /\ target' = Append(target, 0)
      /\ UNCHANGED <<family, slow, closed, toHost, attached, sessions, current, starting, cancelled>>
  BY DEF Call, NewHandler
<1>3. /\ calls' \in Seq(Calls) /\ Len(calls') = n
      /\ \A i \in Ids : calls'[i] = calls[i]
      /\ calls'[n] = r
  BY <1>1, Appended DEF AnswerInv, TypeOK, Ids
<1>4. /\ handling' \in Seq(Places) /\ Len(handling') = n
      /\ \A i \in Ids : handling'[i] = handling[i]
      /\ handling'[n] = "none"
  BY <1>2, Appended DEF AnswerInv, TypeOK, Ids, Places
<1>5. target' \in Seq(Nat) /\ Len(target') = n
  BY <1>2, Appended DEF AnswerInv, TypeOK
<1>6. Ids' = Ids \cup {n}
  BY <1>3 DEF AnswerInv, TypeOK, Ids
<1> HIDE DEF n
<1>7. TypeOK'
  <2>1. toWorker \in Seq(Nat)
    BY DEF AnswerInv, TypeOK
  <2>2. Append(toWorker, n) \in Seq(Nat)
    BY <1>0, <2>1
  <2>3. toWorker' \in Seq(Nat)
    BY <1>1, <2>1, <2>2
  <2> QED
    BY <2>3, <1>2, <1>3, <1>4, <1>5 DEF AnswerInv, TypeOK
<1>8. Fresh' /\ Told'
  <2>1. CASE toWorker' = toWorker
    BY <2>1, <1>2, <1>4, <1>6 DEF AnswerInv, Fresh, Told
  <2>2. CASE toWorker' = Append(toWorker, n)
    <3>1. /\ Len(toWorker') = Len(toWorker) + 1 /\ toWorker'[Len(toWorker) + 1] = n
          /\ \A m \in 1..Len(toWorker) : toWorker'[m] = toWorker[m]
          /\ DOMAIN toWorker' = 1..Len(toWorker) + 1 /\ DOMAIN toWorker = 1..Len(toWorker)
          /\ Len(toWorker) \in Nat
      BY <2>2, <1>0, Appended DEF AnswerInv, TypeOK
    <3>2. \A m \in DOMAIN toWorker : toWorker[m] # n
      BY <1>0 DEF AnswerInv, Fresh
    <3>3. Fresh'
      BY <3>1, <3>2, <1>4, <1>6 DEF AnswerInv, Fresh
    <3>4. Told'
      BY <3>1, <1>0, <1>2 DEF AnswerInv, Told
    <3> QED
      BY <3>3, <3>4
  <2> QED
    BY <1>1, <2>1, <2>2
<1>9. Truthful'
  BY <1>2, <1>4, <1>6 DEF AnswerInv, Truthful
<1>10. AnswersMatch'
  <2> SUFFICES ASSUME NEW i \in Ids', calls'[i].at = "answered"
               PROVE  calls'[i].answer = i /\ handling'[i] = "done"
    BY DEF AnswersMatch
  <2>1. i \in Ids
    BY <1>1, <1>3, <1>6
  <2> QED
    BY <2>1, <1>3, <1>4 DEF AnswerInv, AnswersMatch
<1> QED
  BY <1>7, <1>8, <1>9, <1>10 DEF AnswerInv

LEMMA AbortKeepsAnswerInv ==
  ASSUME AnswerInv, NEW i \in Ids, Abort(i)
  PROVE  AnswerInv'
<1>1. Call("cancel", FALSE)
  BY DEF Abort
<1> QED
  BY <1>1, CallKeepsAnswerInv DEF KindSet

\* An answer that is received is the one the call waits for.
LEMMA ReceiveKeepsAnswerInv ==
  ASSUME AnswerInv, Receive
  PROVE  AnswerInv'
<1> DEFINE notice == Head(toHost)
<1>1. /\ toHost' \in Seq(Notices) /\ notice \in Notices /\ notice = toHost[1]
      /\ \A m \in DOMAIN toHost' : m + 1 \in DOMAIN toHost /\ toHost'[m] = toHost[m + 1]
      /\ 1 \in DOMAIN toHost
  BY Taken DEF AnswerInv, TypeOK, Receive
<1>2. /\ notice.of = notice.id /\ notice.id \in Ids /\ handling[notice.id] = "done"
  BY <1>1 DEF AnswerInv, Truthful
<1>3. UNCHANGED <<family, closed, toWorker, handling, target, sessions, current>>
  BY DEF Receive, server
<1>4. /\ calls' \in Seq(Calls) /\ Len(calls') = Len(calls)
      /\ \A i \in Ids : \/ calls'[i] = calls[i]
                        \/ i = notice.id /\ calls'[i].answer = notice.of
  <2>1. CASE UNCHANGED calls
    BY <2>1 DEF AnswerInv, TypeOK
  <2>2. CASE calls' = [calls EXCEPT ![notice.id].at = "answered", ![notice.id].answer = notice.of]
    <3>1. notice.of \in Nat
      BY <1>1 DEF Notices
    <3> DEFINE r == [calls[notice.id] EXCEPT !.at = "answered", !.answer = notice.of]
    <3>2. calls \in Seq(Calls) /\ notice.id \in 1..Len(calls)
      BY <1>2 DEF AnswerInv, TypeOK, Ids
    <3>3. r \in Calls /\ r.answer = notice.of
      <4>1. calls[notice.id] \in Calls
        BY <3>2
      <4> QED
        BY <3>1, <4>1 DEF Calls
    <3>4. calls' = [calls EXCEPT ![notice.id] = r]
      BY <2>2
    <3> HIDE DEF notice, r
    <3> QED
      BY <3>2, <3>3, <3>4 DEF Ids
  <2> QED
    BY <2>1, <2>2 DEF Receive, Waiter
<1>5. Ids' = Ids
  BY <1>4 DEF AnswerInv, TypeOK, Ids
<1>6. TypeOK'
  BY <1>1, <1>3, <1>4 DEF AnswerInv, TypeOK
<1>7. Fresh' /\ Told'
  BY <1>3, <1>5 DEF AnswerInv, Fresh, Told
<1>8. Truthful'
  BY <1>1, <1>3, <1>5 DEF AnswerInv, Truthful
<1>9. AnswersMatch'
  BY <1>2, <1>3, <1>4, <1>5 DEF AnswerInv, AnswersMatch
<1> QED
  BY <1>6, <1>7, <1>8, <1>9 DEF AnswerInv

LEMMA CloseKeepsAnswerInv ==
  ASSUME AnswerInv, Close
  PROVE  AnswerInv'
<1>1. UNCHANGED <<family, toHost, handling, target, sessions, current>>
  BY DEF Close, server
<1>2. /\ calls' \in Seq(Calls) /\ Len(calls') = Len(calls) /\ Ids' = Ids
      /\ \A i \in Ids : calls'[i] = calls[i] \/ calls'[i].at = "closed"
  <2> DEFINE r(i) == IF Pending(i) THEN [calls[i] EXCEPT !.at = "closed"] ELSE calls[i]
  <2>1. calls \in Seq(Calls) /\ Ids = 1..Len(calls)
    BY DEF AnswerInv, TypeOK, Ids
  <2>2. \A i \in Ids : r(i) \in Calls /\ (r(i) = calls[i] \/ r(i).at = "closed")
    <3>1. \A i \in Ids : calls[i] \in Calls
      BY <2>1
    <3> QED
      BY <3>1 DEF Calls
  <2>3. calls' = [i \in Ids |-> r(i)]
    BY DEF Close
  <2> HIDE DEF r
  <2> QED
    BY <2>1, <2>2, <2>3 DEF Ids
<1>3. toWorker' = toWorker \/ toWorker' = Append(toWorker, Closing)
  BY DEF Close
<1>4. /\ toWorker' \in Seq(Nat)
      /\ \A m \in DOMAIN toWorker' : \/ m \in DOMAIN toWorker /\ toWorker'[m] = toWorker[m]
                                     \/ m = Len(toWorker') /\ toWorker'[m] = Closing
  <2>1. CASE toWorker' = toWorker
    BY <2>1 DEF AnswerInv, TypeOK
  <2>2. CASE toWorker' = Append(toWorker, Closing)
    <3>1. toWorker \in Seq(Nat) /\ Closing \in Nat
      BY DEF AnswerInv, TypeOK, Closing
    <3> QED
      BY <2>2, <3>1 DEF Closing
  <2> QED
    BY <1>3, <2>1, <2>2
<1>5. TypeOK'
  BY <1>1, <1>2, <1>4 DEF AnswerInv, TypeOK
<1>6. /\ \A m \in DOMAIN toWorker : toWorker[m] # Closing
      /\ DOMAIN toWorker = 1..Len(toWorker) /\ closed'
  BY DEF Close, AnswerInv, TypeOK, Told
<1>9. Fresh'
  BY <1>1, <1>2, <1>4, <1>6 DEF AnswerInv, Fresh
<1>10. Told'
  BY <1>6 DEF Told
<1>7. Truthful'
  BY <1>1, <1>2 DEF AnswerInv, Truthful
<1>8. AnswersMatch'
  BY <1>1, <1>2 DEF AnswerInv, AnswersMatch
<1> QED
  BY <1>5, <1>7, <1>8, <1>9, <1>10 DEF AnswerInv

-----------------------------------------------------------------------------
\* A handler that goes on disturbs no message, and answers its own call.
LEMMA HandlerKeepsAnswers ==
  ASSUME AnswerInv, NEW i \in Ids, NEW p \in {"create", "refine", "work", "done"}, NEW d \in {0, 1},
         handling[i] # "done", handling' = [handling EXCEPT ![i] = p],
         UNCHANGED toHost \/ (p = "done" /\ Answer(i)),
         \A m \in DOMAIN toWorker' :
           /\ m \in Nat /\ m + d \in DOMAIN toWorker
           /\ toWorker'[m] = toWorker[m + d] /\ toWorker'[m] # i,
         UNCHANGED <<calls, closed>>
  PROVE  /\ Fresh' /\ Told' /\ Truthful' /\ AnswersMatch'
         /\ handling' \in Seq(Places) /\ Len(handling') = Len(handling)
         /\ toHost' \in Seq(Notices)
<1>1. /\ handling' \in Seq(Places) /\ Len(handling') = Len(handling)
      /\ handling'[i] = p /\ \A j \in Ids : j # i => handling'[j] = handling[j]
  BY DEF AnswerInv, TypeOK, Ids, Places
<1>2. Ids' = Ids
  BY DEF Ids
<1>3. i \in Nat /\ [id |-> i, of |-> i] \in Notices
  BY DEF AnswerInv, TypeOK, Ids, Notices
<1>4. toHost' \in Seq(Notices) /\ Truthful'
  <2>1. CASE UNCHANGED toHost
    BY <2>1, <1>1, <1>2 DEF AnswerInv, TypeOK, Truthful
  <2>2. CASE p = "done" /\ Answer(i)
    <3> DEFINE n == [id |-> i, of |-> i]
    <3>1. toHost \in Seq(Notices) /\ n \in Notices /\ n.id = i /\ n.of = i
      BY <1>3 DEF AnswerInv, TypeOK
    <3>2. toHost' = Append(toHost, n)
      BY <2>2 DEF Answer
    <3> HIDE DEF n
    <3>3. /\ toHost' \in Seq(Notices)
          /\ \A m \in DOMAIN toHost' : \/ m \in DOMAIN toHost /\ toHost'[m] = toHost[m]
                                       \/ toHost'[m] = n
      BY <3>1, <3>2
    <3> QED
      BY <3>1, <3>3, <2>2, <1>1, <1>2 DEF AnswerInv, Truthful
  <2> QED
    BY <2>1, <2>2
<1>5. Fresh'
  <2>1. \A m \in DOMAIN toWorker' : toWorker'[m] # Closing =>
          toWorker'[m] \in Ids /\ handling'[toWorker'[m]] = "none"
    BY <1>1 DEF AnswerInv, Fresh
  <2>2. \A m, n \in DOMAIN toWorker' : toWorker'[m] = toWorker'[n] => m = n
    BY DEF AnswerInv, Fresh
  <2> QED
    BY <2>1, <2>2, <1>2 DEF Fresh
<1>6. Told'
  BY DEF AnswerInv, Told
<1>7. AnswersMatch'
  BY <1>1, <1>2 DEF AnswerInv, AnswersMatch
<1> QED
  BY <1>1, <1>4, <1>5, <1>6, <1>7

\* The flags of one session change, those of the others stay.
LEMMA BusySet ==
  ASSUME NEW made \in Seq(Sessions), NEW x \in Nat, NEW next,
         \/ next = [made EXCEPT ![x].busy = TRUE]
         \/ next = [made EXCEPT ![x].busy = FALSE]
  PROVE  /\ next \in Seq(Sessions) /\ Len(next) = Len(made)
         /\ \A y \in 1..Len(made) : /\ next[y].open = made[y].open
                                    /\ y # x => next[y].busy = made[y].busy
<1>1. CASE x \notin 1..Len(made)
  <2>1. next = made
    BY <1>1
  <2> QED
    BY <1>1, <2>1
<1>2. ASSUME x \in 1..Len(made),
             NEW r \in Sessions, r.open = made[x].open, next = [made EXCEPT ![x] = r]
      PROVE  /\ next \in Seq(Sessions) /\ Len(next) = Len(made) /\ next[x] = r
             /\ \A y \in 1..Len(made) : /\ next[y].open = made[y].open
                                        /\ y # x => next[y].busy = made[y].busy
  BY <1>2
<1>3. ASSUME x \in 1..Len(made)
      PROVE  /\ [made[x] EXCEPT !.busy = TRUE] \in Sessions
             /\ [made[x] EXCEPT !.busy = FALSE] \in Sessions
             /\ [made[x] EXCEPT !.busy = TRUE].open = made[x].open
             /\ [made[x] EXCEPT !.busy = FALSE].open = made[x].open
  <2>1. made[x] \in Sessions
    BY <1>3
  <2> QED
    BY <2>1 DEF Sessions
<1>4. CASE x \in 1..Len(made)
  <2>1. CASE next = [made EXCEPT ![x].busy = TRUE]
    <3> DEFINE r == [made[x] EXCEPT !.busy = TRUE]
    <3>1. r \in Sessions /\ r.open = made[x].open
      BY <1>3, <1>4
    <3>2. next = [made EXCEPT ![x] = r]
      BY <2>1
    <3> HIDE DEF r
    <3> QED
      BY <1>4, <3>1, <3>2, <1>2
  <2>2. CASE next = [made EXCEPT ![x].busy = FALSE]
    <3> DEFINE r == [made[x] EXCEPT !.busy = FALSE]
    <3>1. r \in Sessions /\ r.open = made[x].open
      BY <1>3, <1>4
    <3>2. next = [made EXCEPT ![x] = r]
      BY <2>2
    <3> HIDE DEF r
    <3> QED
      BY <1>4, <3>1, <3>2, <1>2
  <2> QED
    BY <2>1, <2>2
<1> QED
  BY <1>1, <1>4

\* Whoever closes a session closes the one the server holds.
CurrentClosed ==
  sessions' = [y \in DOMAIN sessions |-> IF y = current THEN [sessions[y] EXCEPT !.open = FALSE]
                                                        ELSE sessions[y]]

LEMMA OneClosed ==
  ASSUME AnswerInv, CurrentClosed
  PROVE  /\ sessions' \in Seq(Sessions) /\ Len(sessions') = Len(sessions)
         /\ \A y \in 1..Len(sessions) : /\ sessions'[y].open => sessions[y].open /\ y # current
                                        /\ sessions'[y].busy = sessions[y].busy
<1> DEFINE r(y) == IF y = current THEN [sessions[y] EXCEPT !.open = FALSE] ELSE sessions[y]
           n == Len(sessions)
<1>1. n \in Nat /\ DOMAIN sessions = 1..n /\ \A y \in 1..n : sessions[y] \in Sessions
  BY DEF AnswerInv, TypeOK
<1>2. \A y \in 1..n : /\ r(y) \in Sessions
                      /\ r(y).open => sessions[y].open /\ y # current
                      /\ r(y).busy = sessions[y].busy
  BY <1>1 DEF Sessions
<1>3. sessions' = [y \in 1..n |-> r(y)]
  BY <1>1 DEF CurrentClosed
<1> HIDE DEF r, n
<1>4. \A y \in 1..n : sessions'[y] = r(y)
  BY <1>3
<1>5. sessions' \in Seq(Sessions) /\ Len(sessions') = n
  BY <1>1, <1>2, <1>3
<1> QED
  BY <1>2, <1>4, <1>5 DEF n

\* A call begins: it works, or is answered at once.
LEMMA Begins ==
  ASSUME AnswerInv, NEW i \in Ids, NEW made \in Seq(Sessions), NEW x \in 1..Len(made),
         Begin(i, made, x)
  PROVE  /\ target' \in Seq(Nat) /\ Len(target') = Len(target)
         /\ sessions' \in Seq(Sessions) /\ Len(sessions') = Len(made)
         /\ \E p \in {"refine", "work", "done"} :
              /\ handling' = [handling EXCEPT ![i] = p]
              /\ UNCHANGED toHost \/ (p = "done" /\ Answer(i))
<1>1. target' = [target EXCEPT ![i] = x]
  BY DEF Begin
<1>2. target' \in Seq(Nat) /\ Len(target') = Len(target)
  BY <1>1 DEF AnswerInv, TypeOK, Ids
<1>3. sessions' = made \/ sessions' = [made EXCEPT ![x].busy = TRUE]
  BY DEF Begin
<1>4. sessions' \in Seq(Sessions) /\ Len(sessions') = Len(made)
  <2>1. CASE sessions' = [made EXCEPT ![x].busy = TRUE]
    <3>1. x \in Nat
      OBVIOUS
    <3> QED
      BY <2>1, <3>1, BusySet
  <2> QED
    BY <1>3, <2>1
<1>5. \E p \in {"refine", "work", "done"} :
        /\ handling' = [handling EXCEPT ![i] = p]
        /\ UNCHANGED toHost \/ (p = "done" /\ Answer(i))
  BY DEF Begin, WaitsOf
<1> QED
  BY <1>2, <1>4, <1>5

LEMMA Creates ==
  ASSUME AnswerInv, NEW i \in Ids, Create(i)
  PROVE  /\ target' \in Seq(Nat) /\ Len(target') = Len(target)
         /\ sessions' \in Seq(Sessions) /\ current' \in 0..Len(sessions')
         /\ \E p \in {"refine", "work", "done"} :
              /\ handling' = [handling EXCEPT ![i] = p]
              /\ UNCHANGED toHost \/ (p = "done" /\ Answer(i))
<1> DEFINE made == Append(sessions, [open |-> TRUE, busy |-> FALSE])
<1>1. /\ made \in Seq(Sessions) /\ Len(made) \in 1..Len(made)
      /\ current' = Len(made) /\ Begin(i, made, Len(made))
  BY DEF AnswerInv, TypeOK, Sessions, Create
<1> HIDE DEF made
<1> QED
  BY <1>1, Begins

LEMMA HandleKeepsAnswerInv ==
  ASSUME AnswerInv, Handle
  PROVE  AnswerInv'
<1> DEFINE i == Head(toWorker)
<1>1. /\ toWorker' \in Seq(Nat) /\ i \in Nat /\ i = toWorker[1] /\ 1 \in DOMAIN toWorker
      /\ \A m \in DOMAIN toWorker' :
           m \in Nat /\ m + 1 \in DOMAIN toWorker /\ toWorker'[m] = toWorker[m + 1]
  BY Taken DEF AnswerInv, TypeOK, Handle
<1>2. UNCHANGED <<family, calls, closed>>
  BY DEF Handle, host
<1>3. \A m \in DOMAIN toWorker' : toWorker'[m] # i
  <2> SUFFICES ASSUME NEW m \in DOMAIN toWorker', toWorker[m + 1] = toWorker[1] PROVE FALSE
    BY <1>1
  <2>1. m + 1 = 1
    BY <1>1 DEF AnswerInv, Fresh
  <2> QED
    BY <2>1, <1>1 DEF AnswerInv, TypeOK
<1>4. CASE i = Closing
  <2>1. current' = 0 /\ CurrentClosed /\ UNCHANGED <<toHost, handling, target>>
    BY <1>4 DEF Handle, CurrentClosed
  <2>2. sessions' \in Seq(Sessions)
    BY <2>1, OneClosed
  <2>3. TypeOK'
    BY <1>1, <1>2, <2>1, <2>2 DEF AnswerInv, TypeOK
  <2>4. Fresh' /\ Told'
    BY <1>1, <1>2, <2>1 DEF AnswerInv, Fresh, Told, Ids
  <2>5. Truthful' /\ AnswersMatch'
    BY <1>2, <2>1 DEF AnswerInv, Truthful, AnswersMatch, Ids
  <2> QED
    BY <2>3, <2>4, <2>5 DEF AnswerInv
<1>5. CASE i # Closing
  <2>1. i \in Ids /\ handling[i] = "none"
    BY <1>1, <1>5 DEF AnswerInv, Fresh
  <2>2. /\ target' \in Seq(Nat) /\ Len(target') = Len(target)
        /\ sessions' \in Seq(Sessions) /\ current' \in 0..Len(sessions')
        /\ \E p \in {"create", "refine", "work", "done"} :
             /\ handling' = [handling EXCEPT ![i] = p]
             /\ UNCHANGED toHost \/ (p = "done" /\ Answer(i))
    <3>1. CASE current # 0
      <4>1. current \in 1..Len(sessions) /\ sessions \in Seq(Sessions)
        BY <3>1 DEF AnswerInv, TypeOK
      <4>2. Begin(i, sessions, current) /\ UNCHANGED current
        BY <1>5, <3>1 DEF Handle
      <4> HIDE DEF i
      <4> QED
        BY <2>1, <4>1, <4>2, Begins DEF AnswerInv, TypeOK
    <3>2. CASE current = 0 /\ ~slow
      <4>1. Create(i)
        BY <1>5, <3>2 DEF Handle
      <4> HIDE DEF i
      <4> QED
        BY <2>1, <4>1, Creates
    <3>3. CASE current = 0 /\ slow
      <4>1. /\ handling' = [handling EXCEPT ![i] = "create"]
            /\ UNCHANGED <<toHost, target, sessions, current>>
        BY <1>5, <3>3 DEF Handle
      <4> QED
        BY <4>1 DEF AnswerInv, TypeOK
    <3> QED
      BY <3>1, <3>2, <3>3
  <2> HIDE DEF i
  <2>3. /\ Fresh' /\ Told' /\ Truthful' /\ AnswersMatch'
        /\ handling' \in Seq(Places) /\ Len(handling') = Len(handling)
        /\ toHost' \in Seq(Notices)
    BY <1>1, <1>2, <1>3, <2>1, <2>2, HandlerKeepsAnswers
  <2>4. TypeOK'
    BY <1>1, <1>2, <2>2, <2>3 DEF AnswerInv, TypeOK
  <2> QED
    BY <2>3, <2>4 DEF AnswerInv
<1> QED
  BY <1>4, <1>5

\* A handler that has taken its message from the port goes on.
LEMMA ProceedKeepsAnswerInv ==
  ASSUME AnswerInv, NEW i \in Ids, Created(i) \/ CreateFails(i) \/ Refined(i) \/ Finish(i)
  PROVE  AnswerInv'
<1>1. UNCHANGED <<family, calls, closed, toWorker>> /\ handling[i] \in {"create", "refine", "work"}
  BY DEF Created, CreateFails, Refined, Finish, Working, host
<1>2. \A m \in DOMAIN toWorker' :
        /\ m \in Nat /\ m + 0 \in DOMAIN toWorker
        /\ toWorker'[m] = toWorker[m + 0] /\ toWorker'[m] # i
  <2>1. \A m \in DOMAIN toWorker : m \in Nat /\ m + 0 = m
    BY DEF AnswerInv, TypeOK
  <2>3. i # Closing /\ handling[i] # "none"
    BY <1>1 DEF Ids, Closing
  <2>2. \A m \in DOMAIN toWorker : toWorker[m] # i
    BY <2>3 DEF AnswerInv, Fresh
  <2> QED
    BY <1>1, <2>1, <2>2
<1>3. /\ target' \in Seq(Nat) /\ Len(target') = Len(target)
      /\ sessions' \in Seq(Sessions) /\ current' \in 0..Len(sessions')
      /\ \E p \in {"refine", "work", "done"} :
           /\ handling' = [handling EXCEPT ![i] = p]
           /\ UNCHANGED toHost \/ (p = "done" /\ Answer(i))
  <2>1. CASE Created(i)
    BY <2>1, Creates DEF Created
  <2>2. CASE CreateFails(i)
    BY <2>2 DEF CreateFails, AnswerInv, TypeOK
  <2>4. CASE Refined(i)
    BY <2>4 DEF Refined, AnswerInv, TypeOK
  <2>3. CASE Finish(i)
    <3>1. /\ handling' = [handling EXCEPT ![i] = "done"] /\ Answer(i)
          /\ UNCHANGED <<target, current>>
      BY <2>3 DEF Finish
    <3>2. sessions' \in Seq(Sessions) /\ Len(sessions') = Len(sessions)
      <4>1. sessions \in Seq(Sessions) /\ target[i] \in Nat
        BY DEF AnswerInv, TypeOK, Ids
      <4>2. sessions' = sessions \/ sessions' = [sessions EXCEPT ![target[i]].busy = FALSE]
        BY <2>3 DEF Finish
      <4> QED
        BY <4>1, <4>2, BusySet
    <3> QED
      BY <3>1, <3>2 DEF AnswerInv, TypeOK
  <2> QED
    BY <2>1, <2>2, <2>3, <2>4
<1>4. /\ Fresh' /\ Told' /\ Truthful' /\ AnswersMatch'
      /\ handling' \in Seq(Places) /\ Len(handling') = Len(handling)
      /\ toHost' \in Seq(Notices)
  BY <1>1, <1>2, <1>3, HandlerKeepsAnswers
<1>5. TypeOK'
  BY <1>1, <1>3, <1>4 DEF AnswerInv, TypeOK
<1> QED
  BY <1>4, <1>5 DEF AnswerInv

LEMMA DetachKeepsAnswerInv ==
  ASSUME AnswerInv, Detach
  PROVE  AnswerInv'
<1>1. UNCHANGED <<family, calls, closed, toWorker, toHost, handling, target>>
  BY DEF Detach, host
<1>2. sessions' \in Seq(Sessions) /\ Len(sessions') = Len(sessions)
  <2>1. CASE family = "session"
    <3>1. CurrentClosed
      BY <2>1 DEF Detach, CurrentClosed
    <3> QED
      BY <3>1, OneClosed
  <2>2. CASE family # "session"
    <3>1. sessions' = [x \in DOMAIN sessions |-> sessions[x]]
      BY <2>2 DEF Detach
    <3>2. sessions' = sessions
      BY <3>1 DEF AnswerInv, TypeOK
    <3> QED
      BY <3>2 DEF AnswerInv, TypeOK
  <2> QED
    BY <2>1, <2>2
<1>3. current' = current \/ current' = 0
  BY DEF Detach
<1>4. TypeOK'
  BY <1>1, <1>2, <1>3 DEF AnswerInv, TypeOK
<1> QED
  BY <1>1, <1>4 DEF AnswerInv, Fresh, Told, Truthful, AnswersMatch, Ids

LEMMA StepKeepsAnswerInv ==
  ASSUME AnswerInv, [Next]_vars
  PROVE  AnswerInv'
<1>1. CASE UNCHANGED vars
  BY <1>1 DEF vars, host, server, AnswerInv, TypeOK, Fresh, Told, Truthful, AnswersMatch, Ids
<1>2. ASSUME NEW kind \in KindsOf(family), NEW signalled \in BOOLEAN, Call(kind, signalled)
      PROVE  AnswerInv'
  BY <1>2, CallKeepsAnswerInv DEF KindsOf, KindSet
<1>3. ASSUME NEW i \in Ids, Abort(i)
      PROVE  AnswerInv'
  BY <1>3, AbortKeepsAnswerInv
<1>4. CASE Close
  BY <1>4, CloseKeepsAnswerInv
<1>5. CASE Handle
  BY <1>5, HandleKeepsAnswerInv
<1>6. ASSUME NEW i \in Ids, Created(i) \/ CreateFails(i) \/ Refined(i) \/ Finish(i)
      PROVE  AnswerInv'
  BY <1>6, ProceedKeepsAnswerInv
<1>7. CASE Receive
  BY <1>7, ReceiveKeepsAnswerInv
<1>8. CASE Detach
  BY <1>8, DetachKeepsAnswerInv
<1> QED
  BY <1>1, <1>2, <1>3, <1>4, <1>5, <1>6, <1>7, <1>8 DEF Next, HostStep, ServerStep

LEMMA AnswerInvariant == Spec => []AnswerInv
<1>1. AnswerInv /\ [Next]_vars => AnswerInv'
  BY StepKeepsAnswerInv
<1>2. Init => AnswerInv
  BY InitHasAnswerInv
<1> QED
  BY <1>1, <1>2, PTL DEF Spec

\* A call is settled by the answer to itself and by no other, for any number of
\* messages, although the work of calls ends in another order (onMessage() of
\* session/client.ts and host/client.ts, post() of the servers).
THEOREM AnswersAreOwn == Spec => []AnswersMatch
<1>1. AnswerInv => AnswersMatch
  BY DEF AnswerInv
<1> QED
  BY <1>1, AnswerInvariant, PTL

-----------------------------------------------------------------------------
(* One at a time. *)

Alone == Locked \cup {"start"}

Works(i) == handling[i] \in Working /\ calls[i].kind \in Alone

KindsFit == \A i \in Ids : calls[i].kind \in KindsOf(family)

\* The engine's server is starting or running the only start.
StartInv ==
  family = "engine" =>
    /\ \A i, j \in Ids : Works(i) /\ Works(j) => i = j
    /\ \A i \in Ids : Works(i) => starting

\* The session's server makes one session, holds it until it is told to close,
\* and makes no other, because nothing comes after that message.
SessionInv ==
  family = "session" =>
    /\ ~slow /\ \A i \in Ids : handling[i] # "create"
    /\ Len(sessions) <= 1
    /\ \A i, j \in Ids : Works(i) /\ Works(j) => i = j
    /\ \A i \in Ids : Works(i) => target[i] = 1 /\ Len(sessions) = 1 /\ sessions[1].busy
    /\ Len(sessions) = 1 /\ sessions[1].open => current = 1
    /\ Len(sessions) = 1 /\ current = 0 => ~attached \/ (closed /\ toWorker = <<>>)
    /\ \A m \in DOMAIN toWorker : toWorker[m] = Closing => m = Len(toWorker)

TurnInv == AnswerInv /\ KindsFit /\ StartInv /\ SessionInv

LEMMA InitHasTurnInv ==
  ASSUME Init, \A w \in Worlds : w.family = "session" => ~w.slow
  PROVE  TurnInv
<1>1. AnswerInv
  BY InitHasAnswerInv
<1>2. Ids = {} /\ Len(sessions) = 0 /\ toWorker = <<>>
  BY DEF Init, Ids
<1>3. family = "session" => ~slow
  BY DEF Init
<1>4. SessionInv
  BY <1>2, <1>3 DEF SessionInv
<1> QED
  BY <1>1, <1>2, <1>4 DEF TurnInv, KindsFit, StartInv

LEMMA CallKeepsTurn ==
  ASSUME TurnInv, NEW kind \in KindsOf(family), NEW signalled \in BOOLEAN, Call(kind, signalled)
  PROVE  KindsFit' /\ StartInv' /\ SessionInv'
<1> DEFINE n == Len(calls) + 1
<1>1. /\ calls \in Seq(Calls) /\ handling \in Seq(Places) /\ Len(handling) = Len(calls)
      /\ toWorker \in Seq(Nat) /\ Ids = 1..Len(calls)
  BY DEF TurnInv, AnswerInv, TypeOK, Ids
<1>2. \E at \in {"pending", "aborted", "closed"} :
        calls' = Append(calls, [kind |-> kind, at |-> at, answer |-> 0, open |-> ~closed])
  BY DEF Call, Record
<1>3. /\ handling' = Append(handling, "none")
      /\ UNCHANGED <<family, slow, closed, attached, sessions, current, starting>>
      /\ target' = Append(target, 0)
  BY DEF Call, NewHandler
<1>4. /\ Ids' = Ids \cup {n} /\ n \notin Ids /\ calls'[n].kind = kind /\ handling'[n] = "none"
      /\ \A i \in Ids : calls'[i] = calls[i] /\ handling'[i] = handling[i]
  BY <1>1, <1>2, <1>3 DEF Ids
<1>5. \A i \in Ids : target'[i] = target[i]
  BY <1>1, <1>3 DEF TurnInv, AnswerInv, TypeOK
<1>6. \A i \in Ids' : Works(i)' => i \in Ids /\ Works(i)
  BY <1>4 DEF Works, Working
<1>7. n # Closing /\ n \in Nat
  BY <1>1 DEF Closing
<1>8. /\ toWorker' = toWorker \/ toWorker' = Append(toWorker, n)
      /\ closed /\ family = "session" => toWorker' = toWorker
  BY DEF Call, Record
<1> HIDE DEF n
<1>9. KindsFit'
  BY <1>3, <1>4 DEF TurnInv, KindsFit
<1>10. StartInv'
  BY <1>3, <1>6 DEF TurnInv, StartInv
<1>11. ASSUME family = "session"
       PROVE  \A m \in DOMAIN toWorker' : toWorker'[m] = Closing => m = Len(toWorker')
  <2>1. CASE toWorker' = toWorker
    BY <1>11, <2>1 DEF TurnInv, SessionInv
  <2>2. CASE toWorker' = Append(toWorker, n) /\ ~closed
    <3>1. \A m \in DOMAIN toWorker : toWorker[m] # Closing
      BY <2>2 DEF TurnInv, AnswerInv, Told
    <3> QED
      BY <1>1, <1>7, <2>2, <3>1
  <2> QED
    BY <1>8, <1>11, <2>1, <2>2
<1>12. ASSUME family = "session", Len(sessions) = 1, current = 0
       PROVE  ~attached \/ (closed /\ toWorker' = <<>>)
  BY <1>8, <1>12 DEF TurnInv, SessionInv
<1>13. ASSUME family = "session"
       PROVE  /\ \A i \in Ids' : handling'[i] # "create"
              /\ \A i, j \in Ids' : Works(i)' /\ Works(j)' => i = j
              /\ \A i \in Ids' : Works(i)' => target'[i] = 1 /\ Len(sessions) = 1 /\ sessions[1].busy
  BY <1>4, <1>5, <1>6, <1>13 DEF TurnInv, SessionInv
<1>14. SessionInv'
  <2>1. ASSUME family = "session"
        PROVE  /\ ~slow /\ Len(sessions) <= 1
               /\ Len(sessions) = 1 /\ sessions[1].open => current = 1
    BY <2>1 DEF TurnInv, SessionInv
  <2> QED
    BY <1>3, <1>11, <1>12, <1>13, <2>1 DEF SessionInv
<1> QED
  BY <1>9, <1>10, <1>14

LEMMA AbortKeepsTurn ==
  ASSUME TurnInv, NEW i \in Ids, Abort(i)
  PROVE  KindsFit' /\ StartInv' /\ SessionInv'
<1>1. calls[i].kind \in KindsOf(family) \cap Signalled /\ Call("cancel", FALSE)
  BY DEF Abort, TurnInv, KindsFit
<1>2. "cancel" \in KindsOf(family)
  BY <1>1 DEF KindsOf, Signalled
<1> QED
  BY <1>1, <1>2, CallKeepsTurn

\* Only what waits on the host's side, or is on its way, changes.
LEMMA HostKeepsTurn ==
  ASSUME TurnInv, Receive \/ Close
  PROVE  KindsFit' /\ StartInv' /\ SessionInv'
<1>1. UNCHANGED <<family, slow, attached, handling, target, sessions, current, starting>>
  BY DEF Receive, Close, server
<1>2. Ids' = Ids /\ \A i \in Ids : calls'[i].kind = calls[i].kind
  <2>1. CASE UNCHANGED calls
    BY <2>1 DEF Ids
  <2>2. ASSUME NEW k, calls' = [calls EXCEPT ![k].at = "answered", ![k].answer = Head(toHost).of]
        PROVE  Ids' = Ids /\ \A i \in Ids : calls'[i].kind = calls[i].kind
    BY <2>2 DEF TurnInv, AnswerInv, TypeOK, Calls, Ids
  <2>3. CASE Close
    BY <2>3 DEF Close, TurnInv, AnswerInv, TypeOK, Calls, Ids
  <2> QED
    BY <2>1, <2>2, <2>3 DEF Receive
<1>3. KindsFit' /\ StartInv' /\ \A i \in Ids : Works(i)' <=> Works(i)
  BY <1>1, <1>2 DEF TurnInv, KindsFit, StartInv, Works
<1>4. ASSUME family = "session"
      PROVE  /\ \A m \in DOMAIN toWorker' : toWorker'[m] = Closing => m = Len(toWorker')
             /\ Len(sessions) = 1 /\ current = 0 => ~attached \/ (closed' /\ toWorker' = <<>>)
  <2>1. CASE Receive
    BY <1>4, <2>1 DEF Receive, TurnInv, SessionInv
  <2>2. CASE Close
    <3>1. /\ toWorker \in Seq(Nat) /\ toWorker' = Append(toWorker, Closing) /\ ~closed
      BY <1>4, <2>2 DEF Close, TurnInv, AnswerInv, TypeOK
    <3>2. \A m \in DOMAIN toWorker : toWorker[m] # Closing
      BY <3>1 DEF TurnInv, AnswerInv, Told
    <3>3. Len(sessions) = 1 /\ current = 0 => ~attached
      BY <1>4, <3>1 DEF TurnInv, SessionInv
    <3> QED
      BY <3>1, <3>2, <3>3
  <2> QED
    BY <2>1, <2>2
<1>5. SessionInv'
  BY <1>1, <1>2, <1>3, <1>4 DEF TurnInv, SessionInv
<1> QED
  BY <1>3, <1>5

\* What SessionInv says of the calls that work.
AloneInSession ==
  /\ \A i \in Ids : handling[i] # "create"
  /\ \A i, j \in Ids : Works(i) /\ Works(j) => i = j
  /\ \A i \in Ids : Works(i) => target[i] = 1 /\ Len(sessions) = 1 /\ sessions[1].busy

\* A call under the flag begins only if no other works.
LEMMA BeginKeepsTurn ==
  ASSUME TurnInv, NEW i \in Ids, handling[i] \in {"none", "create"},
         NEW made \in Seq(Sessions), NEW x \in 1..Len(made), Begin(i, made, x),
         UNCHANGED <<family, calls>>,
         family = "session" =>
           x = 1 /\ Len(made) = 1 /\ \A j \in Ids : Works(j) => made[1].busy
  PROVE  /\ StartInv'
         /\ family = "session" =>
              AloneInSession' /\ Len(sessions') = 1 /\ sessions'[1].open = made[1].open
<1>1. /\ handling \in Seq(Places) /\ Len(handling) = Len(calls)
      /\ target \in Seq(Nat) /\ Len(target) = Len(calls) /\ Ids = 1..Len(calls) /\ Ids' = Ids
  BY DEF TurnInv, AnswerInv, TypeOK, Ids
<1>2. PICK p \in {"refine", "work", "done"} :
        /\ handling' = [handling EXCEPT ![i] = p] /\ target' = [target EXCEPT ![i] = x]
        /\ p \in Working => /\ calls[i].kind \in Locked => ~made[x].busy
                            /\ calls[i].kind = "start" => ~starting
        /\ p \in Working /\ calls[i].kind = "start" => starting'
        /\ starting => starting'
        /\ sessions' = IF p \in Working /\ calls[i].kind \in Alone
                       THEN [made EXCEPT ![x].busy = TRUE] ELSE made
  BY DEF Begin, StartRefused, Alone, Locked, WaitsOf, Working
<1>3. /\ \A j \in Ids : j # i => handling'[j] = handling[j] /\ target'[j] = target[j]
      /\ handling'[i] = p /\ target'[i] = x
  BY <1>1, <1>2
<1>4. ~Works(i) /\ \A j \in Ids : Works(j)' => \/ j # i /\ Works(j)
                                               \/ j = i /\ p \in Working /\ calls[i].kind \in Alone
  BY <1>3 DEF Works, Working
<1>5. ASSUME family = "engine"
      PROVE  /\ \A j, k \in Ids : Works(j)' /\ Works(k)' => j = k
             /\ \A j \in Ids : Works(j)' => starting'
  <2>1. calls[i].kind \in Alone => calls[i].kind = "start"
    BY <1>5 DEF TurnInv, KindsFit, KindsOf, Alone, Locked
  <2> QED
    BY <1>2, <1>4, <1>5, <2>1 DEF TurnInv, StartInv
<1>6. StartInv'
  BY <1>1, <1>5 DEF StartInv
<1>7. ASSUME family = "session"
      PROVE  AloneInSession' /\ Len(sessions') = 1 /\ sessions'[1].open = made[1].open
  <2>1. calls[i].kind \in Alone => calls[i].kind \in Locked
    BY <1>7 DEF TurnInv, KindsFit, KindsOf, Alone, Locked
  <2>2. /\ Len(sessions') = 1 /\ sessions'[1].open = made[1].open
        /\ p \in Working /\ calls[i].kind \in Alone => sessions'[1].busy
        /\ ~(p \in Working /\ calls[i].kind \in Alone) => sessions' = made
    <3>1. CASE p \in Working /\ calls[i].kind \in Alone
      <4>1. sessions' = [made EXCEPT ![1].busy = TRUE] /\ 1 \in Nat
        BY <1>2, <1>7, <3>1
      <4>2. Len(sessions') = Len(made) /\ sessions'[1].open = made[1].open
        BY <1>7, <4>1, BusySet
      <4>3. sessions'[1] = [made[1] EXCEPT !.busy = TRUE] /\ made[1] \in Sessions
        BY <1>7, <4>1
      <4>4. sessions'[1].busy
        BY <4>3 DEF Sessions
      <4> QED
        BY <1>7, <3>1, <4>2, <4>4
    <3>2. CASE ~(p \in Working /\ calls[i].kind \in Alone)
      BY <1>2, <1>7, <3>2
    <3> QED
      BY <3>1, <3>2
  <2>3. \A j \in Ids : handling'[j] # "create"
    BY <1>2, <1>3, <1>7 DEF TurnInv, SessionInv
  <2>4. \A j, k \in Ids : Works(j)' /\ Works(k)' => j = k
    BY <1>2, <1>4, <1>7, <2>1 DEF TurnInv, SessionInv
  <2>5. \A j \in Ids : Works(j)' => target'[j] = 1 /\ sessions'[1].busy
    BY <1>2, <1>3, <1>4, <1>7, <2>2 DEF TurnInv, SessionInv
  <2> QED
    BY <1>1, <2>2, <2>3, <2>4, <2>5 DEF AloneInSession
<1> QED
  BY <1>6, <1>7

\* A session or an engine is made by a message that finds none.
LEMMA CreateKeepsTurn ==
  ASSUME TurnInv, NEW i \in Ids, handling[i] \in {"none", "create"}, Create(i),
         UNCHANGED <<family, calls>>,
         family = "session" => sessions = <<>>
  PROVE  /\ StartInv'
         /\ family = "session" => AloneInSession' /\ Len(sessions') = 1 /\ current' = 1
<1> DEFINE made == Append(sessions, [open |-> TRUE, busy |-> FALSE])
<1>1. /\ made \in Seq(Sessions) /\ Len(made) \in 1..Len(made)
      /\ current' = Len(made) /\ Begin(i, made, Len(made))
      /\ family = "session" => Len(made) = 1
  BY DEF TurnInv, AnswerInv, TypeOK, Sessions, Create
<1>2. family = "session" => \A j \in Ids : ~Works(j)
  <2>1. sessions = <<>> => Len(sessions) # 1
    OBVIOUS
  <2> QED
    BY <2>1 DEF TurnInv, SessionInv
<1> HIDE DEF made
<1> QED
  BY <1>1, <1>2, BeginKeepsTurn

LEMMA HandleKeepsTurn ==
  ASSUME TurnInv, Handle
  PROVE  KindsFit' /\ StartInv' /\ SessionInv'
<1> DEFINE i == Head(toWorker)
<1>1. /\ toWorker' = Tail(toWorker) /\ toWorker # <<>> /\ toWorker \in Seq(Nat) /\ attached
      /\ i = toWorker[1] /\ UNCHANGED <<family, slow, calls, closed, attached>>
  BY DEF Handle, host, TurnInv, AnswerInv, TypeOK
<1>2. /\ Len(toWorker) \in Nat \ {0} /\ DOMAIN toWorker = 1..Len(toWorker)
      /\ Len(toWorker') = Len(toWorker) - 1 /\ DOMAIN toWorker' = 1..Len(toWorker')
      /\ \A m \in DOMAIN toWorker' : toWorker'[m] = toWorker[m + 1] /\ m + 1 \in DOMAIN toWorker
  BY <1>1
<1>3. KindsFit' /\ Ids' = Ids
  BY <1>1 DEF TurnInv, KindsFit, Ids
<1>4. family = "session" =>
        \A m \in DOMAIN toWorker' : toWorker'[m] = Closing => m = Len(toWorker')
  BY <1>2 DEF TurnInv, SessionInv
<1>5. /\ current \in 0..Len(sessions) /\ sessions \in Seq(Sessions)
      /\ handling \in Seq(Places) /\ Len(handling) = Len(calls)
  BY DEF TurnInv, AnswerInv, TypeOK
<1>6. ASSUME family = "session"
      PROVE  /\ ~slow /\ Len(sessions) <= 1 /\ AloneInSession
             /\ Len(sessions) = 1 /\ sessions[1].open => current = 1
             /\ current = 0 => Len(sessions) # 1
  BY <1>1, <1>6 DEF TurnInv, SessionInv, AloneInSession
<1>7. CASE i = Closing
  <2>1. current' = 0 /\ CurrentClosed /\ UNCHANGED <<handling, target, starting>>
    BY <1>7 DEF Handle, CurrentClosed
  <2>2. /\ Len(sessions') = Len(sessions)
        /\ \A y \in 1..Len(sessions) : /\ sessions'[y].open => sessions[y].open /\ y # current
                                       /\ sessions'[y].busy = sessions[y].busy
    BY <2>1, OneClosed DEF TurnInv
  <2>3. StartInv'
    BY <1>1, <1>3, <2>1 DEF TurnInv, StartInv, Works
  <2>4. ASSUME family = "session"
        PROVE  closed /\ toWorker' = <<>>
    <3>1. 1 = Len(toWorker) /\ closed
      BY <1>1, <1>2, <1>7, <2>4 DEF TurnInv, AnswerInv, Told, SessionInv
    <3> QED
      BY <1>1, <3>1
  <2>5. ASSUME family = "session"
        PROVE  /\ ~(Len(sessions') = 1 /\ sessions'[1].open)
               /\ Len(sessions') <= 1 /\ AloneInSession'
    BY <1>1, <1>3, <1>6, <2>1, <2>2, <2>5 DEF AloneInSession, Works
  <2>6. SessionInv'
    BY <1>1, <1>3, <1>4, <1>6, <2>4, <2>5 DEF SessionInv, AloneInSession
  <2> QED
    BY <1>3, <2>3, <2>6
<1>8. CASE i # Closing
  <2>1. i \in Ids /\ handling[i] = "none"
    BY <1>1, <1>2, <1>8 DEF TurnInv, AnswerInv, Fresh
  <2>2. /\ StartInv'
        /\ family = "session" => AloneInSession' /\ Len(sessions') = 1 /\ current' = 1
    <3>1. CASE current # 0
      <4>1. Begin(i, sessions, current) /\ UNCHANGED current
        BY <1>8, <3>1 DEF Handle
      <4>2. /\ current \in 1..Len(sessions)
            /\ family = "session" => current = 1 /\ Len(sessions) = 1
        <5>1. current \in 1..Len(sessions) /\ Len(sessions) \in Nat
          BY <1>5, <3>1
        <5>2. ASSUME family = "session"
              PROVE  current = 1 /\ Len(sessions) = 1
          <6>1. Len(sessions) <= 1
            BY <1>6, <5>2
          <6> QED
            BY <5>1, <6>1, <1>5, AtMostOne
        <5> QED
          BY <5>1, <5>2
      <4>3. family = "session" => \A j \in Ids : Works(j) => sessions[1].busy
        BY <1>6 DEF AloneInSession
      <4> HIDE DEF i
      <4> QED
        BY <1>1, <1>5, <2>1, <4>1, <4>2, <4>3, BeginKeepsTurn
    <3>2. CASE current = 0 /\ ~slow
      <4>1. Create(i)
        BY <1>8, <3>2 DEF Handle
      <4>2. family = "session" => sessions = <<>>
        <5> SUFFICES ASSUME family = "session"
                     PROVE  sessions = <<>>
          OBVIOUS
        <5>1. Len(sessions) <= 1 /\ Len(sessions) # 1
          BY <1>6, <3>2
        <5> QED
          BY <1>5, <5>1, AtMostOne
      <4> HIDE DEF i
      <4> QED
        BY <1>1, <2>1, <4>1, <4>2, CreateKeepsTurn
    <3>3. CASE current = 0 /\ slow
      <4>1. /\ handling' = [handling EXCEPT ![i] = "create"]
            /\ UNCHANGED starting
        BY <1>8, <3>3 DEF Handle
      <4> HIDE DEF i
      <4>2. \A j \in Ids : Works(j)' => Works(j)
        BY <1>1, <1>5, <2>1, <4>1 DEF Works, Working, Ids
      <4>3. StartInv'
        BY <1>1, <1>3, <4>1, <4>2 DEF TurnInv, StartInv
      <4> QED
        BY <1>6, <3>3, <4>3
    <3> QED
      BY <3>1, <3>2, <3>3
  <2>3. SessionInv'
    <3> SUFFICES ASSUME family = "session"
                 PROVE  SessionInv'
      BY <1>1 DEF SessionInv
    <3>1. ~slow' /\ AloneInSession' /\ Len(sessions') = 1 /\ current' = 1
      BY <1>1, <1>6, <2>2
    <3> QED
      BY <1>3, <1>4, <3>1 DEF SessionInv, AloneInSession
  <2> QED
    BY <1>3, <2>2, <2>3
<1> QED
  BY <1>7, <1>8

LEMMA ProceedKeepsTurn ==
  ASSUME TurnInv, NEW i \in Ids, Created(i) \/ CreateFails(i) \/ Refined(i) \/ Finish(i)
  PROVE  KindsFit' /\ StartInv' /\ SessionInv'
<1>1. /\ UNCHANGED <<family, slow, calls, closed, toWorker, attached>>
      /\ handling[i] \in {"create", "refine", "work"}
  BY DEF Created, CreateFails, Refined, Finish, Working, host
<1>2. KindsFit' /\ Ids' = Ids
  BY <1>1 DEF TurnInv, KindsFit, Ids
<1>3. /\ handling \in Seq(Places) /\ Len(handling) = Len(calls)
      /\ sessions \in Seq(Sessions) /\ target[i] \in Nat
  BY DEF TurnInv, AnswerInv, TypeOK, Ids
<1>4. family = "session" => handling[i] # "create"
  BY <1>1 DEF TurnInv, SessionInv
<1>5. CASE Created(i)
  <2>1. family # "session" /\ Create(i) /\ handling[i] = "create"
    BY <1>4, <1>5 DEF Created
  <2>2. StartInv'
    BY <1>1, <2>1, CreateKeepsTurn
  <2> QED
    BY <1>1, <1>2, <2>1, <2>2 DEF SessionInv
<1>6. CASE CreateFails(i)
  <2>1. family # "session" /\ handling' = [handling EXCEPT ![i] = "done"] /\ UNCHANGED starting
    BY <1>4, <1>6 DEF CreateFails
  <2>2. \A j \in Ids : Works(j)' => Works(j)
    BY <1>1, <1>3, <2>1 DEF Works, Working, Ids
  <2>3. StartInv'
    BY <1>1, <1>2, <2>1, <2>2 DEF TurnInv, StartInv
  <2> QED
    BY <1>1, <1>2, <2>1, <2>3 DEF SessionInv
<1>7. CASE Finish(i)
  <2>1. /\ handling[i] \in Working /\ handling' = [handling EXCEPT ![i] = "done"]
        /\ UNCHANGED <<target, current>>
        /\ starting /\ calls[i].kind # "start" => starting'
        /\ sessions' = IF calls[i].kind \in Alone
                       THEN [sessions EXCEPT ![target[i]].busy = FALSE] ELSE sessions
    BY <1>7 DEF Finish, Alone
  <2>2. \A j \in Ids : /\ Works(j)' => j # i /\ Works(j)
                       /\ handling'[j] = IF j = i THEN "done" ELSE handling[j]
    BY <1>1, <1>3, <2>1 DEF Works, Working, Ids
  <2>3. calls[i].kind \in Alone => Works(i)
    BY <2>1 DEF Works
  <2>4. StartInv'
    BY <1>1, <1>2, <2>1, <2>2, <2>3 DEF TurnInv, StartInv, Alone
  <2>5. /\ Len(sessions') = Len(sessions)
        /\ \A y \in 1..Len(sessions) : sessions'[y].open = sessions[y].open
        /\ calls[i].kind \notin Alone => sessions' = sessions
    BY <1>3, <2>1, BusySet
  <2>6. ASSUME family = "session"
        PROVE  /\ AloneInSession' /\ ~slow /\ Len(sessions') <= 1
               /\ Len(sessions') = 1 /\ sessions'[1].open => current = 1
    <3>1. calls[i].kind \in Alone => \A j \in Ids : ~Works(j)'
      BY <2>2, <2>3, <2>6 DEF TurnInv, SessionInv
    <3> QED
      BY <1>1, <1>2, <2>1, <2>2, <2>5, <2>6, <3>1 DEF TurnInv, SessionInv, AloneInSession
  <2>7. SessionInv'
    BY <1>1, <1>2, <2>1, <2>5, <2>6 DEF TurnInv, SessionInv, AloneInSession
  <2> QED
    BY <1>2, <2>4, <2>7
<1>8. CASE Refined(i)
  <2>1. /\ handling[i] = "refine" /\ handling' = [handling EXCEPT ![i] = "work"]
        /\ UNCHANGED <<target, sessions, current, starting>>
    BY <1>8 DEF Refined
  <2>2. \A j \in Ids : /\ Works(j)' <=> Works(j)
                       /\ handling'[j] = IF j = i THEN "work" ELSE handling[j]
    BY <1>1, <1>3, <2>1 DEF Works, Working, Ids
  <2>3. StartInv'
    BY <1>1, <1>2, <2>1, <2>2 DEF TurnInv, StartInv
  <2>4. SessionInv'
    BY <1>1, <1>2, <2>1, <2>2 DEF TurnInv, SessionInv
  <2> QED
    BY <1>2, <2>3, <2>4
<1> QED
  BY <1>5, <1>6, <1>7, <1>8

LEMMA DetachKeepsTurn ==
  ASSUME TurnInv, Detach
  PROVE  KindsFit' /\ StartInv' /\ SessionInv'
<1>1. UNCHANGED <<family, slow, calls, closed, toWorker, handling, target, starting>> /\ ~attached'
  BY DEF Detach, host
<1>2. KindsFit' /\ StartInv' /\ Ids' = Ids /\ \A i \in Ids : Works(i)' <=> Works(i)
  BY <1>1 DEF TurnInv, KindsFit, StartInv, Works, Ids
<1>3. ASSUME family = "session"
      PROVE  /\ Len(sessions') = Len(sessions)
             /\ \A y \in 1..Len(sessions) : /\ sessions'[y].open => sessions[y].open /\ y # current
                                            /\ sessions'[y].busy = sessions[y].busy
  <2>1. CurrentClosed
    BY <1>3 DEF Detach, CurrentClosed
  <2> QED
    BY <2>1, OneClosed DEF TurnInv
<1>4. SessionInv'
  <2> SUFFICES ASSUME family = "session"
               PROVE  SessionInv'
    BY <1>1 DEF SessionInv
  <2>1. /\ AloneInSession /\ ~slow /\ Len(sessions) <= 1
        /\ Len(sessions) = 1 /\ sessions[1].open => current = 1
        /\ \A m \in DOMAIN toWorker : toWorker[m] = Closing => m = Len(toWorker)
    BY DEF TurnInv, SessionInv, AloneInSession
  <2>2. AloneInSession'
    <3>1. \A i \in Ids : handling'[i] # "create"
      BY <1>1, <2>1 DEF AloneInSession
    <3>2. \A i, j \in Ids : Works(i)' /\ Works(j)' => i = j
      BY <1>2, <2>1 DEF AloneInSession
    <3>3. ASSUME NEW i \in Ids, Works(i)'
          PROVE  target'[i] = 1 /\ Len(sessions') = 1 /\ sessions'[1].busy
      <4>1. target[i] = 1 /\ Len(sessions) = 1 /\ sessions[1].busy
        BY <1>2, <2>1, <3>3 DEF AloneInSession
      <4>2. 1 \in 1..Len(sessions)
        BY <4>1
      <4> QED
        BY <1>1, <1>3, <4>1, <4>2
    <3> QED
      BY <1>2, <3>1, <3>2, <3>3 DEF AloneInSession
  <2>3. ~(Len(sessions') = 1 /\ sessions'[1].open) /\ Len(sessions') <= 1
    BY <1>3, <2>1
  <2> QED
    BY <1>1, <1>2, <2>1, <2>2, <2>3 DEF SessionInv, AloneInSession
<1> QED
  BY <1>2, <1>4

LEMMA StepKeepsTurnInv ==
  ASSUME TurnInv, [Next]_vars
  PROVE  TurnInv'
<1>1. AnswerInv'
  BY StepKeepsAnswerInv DEF TurnInv
<1>2. CASE UNCHANGED vars
  BY <1>1, <1>2
     DEF vars, host, server, TurnInv, KindsFit, StartInv, SessionInv, Works, Ids
<1>3. ASSUME NEW kind \in KindsOf(family), NEW signalled \in BOOLEAN, Call(kind, signalled)
      PROVE  TurnInv'
  BY <1>1, <1>3, CallKeepsTurn DEF TurnInv
<1>4. ASSUME NEW i \in Ids, Abort(i)
      PROVE  TurnInv'
  BY <1>1, <1>4, AbortKeepsTurn DEF TurnInv
<1>5. CASE Receive \/ Close
  BY <1>1, <1>5, HostKeepsTurn DEF TurnInv
<1>6. CASE Handle
  BY <1>1, <1>6, HandleKeepsTurn DEF TurnInv
<1>7. ASSUME NEW i \in Ids, Created(i) \/ CreateFails(i) \/ Refined(i) \/ Finish(i)
      PROVE  TurnInv'
  BY <1>1, <1>7, ProceedKeepsTurn DEF TurnInv
<1>8. CASE Detach
  BY <1>1, <1>8, DetachKeepsTurn DEF TurnInv
<1> QED
  BY <1>2, <1>3, <1>4, <1>5, <1>6, <1>7, <1>8 DEF Next, HostStep, ServerStep

LEMMA AloneCounted ==
  ASSUME TurnInv
  PROVE  OneAtATime
<1> DEFINE S == {i \in Ids : handling[i] \in Working /\ calls[i].kind \in Locked \cup {"start"}}
<1>1. \A i, j \in S : i = j
  <2>1. \A i \in S : i \in Ids /\ Works(i)
    BY DEF Works, Alone
  <2>2. family \in {"session", "engine"}
    BY DEF TurnInv, AnswerInv, TypeOK
  <2> QED
    BY <2>1, <2>2 DEF TurnInv, StartInv, SessionInv
<1>2. Cardinality(S) <= 1
  <2> HIDE DEF S
  <2>1. CASE S = {}
    BY <2>1, FS_EmptySet
  <2>2. ASSUME NEW i \in S
        PROVE  Cardinality(S) <= 1
    <3>1. S = {i}
      BY <1>1
    <3>2. Cardinality(S) = 1
      BY <3>1, FS_Singleton
    <3> QED
      BY <3>2
  <2> QED
    BY <2>1, <2>2
<1>3. ASSUME family = "session", NEW x \in DOMAIN sessions, sessions[x].open
      PROVE  x = current
  <2>1. sessions \in Seq(Sessions) /\ Len(sessions) <= 1
    BY <1>3 DEF TurnInv, AnswerInv, TypeOK, SessionInv
  <2>2. x = 1 /\ Len(sessions) = 1
    BY <1>3, <2>1, AtMostOne
  <2> QED
    BY <1>3, <2>2 DEF TurnInv, SessionInv
<1> QED
  BY <1>2, <1>3 DEF OneAtATime

\* A worker does one thing at a time, for any number of messages in any order, if
\* a session is made without waiting, as createNovelSession() does.  An engine
\* may take its time: several are made, and one start runs (ensureSession() and
\* the handling of close in session/server.ts, the flag of host/server.ts).
THEOREM WorkerIsAlone ==
  ASSUME \A w \in Worlds : w.family = "session" => ~w.slow
  PROVE  Spec => []OneAtATime
<1>1. Init => TurnInv
  BY InitHasTurnInv
<1>2. TurnInv /\ [Next]_vars => TurnInv'
  BY StepKeepsTurnInv
<1>3. TurnInv => OneAtATime
  BY AloneCounted
<1> QED
  BY <1>1, <1>2, <1>3, PTL DEF Spec
=============================================================================
