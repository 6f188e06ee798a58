----------------------------- MODULE BookProofs -----------------------------
(***************************************************************************)
(* A book under its engine and tools, for every bound, input and language  *)
(* model, with crashes between any two writes.  GoodInv says that the      *)
(* store is good, and that the writes a tool has yet to make real lead     *)
(* from it, one after the other, through good stores: a lemma per tool     *)
(* follows its writes, and every step of the book is then one of them or   *)
(* leaves the pages alone.  From that follow the texts, the foundation,    *)
(* the flow and the abstract book.  Further invariants follow the reviews  *)
(* that are due, the queue, the length of the outline, its volumes and     *)
(* their summaries.  What a review may queue and what plans are supplied   *)
(* is the language model's doing, and where a property rests on it the     *)
(* theorem says so.                                                        *)
(***************************************************************************)
EXTENDS BookProperties, OperatorProofs

-----------------------------------------------------------------------------
(* A good store. *)

Shape(s) ==
  /\ DOMAIN s = {"progress", "tier", "files", "outlined", "volumes", "drafts", "finals",
                 "summaries", "globalReviews", "arcReviews", "arcSummaries",
                 "volumeSummaries", "prompt"}
  /\ DOMAIN s.progress = {"phase", "flow", "current", "total", "completed", "pending", "layered"}

Planning == {"init", "premise", "outline"}

\* The progress record: the flow fits the queue, chapters are there only while
\* the book is written and when it is complete, and then some are.
InOrder(p) ==
  /\ p.phase \in Phases
  /\ p.completed \in Seq(Numbers) /\ p.pending \in Seq(Numbers) /\ p.total \in Nat
  /\ p.flow \in {"rewriting", "polishing"} <=> p.pending # <<>>
  /\ p.phase \in Planning => p.completed = <<>>
  /\ p.phase = "complete" => p.completed # <<>>

HasFinals(s) == ToSet(s.progress.completed) \subseteq s.finals

HasOutline(s) == s.outlined > 0 \/ s.volumes # <<>>

Founded(s) ==
  s.progress.phase \in {"writing", "complete"} => Artifacts \subseteq s.files /\ HasOutline(s)

\* The layered outline is numbered, and opens with chapters as soon as it is there.
Laid(s) ==
  /\ s.volumes \in Seq(VolumeOutline) /\ Numbered(s.volumes)
  /\ s.volumes # <<>> => OpensExpanded(s.volumes)
  /\ s.progress.layered => s.volumes # <<>>

Good(s) == Shape(s) /\ InOrder(s.progress) /\ HasFinals(s) /\ Founded(s) /\ Laid(s)

-----------------------------------------------------------------------------
(* What one write may do to a book. *)

SamePages(p, q) == q.completed = p.completed /\ q.pending = p.pending

Rests(p, q) ==
  SamePages(p, q) /\ (q.phase = p.phase \/ (p.phase \in Planning /\ q.phase \in Planning))

Opens(p, q) == SamePages(p, q) /\ p.phase \in Planning /\ q.phase = "writing"

Commits(by, p, q) ==
  by = "writer" /\ \E ch \in Numbers :
    /\ p.phase = "writing" /\ q.phase = "writing"
    /\ ch = ExpectedChapter(p) /\ ch \notin ToSet(p.completed)
    /\ q.completed = Append(p.completed, ch) /\ q.pending = Without(p.pending, ch)

Asks(by, p, q) ==
  /\ by = "editor" /\ q.phase = p.phase /\ q.completed = p.completed /\ p.completed # <<>>
  /\ q.pending \in Seq(Numbers) /\ q.pending # <<>>

Ends(p, q, outlined) ==
  /\ SamePages(p, q) /\ p.phase = "writing" /\ q.phase = "complete"
  /\ p.pending = <<>> /\ p.completed # <<>> /\ NextChapter(p) > outlined

Turns(by, s, t) ==
  LET p == s.progress
      q == t.progress
  IN  \/ Rests(p, q) \/ Opens(p, q) \/ Commits(by, p, q) \/ Asks(by, p, q)
      \/ Ends(p, q, OutlinedChapters(s))

\* What it may do to the outline: a book that has chapters stays layered or flat
\* and loses no arc that has chapters; and, if the indexes of the arcs tell them
\* apart, an arc that holds a committed chapter is settled.
Settles(s, t) ==
  /\ s.progress.completed # <<>> =>
       /\ t.progress.layered <=> s.progress.layered
       /\ s.progress.layered =>
            \A x \in Arcs(s.volumes) : IsArcExpanded(ArcAt(s.volumes, x)) =>
              x \in Arcs(t.volumes) /\ ArcAt(t.volumes, x) = ArcAt(s.volumes, x)
  /\ s.progress.layered /\ IndexesTell(s.volumes) =>
       \A x \in Arcs(s.volumes) :
         /\ IsArcExpanded(ArcAt(s.volumes, x))
         /\ StartChapter(s.volumes, x) <= LatestCompleted(s.progress)
         => SettledAt(s.volumes, t.volumes, x)

Leads(by, s, t) == Turns(by, s, t) /\ Settles(s, t)

\* The writes of a script lead from store s, one after the other, to store t.
Path(by, s, w, t) ==
  /\ IsSequence(w)
  /\ \A i \in 1..Len(w) : Good(w[i]) /\ Leads(by, IF i = 1 THEN s ELSE w[i - 1], w[i])
  /\ t = IF Len(w) = 0 THEN s ELSE w[Len(w)]

HasPath(by, s, w) == \E t : Path(by, s, w, t)

\* The editor is called only for a book that has chapters.
EditorHasPages ==
  inst.agent = "editor" \/ next.agent = "editor" => store.progress.completed # <<>>

GoodInv ==
  /\ Good(store) /\ HasPath(inst.agent, store, script)
  /\ pc = "tool" <=> script # <<>>
  /\ EditorHasPages

-----------------------------------------------------------------------------
(* Paths. *)

LEMMA PathNone ==
  ASSUME NEW by, NEW s
  PROVE  Path(by, s, <<>>, s)
<1> DEFINE w == <<>>
<1>1. w \in Seq({}) /\ Len(w) = 0
  OBVIOUS
<1> HIDE DEF w
<1>2. Path(by, s, w, s)
  BY <1>1 DEF Path, IsSequence
<1> QED
  BY <1>2 DEF w

LEMMA PathMore ==
  ASSUME NEW by, NEW s, NEW w, NEW t, NEW a, Path(by, s, w, t), Good(a), Leads(by, t, a)
  PROVE  Path(by, s, Append(w, a), a)
<1> DEFINE longer == Append(w, a)
<1>1. PICK S : w \in Seq(S)
  BY DEF Path, IsSequence
<1>2. /\ Len(w) \in Nat /\ longer \in Seq(S \cup {a}) /\ Len(longer) = Len(w) + 1
      /\ \A i \in 1..Len(w) : longer[i] = w[i]
      /\ longer[Len(w) + 1] = a
  <2>1. w \in Seq(S \cup {a})
    BY <1>1
  <2> QED
    BY <2>1, AppendProperties
<1> HIDE DEF longer
<1>3. ASSUME NEW i \in 1..Len(longer)
      PROVE  Good(longer[i]) /\ Leads(by, IF i = 1 THEN s ELSE longer[i - 1], longer[i])
  <2>1. CASE i <= Len(w)
    <3>1. i \in 1..Len(w) /\ longer[i] = w[i] /\ (i # 1 => longer[i - 1] = w[i - 1])
      BY <1>2, <2>1
    <3>2. Good(w[i]) /\ Leads(by, IF i = 1 THEN s ELSE w[i - 1], w[i])
      BY <3>1 DEF Path
    <3> QED
      BY <3>1, <3>2
  <2>2. CASE i = Len(w) + 1
    <3>1. longer[i] = a /\ (IF i = 1 THEN s ELSE longer[i - 1]) = t
      BY <1>2, <2>2 DEF Path
    <3> QED
      BY <3>1
  <2> QED
    BY <1>2, <2>1, <2>2
<1>4. Path(by, s, longer, a)
  BY <1>2, <1>3 DEF Path, IsSequence
<1> QED
  BY <1>4 DEF longer

LEMMA PathOne ==
  ASSUME NEW by, NEW s, NEW a, Good(a), Leads(by, s, a)
  PROVE  Path(by, s, <<a>>, a)
<1>1. Path(by, s, Append(<<>>, a), a)
  BY PathNone, PathMore
<1>2. Append(<<>>, a) = <<a>>
  OBVIOUS
<1> QED
  BY <1>1, <1>2

LEMMA PathTwo ==
  ASSUME NEW by, NEW s, NEW a, NEW b, Good(a), Leads(by, s, a), Good(b), Leads(by, a, b)
  PROVE  Path(by, s, <<a, b>>, b)
<1> DEFINE w == <<a, b>>
<1>1. w \in Seq({a, b}) /\ Len(w) = 2 /\ w[1] = a /\ w[2] = b
  OBVIOUS
<1> HIDE DEF w
<1>2. \A i \in 1..Len(w) : Good(w[i]) /\ Leads(by, IF i = 1 THEN s ELSE w[i - 1], w[i])
  BY <1>1
<1>3. Path(by, s, w, b)
  BY <1>1, <1>2 DEF Path, IsSequence
<1> QED
  BY <1>3 DEF w

LEMMA PathThree ==
  ASSUME NEW by, NEW s, NEW a, NEW b, NEW c,
         Good(a), Leads(by, s, a), Good(b), Leads(by, a, b), Good(c), Leads(by, b, c)
  PROVE  Path(by, s, <<a, b, c>>, c)
<1> DEFINE w == <<a, b, c>>
<1>1. w \in Seq({a, b, c}) /\ Len(w) = 3 /\ w[1] = a /\ w[2] = b /\ w[3] = c
  OBVIOUS
<1> HIDE DEF w
<1>2. \A i \in 1..Len(w) : Good(w[i]) /\ Leads(by, IF i = 1 THEN s ELSE w[i - 1], w[i])
  BY <1>1
<1>3. Path(by, s, w, c)
  BY <1>1, <1>2 DEF Path, IsSequence
<1> QED
  BY <1>3 DEF w

LEMMA PathJoin ==
  ASSUME NEW by, NEW s, NEW v, NEW t, NEW w, NEW u, Path(by, s, v, t), Path(by, t, w, u)
  PROVE  Path(by, s, v \o w, u)
<1> DEFINE both == v \o w
<1>1. PICK S : v \in Seq(S)
  BY DEF Path, IsSequence
<1>2. PICK T : w \in Seq(T)
  BY DEF Path, IsSequence
<1>3. /\ Len(v) \in Nat /\ Len(w) \in Nat /\ both \in Seq(S \cup T)
      /\ Len(both) = Len(v) + Len(w)
      /\ \A i \in 1..Len(both) : both[i] = IF i <= Len(v) THEN v[i] ELSE w[i - Len(v)]
  <2>1. v \in Seq(S \cup T) /\ w \in Seq(S \cup T)
    BY <1>1, <1>2
  <2> QED
    BY <2>1, ConcatProperties
<1> HIDE DEF both
<1>4. t = IF Len(v) = 0 THEN s ELSE v[Len(v)]
  BY DEF Path
<1>5. ASSUME NEW i \in 1..Len(both)
      PROVE  Good(both[i]) /\ Leads(by, IF i = 1 THEN s ELSE both[i - 1], both[i])
  <2>1. CASE i <= Len(v)
    <3>1. i \in 1..Len(v) /\ both[i] = v[i]
      BY <1>3, <2>1
    <3>2. i # 1 => both[i - 1] = v[i - 1]
      <4> SUFFICES ASSUME i # 1 PROVE both[i - 1] = v[i - 1]
        OBVIOUS
      <4>1. i - 1 \in 1..Len(both) /\ i - 1 <= Len(v)
        BY <1>3, <2>1
      <4> QED
        BY <1>3, <4>1
    <3>3. Good(v[i]) /\ Leads(by, IF i = 1 THEN s ELSE v[i - 1], v[i])
      BY <3>1 DEF Path
    <3> QED
      BY <3>1, <3>2, <3>3
  <2>2. CASE i > Len(v)
    <3> DEFINE j == i - Len(v)
    <3>1. j \in 1..Len(w) /\ both[i] = w[j]
      BY <1>3, <2>2
    <3>2. Good(w[j]) /\ Leads(by, IF j = 1 THEN t ELSE w[j - 1], w[j])
      BY <3>1 DEF Path
    <3>3. (IF i = 1 THEN s ELSE both[i - 1]) = IF j = 1 THEN t ELSE w[j - 1]
      <4>1. CASE i = 1
        BY <1>3, <1>4, <2>2, <4>1
      <4>2. CASE i # 1
        <5>1. i - 1 \in 1..Len(both)
          BY <4>2, <1>3
        <5>2. both[i - 1] = IF i - 1 <= Len(v) THEN v[i - 1] ELSE w[i - 1 - Len(v)]
          BY <1>3, <5>1
        <5>3. CASE j = 1
          BY <1>3, <1>4, <4>2, <5>2, <5>3
        <5>4. CASE j # 1
          <6>1. ~(i - 1 <= Len(v)) /\ i - 1 - Len(v) = j - 1
            BY <1>3, <2>2, <5>4
          <6> QED
            BY <4>2, <5>2, <5>4, <6>1
        <5> QED
          BY <5>3, <5>4
      <4> QED
        BY <4>1, <4>2
    <3> QED
      BY <3>1, <3>2, <3>3
  <2> QED
    BY <1>3, <2>1, <2>2
<1>6. u = IF Len(both) = 0 THEN s ELSE both[Len(both)]
  <2>1. u = IF Len(w) = 0 THEN t ELSE w[Len(w)]
    BY DEF Path
  <2>2. CASE Len(w) = 0
    <3>1. Len(v) # 0 => both[Len(both)] = v[Len(v)]
      BY <1>3, <2>2
    <3> QED
      BY <1>3, <1>4, <2>1, <2>2, <3>1
  <2>3. CASE Len(w) # 0
    <3>1. Len(both) \in 1..Len(both) /\ ~(Len(both) <= Len(v)) /\ Len(both) - Len(v) = Len(w)
      BY <1>3, <2>3
    <3> QED
      BY <1>3, <2>1, <2>3, <3>1
  <2> QED
    BY <2>2, <2>3
<1>7. Path(by, s, both, u)
  BY <1>3, <1>5, <1>6 DEF Path, IsSequence
<1> QED
  BY <1>7 DEF both

LEMMA PathHead ==
  ASSUME NEW by, NEW s, NEW w, NEW t, Path(by, s, w, t), w # <<>>
  PROVE  Good(Head(w)) /\ Leads(by, s, Head(w)) /\ Path(by, Head(w), Tail(w), t)
<1>1. PICK S : w \in Seq(S)
  BY DEF Path, IsSequence
<1>2. /\ Len(w) \in Nat \ {0} /\ Head(w) = w[1]
      /\ Tail(w) \in Seq(S) /\ Len(Tail(w)) = Len(w) - 1
      /\ \A i \in 1..Len(Tail(w)) : Tail(w)[i] = w[i + 1]
  BY <1>1, EmptySeq, HeadTailProperties
<1>3. Good(w[1]) /\ Leads(by, s, w[1])
  BY <1>2 DEF Path
<1> DEFINE rest == Tail(w)
<1>4. /\ Len(rest) = Len(w) - 1 /\ rest \in Seq(S)
      /\ \A i \in 1..Len(rest) : rest[i] = w[i + 1]
  BY <1>2
<1> HIDE DEF rest
<1>5. ASSUME NEW i \in 1..Len(rest)
      PROVE  Good(rest[i]) /\ Leads(by, IF i = 1 THEN w[1] ELSE rest[i - 1], rest[i])
  <2>1. i + 1 \in 1..Len(w) /\ i + 1 # 1 /\ rest[i] = w[i + 1]
    BY <1>2, <1>4
  <2>2. (IF i = 1 THEN w[1] ELSE rest[i - 1]) = w[i]
    BY <1>2, <1>4
  <2>3. Good(w[i + 1]) /\ Leads(by, w[i], w[i + 1])
    <3>1. Good(w[i + 1]) /\ Leads(by, IF i + 1 = 1 THEN s ELSE w[i + 1 - 1], w[i + 1])
      BY <2>1 DEF Path
    <3>2. i + 1 - 1 = i
      OBVIOUS
    <3> QED
      BY <2>1, <3>1, <3>2
  <2> QED
    BY <2>1, <2>2, <2>3
<1>6. t = IF Len(rest) = 0 THEN w[1] ELSE rest[Len(rest)]
  <2>1. t = w[Len(w)]
    BY <1>2 DEF Path
  <2> QED
    BY <1>2, <1>4, <2>1
<1>7. Path(by, w[1], rest, t)
  BY <1>4, <1>5, <1>6 DEF Path, IsSequence
<1> QED
  BY <1>2, <1>3, <1>7 DEF rest

-----------------------------------------------------------------------------
(* What a write has to show. *)

LEMMA Latest ==
  ASSUME NEW p, InOrder(p)
  PROVE  /\ LatestCompleted(p) \in Nat
         /\ p.completed = <<>> => LatestCompleted(p) = 0
         /\ p.completed # <<>> => LatestCompleted(p) \in ToSet(p.completed)
         /\ \A ch \in ToSet(p.completed) : ch \in Numbers /\ ch <= LatestCompleted(p)
<1> DEFINE C == ToSet(p.completed)
           all == {0} \cup C
<1>1. C \subseteq Numbers /\ MaxChapter \in Nat
  BY BoundsAssumption DEF InOrder, ToSet
<1>2. all \subseteq Nat /\ all # {} /\ \A n \in all : n <= MaxChapter
  BY <1>1 DEF Numbers
<1>3. Max(all) \in all /\ \A n \in all : n <= Max(all)
  <2> HIDE DEF all
  <2> QED
    BY <1>1, <1>2, MaxOfBounded
<1>4. p.completed = <<>> => C = {}
  BY DEF ToSet
<1>5. p.completed # <<>> => C # {}
  <2> SUFFICES ASSUME p.completed # <<>> PROVE C # {}
    OBVIOUS
  <2>1. p.completed \in Seq(Numbers) /\ Len(p.completed) \in Nat \ {0}
    BY EmptySeq DEF InOrder
  <2>2. 1 \in DOMAIN p.completed
    BY <2>1
  <2> QED
    BY <2>2 DEF ToSet
<1>6. LatestCompleted(p) = Max(all)
  BY DEF LatestCompleted
<1> HIDE DEF C
<1>7. C # {} => Max(all) # 0
  <2> SUFFICES ASSUME NEW ch \in C PROVE Max(all) # 0
    OBVIOUS
  <2>1. ch >= 1 /\ ch \in Int /\ ch <= Max(all)
    BY <1>1, <1>3 DEF Numbers
  <2> QED
    BY <2>1
<1> QED
  BY <1>1, <1>2, <1>3, <1>4, <1>5, <1>6, <1>7 DEF C

\* An outline that stays settles everything.
LEMMA SameOutline ==
  ASSUME NEW s, NEW t, t.volumes = s.volumes,
         s.progress.completed # <<>> => (t.progress.layered <=> s.progress.layered)
  PROVE  Settles(s, t)
BY DEF Settles, SettledAt

\* While no chapter is committed none is unsettled.
LEMMA NothingToSettle ==
  ASSUME NEW s, NEW t, Good(s), s.progress.completed = <<>>
  PROVE  Settles(s, t)
<1>1. LatestCompleted(s.progress) = 0
  BY Latest DEF Good
<1>2. ASSUME NEW x PROVE ~(StartChapter(s.volumes, x) <= 0)
  <2>1. StartChapter(s.volumes, x) \in Nat \ {0}
    BY ArcStarts DEF Good, Laid
  <2> QED
    BY <2>1
<1> QED
  BY <1>1, <1>2 DEF Settles

\* A write that leaves progress and layered outline as they are.
LEMMA OtherFiles ==
  ASSUME NEW by, NEW s, NEW t, Good(s), DOMAIN t = DOMAIN s, t.progress = s.progress,
         t.volumes = s.volumes, t.outlined = s.outlined,
         s.files \subseteq t.files, s.finals \subseteq t.finals
  PROVE  Good(t) /\ Leads(by, s, t)
<1>1. Good(t)
  BY DEF Good, Shape, HasFinals, Founded, HasOutline, Laid
<1>2. Turns(by, s, t)
  BY DEF Turns, Rests, SamePages
<1>3. Settles(s, t)
  BY SameOutline
<1> QED
  BY <1>1, <1>2, <1>3 DEF Leads

LEMMA LeadsSelf ==
  ASSUME NEW by, NEW s
  PROVE  Leads(by, s, s)
<1>1. Turns(by, s, s)
  BY DEF Turns, Rests, SamePages
<1>2. Settles(s, s)
  BY SameOutline
<1> QED
  BY <1>1, <1>2 DEF Leads

\* advancePhase, but into writing only when the foundation is whole.
LEMMA AdvanceKeepsGood ==
  ASSUME NEW by, NEW s, NEW to \in {"premise", "outline", "writing"}, Good(s),
         to = "writing" => Artifacts \subseteq s.files /\ HasOutline(s)
  PROVE  LET t == AdvancePhase(s, to)
         IN  Good(t) /\ Leads(by, s, t) /\ t.volumes = s.volumes /\ SamePages(s.progress, t.progress)
<1> DEFINE t == AdvancePhase(s, to)
<1> SUFFICES Good(t) /\ Leads(by, s, t) /\ t.volumes = s.volumes /\ SamePages(s.progress, t.progress)
  OBVIOUS
<1>1. CASE t = s
  BY <1>1, LeadsSelf DEF SamePages
<1>2. CASE t # s
  <2>1. t = [s EXCEPT !.progress = [s.progress EXCEPT !.phase = to]]
        /\ ~CanTransitionPhase(to, s.progress.phase)
    BY <1>2 DEF AdvancePhase
  <2>2. s.progress.phase \in {"init", "premise", "outline", "writing", "complete"}
    BY DEF Good, InOrder, Phases, PhaseRank
  <2>3. s.progress.phase \in Planning
    BY <2>1, <2>2 DEF CanTransitionPhase, PhaseRank, Planning
  <2> HIDE DEF t
  <2>4. /\ DOMAIN t = DOMAIN s /\ DOMAIN t.progress = DOMAIN s.progress
        /\ t.progress.phase = to /\ SamePages(s.progress, t.progress)
        /\ t.progress.flow = s.progress.flow /\ t.progress.layered = s.progress.layered
        /\ t.progress.total = s.progress.total
        /\ t.volumes = s.volumes /\ t.outlined = s.outlined /\ t.files = s.files
        /\ t.finals = s.finals
    BY <2>1 DEF Good, Shape, SamePages
  <2>5. Good(t)
    <3>1. InOrder(t.progress)
      BY <2>3, <2>4 DEF Good, InOrder, SamePages, Planning, Phases, PhaseRank
    <3>2. Shape(t) /\ HasFinals(t) /\ Founded(t) /\ Laid(t)
      BY <2>4 DEF Good, Shape, HasFinals, Founded, Laid, HasOutline, SamePages
    <3> QED
      BY <3>1, <3>2 DEF Good
  <2>6. Turns(by, s, t)
    BY <2>3, <2>4 DEF Turns, Rests, Opens, Planning
  <2>7. Settles(s, t)
    BY <2>4, SameOutline
  <2> QED
    BY <2>4, <2>5, <2>6, <2>7 DEF Leads
<1> QED
  BY <1>1, <1>2

-----------------------------------------------------------------------------
(* Calls and their writes. *)

\* What every step of the book does.
KeepsGood == GoodInv' /\ Leads(inst.agent, store, store')

LEMMA PagesStay ==
  ASSUME NEW by, NEW s, NEW t, Good(s), Leads(by, s, t), s.progress.completed # <<>>
  PROVE  t.progress.completed # <<>>
<1> DEFINE c == s.progress.completed
<1>1. c \in Seq(Numbers)
  BY DEF Good, InOrder
<1> HIDE DEF c
<1>2. ASSUME NEW ch \in Numbers PROVE Append(c, ch) # <<>>
  <2>1. Len(Append(c, ch)) = Len(c) + 1 /\ Len(c) \in Nat
    BY <1>1, AppendProperties
  <2>2. Append(c, ch) \in Seq(Numbers)
    BY <1>1, AppendProperties
  <2>3. Len(Append(c, ch)) # 0
    BY <2>1
  <2> QED
    BY <2>2, <2>3, EmptySeq
<1> QED
  BY <1>2 DEF c, Leads, Turns, Rests, Opens, Commits, Asks, Ends, SamePages

\* A call keeps the invariant when its writes lead somewhere.
LEMMA ReplyKeepsGood ==
  ASSUME GoodInv, NEW ok, NEW w, NEW t, Path(inst.agent, store, w, t), Reply(ok, w)
  PROVE  KeepsGood
<1>1. /\ script' = w /\ store' = store /\ (pc' = "tool" <=> w # <<>>)
      /\ inst' = inst /\ next' = next
  BY DEF Reply
<1>2. Good(store)' /\ EditorHasPages'
  BY <1>1 DEF GoodInv, Good, EditorHasPages
<1>3. HasPath(inst.agent, store, script)'
  BY <1>1 DEF HasPath
<1> QED
  BY <1>1, <1>2, <1>3, LeadsSelf DEF GoodInv, KeepsGood

\* The same of a call that writes nothing.
LEMMA PlainReply ==
  ASSUME GoodInv, NEW ok, Reply(ok, <<>>)
  PROVE  KeepsGood
BY PathNone, ReplyKeepsGood

\* A write makes the head of the script real.
LEMMA WriteKeepsGood ==
  ASSUME GoodInv, WriteNext
  PROVE  KeepsGood
<1>1. PICK t : Path(inst.agent, store, script, t)
  BY DEF GoodInv, HasPath
<1>2. script # <<>>
  BY DEF GoodInv, WriteNext
<1>3. Good(Head(script)) /\ Leads(inst.agent, store, Head(script)) /\ Path(inst.agent, Head(script), Tail(script), t)
  BY <1>1, <1>2, PathHead
<1>4. /\ store' = Head(script) /\ script' = Tail(script) /\ (pc' = "tool" <=> script' # <<>>)
      /\ inst' = inst /\ next' = next
  BY DEF WriteNext
<1>5. Good(store)' /\ HasPath(inst.agent, store, script)' /\ Leads(inst.agent, store, store')
  BY <1>3, <1>4 DEF HasPath
<1>6. EditorHasPages'
  BY <1>4, <1>5, PagesStay DEF GoodInv, EditorHasPages
<1> QED
  BY <1>4, <1>5, <1>6 DEF GoodInv, KeepsGood

-----------------------------------------------------------------------------
(* The architect's tools. *)

LEMMA ScaledIsGood ==
  ASSUME GoodInv, NEW scale
  PROVE  /\ Good(Scaled(scale))
         /\ Path(inst.agent, store, IF scale = "" THEN <<>> ELSE <<Scaled(scale)>>, Scaled(scale))
         /\ Scaled(scale).progress = store.progress
         /\ Scaled(scale).volumes = store.volumes
<1> DEFINE t == Scaled(scale)
<1>1. CASE scale = ""
  <2>1. t = store
    BY <1>1 DEF Scaled
  <2> QED
    BY <1>1, <2>1, PathNone DEF GoodInv
<1>2. CASE scale # ""
  <2>1. t = [store EXCEPT !.tier = scale]
    BY <1>2 DEF Scaled
  <2>2. /\ DOMAIN t = DOMAIN store /\ t.progress = store.progress /\ t.volumes = store.volumes
        /\ t.outlined = store.outlined /\ t.files = store.files /\ t.finals = store.finals
    BY <2>1 DEF GoodInv, Good, Shape
  <2> HIDE DEF t
  <2>3. Good(t) /\ Leads(inst.agent, store, t)
    BY <2>2, OtherFiles DEF GoodInv
  <2>4. Path(inst.agent, store, <<t>>, t)
    BY <2>3, PathOne
  <2>5. Good(t) /\ Path(inst.agent, store, IF scale = "" THEN <<>> ELSE <<t>>, t)
    BY <1>2, <2>3, <2>4
  <2> QED
    BY <2>2, <2>5 DEF t
<1> QED
  BY <1>1, <1>2

LEMMA ReplyScaledKeepsGood ==
  ASSUME GoodInv, NEW scale, NEW ok, NEW w, NEW t, Path(inst.agent, Scaled(scale), w, t),
         ReplyScaled(scale, ok, w)
  PROVE  KeepsGood
<1> DEFINE before == IF scale = "" THEN <<>> ELSE <<Scaled(scale)>>
<1>1. Path(inst.agent, store, before, Scaled(scale))
  BY ScaledIsGood
<1>2. Reply(ok, before \o w)
  BY DEF ReplyScaled
<1> HIDE DEF before
<1>3. Path(inst.agent, store, before \o w, t)
  BY <1>1, PathJoin
<1> QED
  BY <1>2, <1>3, ReplyKeepsGood

LEMMA PlainReplyScaled ==
  ASSUME GoodInv, NEW scale, NEW ok, ReplyScaled(scale, ok, <<>>)
  PROVE  KeepsGood
BY PathNone, ReplyScaledKeepsGood

LEMMA SaveBookKeepsGood ==
  ASSUME GoodInv, SaveBook
  PROVE  KeepsGood
<1> DEFINE t == [store EXCEPT !.files = @ \cup {"book"}]
<1>1. Good(t) /\ Leads(inst.agent, store, t)
  BY OtherFiles DEF GoodInv, Good, Shape
<1>2. Reply(TRUE, <<t>>)
  BY DEF SaveBook
<1> HIDE DEF t
<1> QED
  BY <1>1, <1>2, PathOne, ReplyKeepsGood

\* A file more.
LEMMA FileAdded ==
  ASSUME NEW by, NEW s, Good(s), NEW file
  PROVE  LET t == [s EXCEPT !.files = @ \cup {file}]
         IN  Good(t) /\ Leads(by, s, t)
BY OtherFiles DEF Good, Shape

LEMMA SaveListKeepsGood ==
  ASSUME GoodInv, NEW scale, NEW file, SaveList(scale, file)
  PROVE  KeepsGood
<1> DEFINE s0 == Scaled(scale)
           t  == [s0 EXCEPT !.files = @ \cup {file}]
<1>1. ReplyScaled(scale, TRUE, <<t>>)
  BY DEF SaveList
<1>2. Good(s0)
  BY ScaledIsGood
<1> HIDE DEF s0
<1>3. Good(t) /\ Leads(inst.agent, s0, t)
  BY <1>2, FileAdded
<1> HIDE DEF t
<1>4. Path(inst.agent, s0, <<t>>, t)
  BY <1>3, PathOne
<1> QED
  BY <1>1, <1>4, ReplyScaledKeepsGood DEF s0

LEMMA SavePremiseKeepsGood ==
  ASSUME GoodInv, NEW scale, SavePremise(scale)
  PROVE  KeepsGood
<1> DEFINE s0 == Scaled(scale)
           s1 == [s0 EXCEPT !.files = @ \cup {"premise"}]
           s2 == AdvancePhase(s1, "premise")
<1>1. ReplyScaled(scale, TRUE, <<s1, s2>>)
  BY DEF SavePremise
<1>2. Good(s0)
  BY ScaledIsGood
<1> HIDE DEF s0
<1>3. Good(s1) /\ Leads(inst.agent, s0, s1)
  BY <1>2, FileAdded
<1> HIDE DEF s1
<1>4. Good(s2) /\ Leads(inst.agent, s1, s2)
  BY <1>3, AdvanceKeepsGood
<1> HIDE DEF s2
<1>5. Path(inst.agent, s0, <<s1, s2>>, s2)
  BY <1>3, <1>4, PathTwo
<1> QED
  BY <1>1, <1>5, ReplyScaledKeepsGood DEF s0

\* The flat outline, written while nothing is.
LEMMA FlatOutline ==
  ASSUME NEW by, NEW s, Good(s), s.progress.phase \in Planning, NEW n
  PROVE  LET t == [s EXCEPT !.outlined = n]
         IN  Good(t) /\ Leads(by, s, t) /\ t.progress = s.progress
<1> DEFINE t == [s EXCEPT !.outlined = n]
<1>1. /\ DOMAIN t = DOMAIN s /\ t.progress = s.progress /\ t.volumes = s.volumes
      /\ t.files = s.files /\ t.finals = s.finals
  BY DEF Good, Shape
<1> HIDE DEF t
<1>2. Good(t)
  BY <1>1 DEF Good, Shape, HasFinals, Founded, Laid, Planning
<1>3. Leads(by, s, t)
  BY <1>1, SameOutline DEF Leads, Turns, Rests, SamePages
<1> QED
  BY <1>1, <1>2, <1>3 DEF t

LEMMA FlatProgress ==
  ASSUME NEW by, NEW s, Good(s), s.progress.phase \in Planning, NEW n \in Nat
  PROVE  LET t == [s EXCEPT !.progress.total = n, !.progress.layered = FALSE]
         IN  Good(t) /\ Leads(by, s, t)
<1> DEFINE t == [s EXCEPT !.progress.total = n, !.progress.layered = FALSE]
<1>1. /\ DOMAIN t = DOMAIN s /\ t.volumes = s.volumes /\ t.outlined = s.outlined
      /\ t.files = s.files /\ t.finals = s.finals
      /\ DOMAIN t.progress = DOMAIN s.progress /\ SamePages(s.progress, t.progress)
      /\ t.progress.phase = s.progress.phase /\ t.progress.flow = s.progress.flow
      /\ t.progress.layered = FALSE /\ t.progress.total = n
  BY DEF Good, Shape, SamePages
<1> HIDE DEF t
<1>2. Good(t)
  BY <1>1 DEF Good, Shape, InOrder, HasFinals, Founded, Laid, Planning, SamePages
<1>3. s.progress.completed = <<>>
  BY DEF Good, InOrder
<1>4. Leads(by, s, t)
  BY <1>1, <1>3, NothingToSettle DEF Leads, Turns, Rests
<1> QED
  BY <1>2, <1>4 DEF t

\* An outline is saved only while nothing is being written.
LEMMA SaveOutlineKeepsGood ==
  ASSUME GoodInv, NEW scale, NEW n \in FlatLengths, SaveOutline(scale, n)
  PROVE  KeepsGood
<1>1. CASE PhaseIs(store, {"writing", "complete"})
  BY <1>1, PlainReplyScaled DEF SaveOutline
<1>2. CASE ~PhaseIs(store, {"writing", "complete"})
  <2> DEFINE s0 == Scaled(scale)
             s1 == [s0 EXCEPT !.outlined = n]
             s2 == AdvancePhase(s1, "outline")
             s3 == [s2 EXCEPT !.progress.total = n, !.progress.layered = FALSE]
  <2>1. ReplyScaled(scale, TRUE, <<s1, s2, s3>>)
    BY <1>2 DEF SaveOutline
  <2>2. Good(s0) /\ s0.progress.phase \in Planning
    <3>1. Good(s0) /\ s0.progress.phase \notin {"writing", "complete"}
      BY <1>2, ScaledIsGood DEF PhaseIs
    <3> HIDE DEF s0
    <3> QED
      BY <3>1 DEF Good, InOrder, Phases, PhaseRank, Planning
  <2> HIDE DEF s0
  <2>3. Good(s1) /\ Leads(inst.agent, s0, s1) /\ s1.progress.phase \in Planning
    BY <2>2, FlatOutline
  <2> HIDE DEF s1
  <2>4. Good(s2) /\ Leads(inst.agent, s1, s2)
    BY <2>3, AdvanceKeepsGood
  <2>5. s2.progress.phase \in Planning
    BY <2>3 DEF AdvancePhase, Good, Shape, Planning
  <2> HIDE DEF s2
  <2>6. Good(s3) /\ Leads(inst.agent, s2, s3)
    <3>1. n \in Nat
      BY InputAssumption DEF Numbers
    <3> QED
      BY <2>4, <2>5, <3>1, FlatProgress
  <2> HIDE DEF s3
  <2>7. Path(inst.agent, s0, <<s1, s2, s3>>, s3)
    BY <2>3, <2>4, <2>6, PathThree
  <2> QED
    BY <2>1, <2>7, ReplyScaledKeepsGood DEF s0
<1> QED
  BY <1>1, <1>2

\* A saved capacity makes a book layered that has a layered outline.
LEMMA CapacityIsGood ==
  ASSUME NEW by, NEW s, NEW vols \in Seq(VolumeOutline), Good(s), s.volumes # <<>>,
         s.progress.completed # <<>> => s.progress.layered
  PROVE  LET t == WithCapacity(s, vols)
         IN  Good(t) /\ Leads(by, s, t)
<1> DEFINE n == EstimatedChapterCapacity(vols)
           t == [s EXCEPT !.progress.total = n, !.progress.layered = TRUE]
<1>1. WithCapacity(s, vols) = t /\ n \in Nat
  BY CapacityIsCounted DEF WithCapacity
<1> HIDE DEF n
<1>2. /\ DOMAIN t = DOMAIN s /\ t.volumes = s.volumes /\ t.outlined = s.outlined
      /\ t.files = s.files /\ t.finals = s.finals
      /\ DOMAIN t.progress = DOMAIN s.progress /\ SamePages(s.progress, t.progress)
      /\ t.progress.phase = s.progress.phase /\ t.progress.flow = s.progress.flow
      /\ t.progress.layered = TRUE /\ t.progress.total = n
  BY DEF Good, Shape, SamePages
<1> HIDE DEF t
<1>3. Good(t)
  BY <1>1, <1>2 DEF Good, Shape, InOrder, HasFinals, Founded, HasOutline, Laid, SamePages
<1>4. Settles(s, t)
  BY <1>2, SameOutline
<1>5. Turns(by, s, t)
  BY <1>2 DEF Turns, Rests
<1> QED
  BY <1>1, <1>3, <1>4, <1>5 DEF Leads

\* The two writes of saveLayeredViews.
LEMMA ViewsAreGood ==
  ASSUME NEW by, NEW s, NEW vols \in Seq(VolumeOutline), Good(s), OpensExpanded(vols),
         Settles(s, [s EXCEPT !.volumes = RepairMissingLayeredIndexes(vols)])
  PROVE  LET views == LayeredViews(s, vols)
         IN  /\ Path(by, s, views, views[2]) /\ Good(views[2])
             /\ views[2].volumes # <<>> /\ views[2].progress = s.progress
<1> DEFINE repaired == RepairMissingLayeredIndexes(vols)
           n  == FlattenedLength(repaired)
           s1 == [s EXCEPT !.volumes = repaired]
           s2 == [s1 EXCEPT !.outlined = n]
<1>1. LayeredViews(s, vols) = <<s1, s2>> /\ LayeredViews(s, vols)[2] = s2
  BY DEF LayeredViews
<1>2. repaired \in Seq(VolumeOutline) /\ Numbered(repaired) /\ OpensExpanded(repaired)
  BY RepairNumbers, RepairOpens
<1>3. repaired # <<>>
  BY <1>2 DEF OpensExpanded
<1>4. Settles(s, s1)
  OBVIOUS
<1> HIDE DEF repaired, n
<1>5. /\ DOMAIN s1 = DOMAIN s /\ s1.progress = s.progress /\ s1.volumes = repaired
      /\ s1.files = s.files /\ s1.finals = s.finals
  BY DEF Good, Shape
<1> HIDE DEF s1
<1>6. Good(s1)
  BY <1>2, <1>3, <1>5 DEF Good, Shape, HasFinals, Founded, HasOutline, Laid
<1>7. Leads(by, s, s1)
  BY <1>4, <1>5 DEF Leads, Turns, Rests, SamePages
<1>8. /\ DOMAIN s2 = DOMAIN s1 /\ s2.progress = s1.progress /\ s2.volumes = s1.volumes
      /\ s2.files = s1.files /\ s2.finals = s1.finals
  BY <1>6 DEF Good, Shape
<1> HIDE DEF s2
<1>9. Good(s2)
  BY <1>3, <1>5, <1>6, <1>8 DEF Good, Shape, HasFinals, Founded, HasOutline, Laid
<1>10. Leads(by, s1, s2)
  BY <1>8, SameOutline DEF Leads, Turns, Rests, SamePages
<1>11. Path(by, s, <<s1, s2>>, s2)
  BY <1>6, <1>7, <1>9, <1>10, PathTwo
<1> QED
  BY <1>1, <1>3, <1>5, <1>8, <1>9, <1>11

\* And the capacity its callers save last.
LEMMA LayeredWrites ==
  ASSUME NEW by, NEW s, NEW vols \in Seq(VolumeOutline), Good(s), OpensExpanded(vols),
         Settles(s, [s EXCEPT !.volumes = RepairMissingLayeredIndexes(vols)]),
         s.progress.layered
  PROVE  LET views == LayeredViews(s, vols)
             t     == WithCapacity(views[2], vols)
         IN  Path(by, s, Append(views, t), t)
<1> DEFINE views == LayeredViews(s, vols)
           s2 == views[2]
           t  == WithCapacity(s2, vols)
<1>1. Path(by, s, views, s2) /\ Good(s2) /\ s2.volumes # <<>> /\ s2.progress = s.progress
  BY ViewsAreGood
<1> HIDE DEF views
<1>2. Good(t) /\ Leads(by, s2, t)
  BY <1>1, CapacityIsGood
<1> HIDE DEF t
<1>3. Path(by, s, Append(views, t), t)
  BY <1>1, <1>2, PathMore
<1> QED
  BY <1>3 DEF views, t

LEMMA SaveLayeredOutlineKeepsGood ==
  ASSUME GoodInv, NEW scale, NEW vols \in LayeredPlans, SaveLayeredOutline(scale, vols)
  PROVE  KeepsGood
<1> DEFINE refused == \/ PhaseIs(store, {"writing", "complete"})
                      \/ vols = <<>> \/ vols[1].arcs = <<>> \/ ~IsArcExpanded(vols[1].arcs[1])
<1>1. CASE refused
  BY <1>1, PlainReplyScaled DEF SaveLayeredOutline
<1>2. CASE ~refused
  <2> DEFINE s0 == Scaled(scale)
             views == LayeredViews(s0, vols)
             s2 == views[2]
             s3 == AdvancePhase(s2, "outline")
             s4 == WithCapacity(s3, vols)
  <2>1. ReplyScaled(scale, TRUE, views \o <<s3, s4>>)
    BY <1>2 DEF SaveLayeredOutline
  <2>2. vols \in Seq(VolumeOutline) /\ OpensExpanded(vols)
    BY <1>2, InputAssumption DEF OpensExpanded
  <2>3. Good(s0) /\ s0.progress.completed = <<>>
    <3>1. Good(s0) /\ s0.progress.phase \notin {"writing", "complete"}
      BY <1>2, ScaledIsGood DEF PhaseIs
    <3> HIDE DEF s0
    <3> QED
      BY <3>1 DEF Good, InOrder, Phases, PhaseRank, Planning
  <2> HIDE DEF s0
  <2>4. Path(inst.agent, s0, views, s2) /\ Good(s2) /\ s2.volumes # <<>> /\ s2.progress = s0.progress
    BY <2>2, <2>3, NothingToSettle, ViewsAreGood
  <2> HIDE DEF views
  <2>5. /\ Good(s3) /\ Leads(inst.agent, s2, s3) /\ s3.volumes # <<>>
        /\ s3.progress.completed = <<>>
    BY <2>3, <2>4, AdvanceKeepsGood DEF SamePages
  <2> HIDE DEF s3
  <2>6. Good(s4) /\ Leads(inst.agent, s3, s4)
    BY <2>2, <2>5, CapacityIsGood
  <2> HIDE DEF s4
  <2>7. Path(inst.agent, s2, <<s3, s4>>, s4)
    BY <2>5, <2>6, PathTwo
  <2>8. Path(inst.agent, s0, views \o <<s3, s4>>, s4)
    BY <2>4, <2>7, PathJoin
  <2> QED
    BY <2>1, <2>8, ReplyScaledKeepsGood DEF s0
<1> QED
  BY <1>1, <1>2

LEMMA AppendVolumeKeepsGood ==
  ASSUME GoodInv, NEW scale, NEW raw \in NewVolumes, AppendVolume(scale, raw)
  PROVE  KeepsGood
<1> DEFINE s0 == Scaled(scale)
           volume == ParseVolumeOutline(raw, Len(s0.volumes) + 1)
           appended == AppendVolumePlan(s0.volumes, volume)
           vols == appended.vols
           views == LayeredViews(s0, vols)
           t == WithCapacity(views[2], vols)
<1>1. \/ ReplyScaled(scale, FALSE, <<>>)
      \/ appended.ok /\ s0.progress.layered /\ ReplyScaled(scale, TRUE, Append(views, t))
  BY DEF AppendVolume
<1>2. Good(s0) /\ volume \in VolumeOutline
  <2>1. Good(s0) /\ s0.volumes \in Seq(VolumeOutline) /\ raw \in VolumeOutline
    BY ScaledIsGood, InputAssumption DEF Good, Laid
  <2> HIDE DEF s0
  <2> QED
    BY <2>1, ParsedVolume
<1> HIDE DEF s0, volume
<1>3. ASSUME appended.ok, s0.progress.layered
      PROVE  Path(inst.agent, s0, Append(views, t), t)
  <2>1. s0.volumes \in Seq(VolumeOutline) /\ Numbered(s0.volumes)
        /\ (s0.volumes # <<>> => OpensExpanded(s0.volumes))
    BY <1>2 DEF Good, Laid
  <2>2. /\ vols \in Seq(VolumeOutline)
        /\ \A x \in Arcs(s0.volumes) : SettledAt(s0.volumes, RepairMissingLayeredIndexes(vols), x)
    BY <1>2, <2>1, AppendSettles
  <2>3. OpensExpanded(vols)
    BY <1>2, <1>3, <2>1, AppendOpens
  <2> HIDE DEF appended
  <2> DEFINE s1 == [s0 EXCEPT !.volumes = RepairMissingLayeredIndexes(vols)]
  <2>4. s1.volumes = RepairMissingLayeredIndexes(vols) /\ s1.progress = s0.progress
    BY <1>2 DEF Good, Shape
  <2>5. Settles(s0, s1)
    <3> HIDE DEF s1
    <3> QED
      BY <2>2, <2>4 DEF Settles, SettledAt
  <2> HIDE DEF vols
  <2> QED
    BY <1>2, <1>3, <2>2, <2>3, <2>5, LayeredWrites
<1> HIDE DEF views, t, appended
<1> QED
  BY <1>1, <1>3, PlainReplyScaled, ReplyScaledKeepsGood DEF s0

\* expand_next_arc loses no arc that has chapters, and where the indexes of the
\* arcs tell them apart it grows the outline behind what is written.
LEMMA ExpansionSettles ==
  ASSUME NEW s, Good(s), s.progress.layered, NEW size \in Nat, NEW plan \in STRING
  PROVE  LET vols == ExpandArcAt(s.volumes, LatestCompleted(s.progress), size, plan).vols
         IN  /\ vols \in Seq(VolumeOutline) /\ OpensExpanded(vols)
             /\ Settles(s, [s EXCEPT !.volumes = RepairMissingLayeredIndexes(vols)])
<1> DEFINE last == LatestCompleted(s.progress)
           b    == CheckArcBoundary(s.volumes, last)
           vols == ExpandArcAt(s.volumes, last, size, plan).vols
           new  == RepairMissingLayeredIndexes(vols)
<1>1. s.volumes \in Seq(VolumeOutline) /\ Numbered(s.volumes) /\ OpensExpanded(s.volumes)
  BY DEF Good, Laid
<1>2. last \in Nat
  BY Latest DEF Good
<1> HIDE DEF last
<1>3. /\ vols \in Seq(VolumeOutline) /\ Numbered(vols)
      /\ \/ vols = s.volumes
         \/ \E z \in FindArc(s.volumes, b.nextVolume, b.nextArc) :
              /\ b.isArcEnd /\ b.nextArc > 0 /\ ~IsArcExpanded(ArcAt(s.volumes, z))
              /\ OnlyAt(s.volumes, vols, z)
  BY <1>1, ExpandReplaces
<1>4. OpensExpanded(vols)
  BY <1>1, ExpansionOpens
<1>5. new = vols
  BY <1>3, RepairOfNumbered
<1>6. \A x \in Arcs(s.volumes) : IsArcExpanded(ArcAt(s.volumes, x)) =>
        x \in Arcs(new) /\ ArcAt(new, x) = ArcAt(s.volumes, x)
  BY <1>3, <1>5 DEF OnlyAt
<1>7. IndexesTell(s.volumes) =>
        \A x \in Arcs(s.volumes) :
          IsArcExpanded(ArcAt(s.volumes, x)) /\ StartChapter(s.volumes, x) <= last =>
            SettledAt(s.volumes, new, x)
  BY <1>1, <1>2, ExpansionIsAhead
<1> HIDE DEF new
<1> DEFINE s1 == [s EXCEPT !.volumes = new]
<1>8. s1.volumes = new /\ s1.progress = s.progress
  BY DEF Good, Shape
<1> HIDE DEF s1
<1>9. Settles(s, s1)
  BY <1>6, <1>7, <1>8 DEF Settles, last
<1> QED
  BY <1>3, <1>4, <1>9 DEF s1, new, last

LEMMA ExpandNextArcKeepsGood ==
  ASSUME GoodInv, NEW e \in Expansions, ExpandNextArc(e)
  PROVE  KeepsGood
<1> DEFINE vols == ExpandArcAt(store.volumes, LatestCompleted(store.progress), e.size, e.plan).vols
           views == LayeredViews(store, vols)
           t == WithCapacity(views[2], vols)
<1>1. \/ Reply(FALSE, <<>>)
      \/ store.progress.layered /\ Reply(TRUE, Append(views, t))
  BY DEF ExpandNextArc
<1>2. Good(store) /\ e.size \in Nat /\ e.plan \in STRING
  BY InputAssumption DEF GoodInv
<1>3. ASSUME store.progress.layered
      PROVE  Path(inst.agent, store, Append(views, t), t)
  <2>1. /\ vols \in Seq(VolumeOutline) /\ OpensExpanded(vols)
        /\ Settles(store, [store EXCEPT !.volumes = RepairMissingLayeredIndexes(vols)])
    BY <1>2, <1>3, ExpansionSettles
  <2> HIDE DEF vols
  <2> QED
    BY <1>2, <1>3, <2>1, LayeredWrites
<1> HIDE DEF views, t
<1> QED
  BY <1>1, <1>3, PlainReply, ReplyKeepsGood

\* Writing is opened only by an audit of a foundation that lacks nothing.
LEMMA AuditFoundationKeepsGood ==
  ASSUME GoodInv, NEW current, NEW ready, AuditFoundation(current, ready)
  PROVE  KeepsGood
<1> DEFINE t == AdvancePhase(store, "writing")
<1>1. \/ \E ok : Reply(ok, <<>>)
      \/ /\ FoundationMissing(store) \subseteq {"foundation_audit"}
         /\ Reply(TRUE, <<t>>)
  BY DEF AuditFoundation
<1>2. ASSUME FoundationMissing(store) \subseteq {"foundation_audit"}
      PROVE  Good(t) /\ Leads(inst.agent, store, t)
  <2>1. FoundationGaps(store) \subseteq Artifacts \cup {"outline"}
    BY DEF FoundationGaps
  <2>2. "foundation_audit" \notin Artifacts \cup {"outline"}
    BY DEF Artifacts
  <2>3. FoundationGaps(store) = {}
    BY <1>2, <2>1, <2>2 DEF FoundationMissing
  <2>4. Artifacts \subseteq store.files /\ OutlineRequirementSatisfied(store)
    BY <2>3 DEF FoundationGaps
  <2>5. HasOutline(store)
    BY <2>4 DEF OutlineRequirementSatisfied, HasOutline
  <2> QED
    BY <2>4, <2>5, AdvanceKeepsGood DEF GoodInv
<1> HIDE DEF t
<1> QED
  BY <1>1, <1>2, PathOne, PlainReply, ReplyKeepsGood

\* What a write may do depends on the progress record and the outline alone.
LEMMA LeadsFromSame ==
  ASSUME NEW by, NEW s, NEW r, NEW t, r.progress = s.progress, r.volumes = s.volumes, Leads(by, r, t)
  PROVE  Leads(by, s, t)
BY DEF Leads, Turns, Settles, OutlinedChapters

\* A book is completed only with nothing queued, something written and nothing
\* outlined unwritten.
LEMMA CompletedIsGood ==
  ASSUME NEW by, NEW s, Good(s), MayComplete(s.progress, OutlinedChapters(s))
  PROVE  Good(Completed(s)) /\ Leads(by, s, Completed(s))
<1> DEFINE t == Completed(s)
<1>1. /\ DOMAIN t = DOMAIN s /\ t.volumes = s.volumes /\ t.outlined = s.outlined
      /\ t.files = s.files /\ t.finals = s.finals
      /\ DOMAIN t.progress = DOMAIN s.progress /\ SamePages(s.progress, t.progress)
      /\ t.progress.phase = "complete" /\ t.progress.flow = s.progress.flow
      /\ t.progress.layered = s.progress.layered /\ t.progress.total = s.progress.total
  BY DEF Completed, Good, Shape, SamePages
<1> HIDE DEF t
<1>2. s.progress.phase = "writing" /\ s.progress.pending = <<>> /\ s.progress.completed # <<>>
      /\ NextChapter(s.progress) > OutlinedChapters(s)
  BY DEF MayComplete
<1>3. InOrder(t.progress)
  BY <1>1, <1>2 DEF Good, InOrder, SamePages, Planning, Phases, PhaseRank
<1>4. Shape(t) /\ HasFinals(t) /\ Founded(t) /\ Laid(t)
  BY <1>1, <1>2 DEF Good, Shape, HasFinals, Founded, HasOutline, Laid, SamePages
<1>5. Turns(by, s, t)
  BY <1>1, <1>2 DEF Turns, Ends
<1>6. Settles(s, t)
  BY <1>1, SameOutline
<1> QED
  BY <1>3, <1>4, <1>5, <1>6 DEF Good, Leads, t

LEMMA CompleteBookKeepsGood ==
  ASSUME GoodInv, NEW scale, CompleteBook(scale)
  PROVE  KeepsGood
<1> DEFINE s0 == Scaled(scale)
<1>1. \/ ReplyScaled(scale, FALSE, <<>>)
      \/ /\ MayComplete(s0.progress, OutlinedChapters(s0))
         /\ ReplyScaled(scale, TRUE, <<Completed(s0)>>)
  BY DEF CompleteBook
<1>2. Good(s0)
  BY ScaledIsGood
<1> HIDE DEF s0
<1>3. MayComplete(s0.progress, OutlinedChapters(s0)) =>
        Path(inst.agent, s0, <<Completed(s0)>>, Completed(s0))
  BY <1>2, CompletedIsGood, PathOne
<1> QED
  BY <1>1, <1>3, PlainReplyScaled, ReplyScaledKeepsGood DEF s0

-----------------------------------------------------------------------------
(* The writer's and the editor's tools. *)

LEMMA DraftChapterKeepsGood ==
  ASSUME GoodInv, NEW ch, DraftChapter(ch)
  PROVE  KeepsGood
<1> DEFINE t == [store EXCEPT !.drafts = @ \cup {ch}]
<1>1. Good(t) /\ Leads(inst.agent, store, t)
  BY OtherFiles DEF GoodInv, Good, Shape
<1>2. Reply(TRUE, <<t>>)
  BY DEF DraftChapter
<1> HIDE DEF t
<1> QED
  BY <1>1, <1>2, PathOne, ReplyKeepsGood

\* The record a commit saves is in order: the flow goes with the last chapter queued.
LEMMA CommittedInOrder ==
  ASSUME NEW p, InOrder(p), p.phase = "writing",
         DOMAIN p = {"phase", "flow", "current", "total", "completed", "pending", "layered"},
         NEW ch \in Numbers, ch = ExpectedChapter(p), ch \notin ToSet(p.completed)
  PROVE  LET q == CommittedProgress(p, ch)
         IN  InOrder(q) /\ Commits("writer", p, q) /\ DOMAIN q = DOMAIN p /\ q.layered = p.layered
<1> DEFINE q == CommittedProgress(p, ch)
           left == Without(p.pending, ch)
           cursor == AdvanceCursor(p, ch + 1)
           more == Append(p.completed, ch)
<1>1. q = [p EXCEPT !.phase = "writing", !.completed = more, !.pending = left,
                    !.current = cursor, !.flow = IF left # <<>> THEN p.flow ELSE "writing"]
  BY DEF CommittedProgress
<1>2. left \in Seq(Numbers) /\ more \in Seq(Numbers)
  BY WithoutDrops, AppendProperties DEF InOrder
<1>3. left # <<>> => p.pending # <<>>
  BY WithoutOfEmpty
<1> HIDE DEF left, cursor, more
<1>4. /\ DOMAIN q = DOMAIN p /\ q.phase = "writing" /\ q.completed = more /\ q.pending = left
      /\ q.layered = p.layered /\ q.total = p.total /\ q.flow = IF left # <<>> THEN p.flow ELSE "writing"
  BY <1>1
<1> HIDE DEF q
<1>5. InOrder(q)
  BY <1>2, <1>3, <1>4 DEF InOrder, Planning, Phases, PhaseRank
<1>6. Commits("writer", p, q)
  BY <1>4 DEF Commits, left, more
<1> QED
  BY <1>4, <1>5, <1>6 DEF q

\* A record saved over another of the same outline.
LEMMA ProgressSaved ==
  ASSUME NEW s, NEW q, Good(s), InOrder(q), DOMAIN q = DOMAIN s.progress,
         ToSet(q.completed) \subseteq s.finals, q.layered = s.progress.layered,
         q.phase \in {"writing", "complete"} => s.progress.phase \in {"writing", "complete"}
  PROVE  LET t == [s EXCEPT !.progress = q]
         IN  Good(t) /\ Settles(s, t) /\ t.progress = q
<1> DEFINE t == [s EXCEPT !.progress = q]
<1>1. /\ DOMAIN t = DOMAIN s /\ t.progress = q /\ t.volumes = s.volumes
      /\ t.files = s.files /\ t.finals = s.finals /\ t.outlined = s.outlined
  BY DEF Good, Shape
<1> HIDE DEF t
<1>2. Good(t)
  BY <1>1 DEF Good, Shape, HasFinals, Founded, HasOutline, Laid
<1>3. Settles(s, t)
  BY <1>1, SameOutline
<1> QED
  BY <1>1, <1>2, <1>3 DEF t

\* commit_chapter: the text is on disk before the progress record counts it.
LEMMA CommitWritesAreGood ==
  ASSUME NEW s, NEW ch \in Numbers, Good(s), ~CommitRefused(s, ch),
         ch \notin ToSet(s.progress.completed)
  PROVE  \E t : Path("writer", s, CommitWrites(s, ch), t)
<1> DEFINE s1 == [s EXCEPT !.finals = @ \cup {ch}]
           q  == CommittedProgress(s1.progress, ch)
           s2 == [s1 EXCEPT !.progress = q]
           s3 == [s2 EXCEPT !.summaries = @ \cup {ch}]
<1>1. CommitWrites(s, ch) = <<s1, s2, s3>>
  BY DEF CommitWrites
<1>2. s.progress.phase = "writing" /\ ch = ExpectedChapter(s.progress)
  BY DEF CommitRefused
<1>3. Good(s1) /\ Leads("writer", s, s1) /\ s1.progress = s.progress /\ s1.finals = s.finals \cup {ch}
  BY OtherFiles DEF Good, Shape
<1> HIDE DEF s1
<1>4. InOrder(q) /\ Commits("writer", s1.progress, q) /\ DOMAIN q = DOMAIN s1.progress
      /\ q.layered = s1.progress.layered
  <2> DEFINE p == s1.progress
  <2>1. /\ InOrder(p) /\ p.phase = "writing" /\ ch = ExpectedChapter(p)
        /\ DOMAIN p = {"phase", "flow", "current", "total", "completed", "pending", "layered"}
        /\ ch \notin ToSet(p.completed)
    BY <1>2, <1>3 DEF Good, Shape
  <2> HIDE DEF p
  <2>2. InOrder(CommittedProgress(p, ch)) /\ Commits("writer", p, CommittedProgress(p, ch))
        /\ DOMAIN CommittedProgress(p, ch) = DOMAIN p
        /\ CommittedProgress(p, ch).layered = p.layered
    BY <2>1, CommittedInOrder
  <2> QED
    BY <2>2 DEF p
<1>5. q.completed = Append(s1.progress.completed, ch) /\ q.phase = "writing"
  BY <1>2, <1>3 DEF CommittedProgress, Good, Shape
<1> HIDE DEF q
<1>6. ToSet(q.completed) \subseteq s1.finals
  <2>1. IsSequence(s1.progress.completed)
    BY <1>3 DEF Good, InOrder, IsSequence
  <2>2. ToSet(q.completed) = ToSet(s1.progress.completed) \cup {ch}
    BY <1>5, <2>1, ListChanges
  <2> QED
    BY <1>3, <2>2 DEF Good, HasFinals
<1>7. Good(s2) /\ Settles(s1, s2) /\ s2.progress = q
  BY <1>2, <1>3, <1>4, <1>6, ProgressSaved
<1> HIDE DEF s2
<1>8. Leads("writer", s1, s2)
  BY <1>4, <1>7 DEF Leads, Turns
<1>9. Good(s3) /\ Leads("writer", s2, s3)
  BY <1>7, OtherFiles DEF Good, Shape
<1> HIDE DEF s3
<1>10. Path("writer", s, <<s1, s2, s3>>, s3)
  BY <1>3, <1>7, <1>8, <1>9, PathThree
<1> QED
  BY <1>1, <1>10

LEMMA CommitChapterKeepsGood ==
  ASSUME GoodInv, NEW ch \in ChapterArgs, CommitChapter(ch)
  PROVE  KeepsGood
<1>1. ch \in Numbers
  BY DEF ChapterArgs
<1>2. \/ \E ok : Reply(ok, <<>>)
      \/ /\ ~CommitRefused(store, ch) /\ ch \notin ToSet(store.progress.completed)
         /\ Reply(TRUE, CommitWrites(store, ch))
  BY DEF CommitChapter, PhaseIs, CommitRefused
<1>3. CASE \E ok : Reply(ok, <<>>)
  BY <1>3, PlainReply
<1>4. CASE /\ ~CommitRefused(store, ch) /\ ch \notin ToSet(store.progress.completed)
           /\ Reply(TRUE, CommitWrites(store, ch))
  <2>1. inst.agent = "writer"
    BY DEF CommitChapter, Calls
  <2>2. \E t : Path(inst.agent, store, CommitWrites(store, ch), t)
    BY <1>1, <1>4, <2>1, CommitWritesAreGood DEF GoodInv
  <2> QED
    BY <1>4, <2>2, ReplyKeepsGood
<1> QED
  BY <1>2, <1>3, <1>4

\* A review of a book that has chapters may queue some.
LEMMA AskedIsGood ==
  ASSUME NEW s, Good(s), s.progress.completed # <<>>,
         NEW issues \in Seq(Numbers), issues # <<>>,
         NEW desired \in {"rewriting", "polishing"}
  PROVE  LET t == [s EXCEPT !.progress.pending = issues, !.progress.flow = desired]
         IN  Good(t) /\ Leads("editor", s, t)
<1> DEFINE t == [s EXCEPT !.progress.pending = issues, !.progress.flow = desired]
<1>1. /\ DOMAIN t = DOMAIN s /\ t.volumes = s.volumes
      /\ t.files = s.files /\ t.finals = s.finals /\ t.outlined = s.outlined
      /\ DOMAIN t.progress = DOMAIN s.progress /\ t.progress.phase = s.progress.phase
      /\ t.progress.completed = s.progress.completed /\ t.progress.pending = issues
      /\ t.progress.flow = desired /\ t.progress.layered = s.progress.layered
      /\ t.progress.total = s.progress.total
  BY DEF Good, Shape
<1> HIDE DEF t
<1>2. InOrder(t.progress)
  BY <1>1 DEF Good, InOrder
<1>3. Shape(t) /\ HasFinals(t) /\ Founded(t) /\ Laid(t)
  BY <1>1 DEF Good, Shape, HasFinals, Founded, HasOutline, Laid
<1>4. Turns("editor", s, t)
  BY <1>1 DEF Turns, Asks
<1>5. Settles(s, t)
  BY <1>1, SameOutline
<1> QED
  BY <1>2, <1>3, <1>4, <1>5 DEF Good, Leads, t

LEMMA SaveReviewKeepsGood ==
  ASSUME GoodInv, NEW scope, NEW ch, NEW issues \in IssueLists,
         NEW desired \in {"rewriting", "polishing"}, SaveReview(scope, ch, issues, desired)
  PROVE  KeepsGood
<1> DEFINE s1 == SavedReview(store, scope, ch)
           s2 == [s1 EXCEPT !.progress.pending = issues, !.progress.flow = desired]
<1>1. \/ \E ok : Reply(ok, <<>>) \/ Reply(ok, <<s1>>)
      \/ issues # <<>> /\ \E ok : Reply(ok, <<s1, s2>>)
  BY DEF SaveReview
<1>2. Good(s1) /\ Leads(inst.agent, store, s1) /\ s1.progress = store.progress
  <2>1. /\ DOMAIN s1 = DOMAIN store /\ s1.progress = store.progress /\ s1.files = store.files
        /\ s1.volumes = store.volumes /\ s1.outlined = store.outlined /\ s1.finals = store.finals
    BY DEF SavedReview, GoodInv, Good, Shape
  <2> HIDE DEF s1
  <2> QED
    BY <2>1, OtherFiles DEF GoodInv
<1>3. store.progress.completed # <<>> /\ inst.agent = "editor"
  BY DEF SaveReview, Calls, GoodInv, EditorHasPages
<1> HIDE DEF s1
<1>4. issues # <<>> => Good(s2) /\ Leads(inst.agent, s1, s2)
  BY <1>2, <1>3, AskedIsGood, InputAssumption
<1> HIDE DEF s2
<1>5. /\ Path(inst.agent, store, <<s1>>, s1)
      /\ issues # <<>> => Path(inst.agent, store, <<s1, s2>>, s2)
  BY <1>2, <1>4, PathOne, PathTwo
<1> QED
  BY <1>1, <1>5, PlainReply, ReplyKeepsGood

LEMMA SaveArcSummaryKeepsGood ==
  ASSUME GoodInv, NEW volume, NEW arc, NEW same, SaveArcSummary(volume, arc, same)
  PROVE  KeepsGood
<1> DEFINE t == [store EXCEPT !.arcSummaries = @ \cup {<<volume, arc>>}]
<1>1. Good(t) /\ Leads(inst.agent, store, t)
  BY OtherFiles DEF GoodInv, Good, Shape
<1>2. \E ok : Reply(ok, <<>>) \/ Reply(ok, <<t>>)
  BY DEF SaveArcSummary
<1> HIDE DEF t
<1> QED
  BY <1>1, <1>2, PathOne, PlainReply, ReplyKeepsGood

LEMMA SaveVolumeSummaryKeepsGood ==
  ASSUME GoodInv, NEW volume, NEW same, SaveVolumeSummary(volume, same)
  PROVE  KeepsGood
<1> DEFINE s1 == [store EXCEPT !.volumeSummaries = @ \cup {volume}]
           known == volume \in store.volumeSummaries
           saved == IF known THEN <<>> ELSE <<s1>>
           final == FinalVolumeIsWritten(s1)
           ended == IF final THEN <<Completed(s1)>> ELSE <<>>
<1>1. Reply(FALSE, <<>>) \/ Reply(TRUE, saved \o ended)
  BY DEF SaveVolumeSummary
<1>2. Good(s1) /\ Leads(inst.agent, store, s1) /\ s1.progress = store.progress
  BY OtherFiles DEF GoodInv, Good, Shape
<1>3. s1.volumes = store.volumes
  BY DEF GoodInv, Good, Shape
<1>4. store.progress.completed # <<>>
  BY DEF SaveVolumeSummary, Calls, GoodInv, EditorHasPages
<1> HIDE DEF s1, known
<1>5. final => /\ Good(Completed(s1)) /\ Leads(inst.agent, s1, Completed(s1)) /\ Leads(inst.agent, store, Completed(s1))
  <2> SUFFICES ASSUME final
               PROVE  Good(Completed(s1)) /\ Leads(inst.agent, s1, Completed(s1)) /\ Leads(inst.agent, store, Completed(s1))
    OBVIOUS
  <2>1. MayComplete(s1.progress, OutlinedChapters(s1))
    BY <1>2, <1>4 DEF FinalVolumeIsWritten, MayComplete, OutlinedChapters
  <2> QED
    BY <1>2, <1>3, <2>1, CompletedIsGood, LeadsFromSame
<1> HIDE DEF final
<1>6. \E t : Path(inst.agent, store, saved, t) /\ \E u : Path(inst.agent, t, ended, u)
  <2>1. CASE known
    <3>1. Path(inst.agent, store, saved, store) /\ \E u : Path(inst.agent, store, ended, u)
      BY <1>5, <2>1, PathNone, PathOne
    <3> QED
      BY <3>1
  <2>2. CASE ~known
    <3>1. Path(inst.agent, store, saved, s1) /\ \E u : Path(inst.agent, s1, ended, u)
      BY <1>2, <1>5, <2>2, PathNone, PathOne
    <3> QED
      BY <3>1
  <2> QED
    BY <2>1, <2>2
<1> HIDE DEF saved, ended
<1>7. \E u : Path(inst.agent, store, saved \o ended, u)
  BY <1>6, PathJoin
<1> QED
  BY <1>1, <1>7, PlainReply, ReplyKeepsGood

-----------------------------------------------------------------------------
(* The engine's steps. *)

LEMMA DispatchKeepsGood ==
  ASSUME GoodInv, Dispatch
  PROVE  KeepsGood
<1> DEFINE q == DispatchedProgress(store.progress, next.chapter)
           cursor == AdvanceCursor(store.progress, next.chapter)
           s1 == [store EXCEPT !.progress = q]
           s2 == [store EXCEPT !.tier = store.prompt]
<1>1. /\ store' \in {store, s1, s2} /\ script' = script /\ pc = "route" /\ pc' = "work"
      /\ inst' = next /\ next' = NoInstruction
  BY DEF Dispatch
<1>2. Good(store) /\ InOrder(store.progress)
      /\ DOMAIN store.progress =
           {"phase", "flow", "current", "total", "completed", "pending", "layered"}
  BY DEF GoodInv, Good, Shape
<1>3. q = [store.progress EXCEPT !.current = cursor,
             !.flow = IF store.progress.flow \in {"rewriting", "polishing"}
                      THEN store.progress.flow ELSE "writing"]
  BY DEF DispatchedProgress
<1> HIDE DEF cursor
<1>4. /\ DOMAIN q = DOMAIN store.progress /\ q.phase = store.progress.phase
      /\ SamePages(store.progress, q) /\ q.layered = store.progress.layered
      /\ q.total = store.progress.total
      /\ q.flow \in {"rewriting", "polishing"} <=> store.progress.flow \in {"rewriting", "polishing"}
  BY <1>2, <1>3 DEF SamePages
<1> HIDE DEF q
<1>5. InOrder(q) /\ ToSet(q.completed) \subseteq store.finals
  BY <1>2, <1>4 DEF InOrder, SamePages, Good, HasFinals
<1>6. Good(s1) /\ Leads(inst.agent, store, s1)
  <2>1. Good(s1) /\ Settles(store, s1) /\ s1.progress = q
    BY <1>2, <1>4, <1>5, ProgressSaved
  <2> HIDE DEF s1
  <2> QED
    BY <1>4, <2>1 DEF Leads, Turns, Rests
<1>7. Good(s2) /\ Leads(inst.agent, store, s2)
  BY <1>2, OtherFiles DEF Good, Shape
<1> HIDE DEF s1, s2
<1>8. Good(store)' /\ Leads(inst.agent, store, store')
  BY <1>1, <1>2, <1>6, <1>7, LeadsSelf
<1>9. script' = <<>> /\ HasPath(inst.agent, store, script)'
  BY <1>1, PathNone DEF GoodInv, HasPath
<1>10. EditorHasPages'
  BY <1>1, <1>2, <1>8, PagesStay DEF GoodInv, EditorHasPages, NoInstruction, Instruction
<1> QED
  BY <1>1, <1>8, <1>9, <1>10 DEF GoodInv, KeepsGood

\* Stopping, by itself or by a crash, drops the writes that are left.
LEMMA StopKeepsGood ==
  ASSUME GoodInv, Stop, UNCHANGED store
  PROVE  KeepsGood
<1>1. Good(store)' /\ Leads(inst.agent, store, store') /\ HasPath(inst.agent, store, script)'
  BY PathNone, LeadsSelf DEF GoodInv, Stop, Good, HasPath
<1>2. (pc' = "tool" <=> script' # <<>>) /\ EditorHasPages'
  BY DEF Stop, EditorHasPages, NoInstruction, Instruction
<1> QED
  BY <1>1, <1>2 DEF GoodInv, KeepsGood

\* A step that only moves the loop on.
LEMMA LoopKeepsGood ==
  ASSUME GoodInv, UNCHANGED <<store, script, inst, next>>, pc' = "tool" <=> pc = "tool"
  PROVE  KeepsGood
<1>1. Good(store)' /\ Leads(inst.agent, store, store') /\ HasPath(inst.agent, store, script)'
  BY LeadsSelf DEF GoodInv, Good, HasPath, Path
<1> QED
  BY <1>1 DEF GoodInv, KeepsGood, EditorHasPages

LEMMA StartRunKeepsGood ==
  ASSUME GoodInv, NEW tier, StartRun(tier)
  PROVE  KeepsGood
<1> DEFINE t == [store EXCEPT !.prompt = tier]
<1>1. Good(t) /\ Leads(inst.agent, store, t)
  BY OtherFiles DEF GoodInv, Good, Shape
<1>2. /\ store' = t /\ script' = script /\ pc = "idle" /\ pc' = "loop"
      /\ inst' = inst /\ next' = next
  BY DEF StartRun
<1> HIDE DEF t
<1>3. script' = <<>> /\ HasPath(inst.agent, store, script)'
  BY <1>2, PathNone DEF GoodInv, HasPath
<1>4. EditorHasPages'
  BY <1>1, <1>2, PagesStay DEF GoodInv, EditorHasPages
<1> QED
  BY <1>1, <1>2, <1>3, <1>4 DEF GoodInv, KeepsGood

\* The router calls the editor only for a book that has chapters.
LEMMA EditorIsRoutedLate ==
  ASSUME NEW f, RouteOf(f).agent = "editor"
  PROVE  f.aggregateRefresh # NoRefresh \/ f.arcBoundary.isArcEnd \/ f.lastCompleted > 0
<1>1. \A tier : PlannerForTier(tier) # "editor"
  BY DEF PlannerForTier
<1>2. \A agent, kind, missing, at, chapter :
        Instruction(agent, kind, missing, at, chapter).agent = agent
  BY DEF Instruction
<1>3. NextChapterInstruction(f).agent # "editor"
  BY <1>1, <1>2 DEF NextChapterInstruction
<1>4. NoInstruction.agent # "editor"
  BY DEF NoInstruction, Instruction
<1>5. f.progress.phase = "writing"
  <2>1. f.progress.phase # "writing" =>
          \/ RouteOf(f) = NoInstruction
          \/ RouteOf(f) = Instruction(PlannerForTier(f.planningTier), "fill",
                                      f.foundationMissing, <<>>, 0)
    BY DEF RouteOf
  <2> QED
    BY <1>1, <1>2, <1>4, <2>1
<1>6. WritingInstruction(f).agent = "editor"
  BY <1>5 DEF RouteOf
<1> QED
  BY <1>1, <1>2, <1>3, <1>4, <1>6 DEF WritingInstruction

LEMMA EditorIsCalledLate ==
  ASSUME NEW s, RouteOf(AssembleState(s)).agent = "editor"
  PROVE  LatestCompleted(s.progress) > 0
<1> DEFINE f == AssembleState(s)
<1>1. f.aggregateRefresh # NoRefresh \/ f.arcBoundary.isArcEnd \/ f.lastCompleted > 0
  BY EditorIsRoutedLate
<1>2. f.lastCompleted = LatestCompleted(s.progress)
  BY DEF AssembleState
<1>3. f.aggregateRefresh # NoRefresh => LatestCompleted(s.progress) > 0
  BY DEF AssembleState, HasArcFacts
<1>4. f.arcBoundary.isArcEnd => LatestCompleted(s.progress) > 0
  BY DEF AssembleState, HasArcFacts, NoBoundary
<1> QED
  BY <1>1, <1>2, <1>3, <1>4

LEMMA LoadStateKeepsGood ==
  ASSUME GoodInv, LoadState
  PROVE  KeepsGood
<1>1. /\ store' = store /\ script' = script /\ inst' = inst /\ next' = NextInstruction
      /\ pc = "loop" /\ pc' = "route"
  BY DEF LoadState
<1>2. Good(store)' /\ Leads(inst.agent, store, store') /\ HasPath(inst.agent, store, script)'
  BY <1>1, LeadsSelf DEF GoodInv, Good, HasPath, Path
<1>3. NextInstruction.agent = "editor" => store.progress.completed # <<>>
  <2>1. NextInstruction.agent = "editor" => RouteOf(AssembleState(store)).agent = "editor"
    <3>1. \A kind, missing, at, chapter :
            Instruction(PlannerForTier(store.prompt), kind, missing, at, chapter).agent # "editor"
      BY DEF Instruction, PlannerForTier
    <3> QED
      BY <3>1, Zenon DEF NextInstruction
  <2>2. LatestCompleted(store.progress) > 0 => store.progress.completed # <<>>
    BY Latest DEF GoodInv, Good
  <2> QED
    BY <2>1, <2>2, EditorIsCalledLate
<1> QED
  BY <1>1, <1>2, <1>3 DEF GoodInv, KeepsGood, EditorHasPages

-----------------------------------------------------------------------------
(* The whole of Next. *)

LEMMA ArchitectKeepsGood ==
  ASSUME GoodInv, Architect
  PROVE  KeepsGood
<1>1. CASE SaveBook
  BY <1>1, SaveBookKeepsGood
<1>2. ASSUME NEW scale \in ScaleArgs,
             \/ SaveFoundationRefused(scale)
             \/ SavePremise(scale)
             \/ \E n \in FlatLengths : SaveOutline(scale, n)
             \/ \E vols \in LayeredPlans : SaveLayeredOutline(scale, vols)
             \/ \E file \in {"characters", "world_rules"} : SaveList(scale, file)
             \/ \E raw \in NewVolumes : AppendVolume(scale, raw)
             \/ CompleteBook(scale)
      PROVE  KeepsGood
  <2>1. CASE SaveFoundationRefused(scale)
    BY <2>1, PlainReplyScaled DEF SaveFoundationRefused
  <2>2. CASE SavePremise(scale)
    BY <2>2, SavePremiseKeepsGood
  <2>3. CASE \E n \in FlatLengths : SaveOutline(scale, n)
    BY <2>3, SaveOutlineKeepsGood
  <2>4. CASE \E vols \in LayeredPlans : SaveLayeredOutline(scale, vols)
    BY <2>4, SaveLayeredOutlineKeepsGood
  <2>5. CASE \E file \in {"characters", "world_rules"} : SaveList(scale, file)
    BY <2>5, SaveListKeepsGood
  <2>6. CASE \E raw \in NewVolumes : AppendVolume(scale, raw)
    BY <2>6, AppendVolumeKeepsGood
  <2>7. CASE CompleteBook(scale)
    BY <2>7, CompleteBookKeepsGood
  <2> QED
    BY <1>2, <2>1, <2>2, <2>3, <2>4, <2>5, <2>6, <2>7
<1>3. CASE \E current, ready \in BOOLEAN : AuditFoundation(current, ready)
  BY <1>3, AuditFoundationKeepsGood
<1>4. CASE \E e \in Expansions : ExpandNextArc(e)
  BY <1>4, ExpandNextArcKeepsGood
<1> QED
  BY <1>1, <1>2, <1>3, <1>4 DEF Architect

LEMMA EmptyStoreIsGood == Good(EmptyStore)
<1>1. Shape(EmptyStore)
  BY DEF EmptyStore, EmptyProgress, Shape
<1>2. /\ EmptyStore.progress = EmptyProgress /\ EmptyStore.finals = {}
      /\ EmptyStore.volumes = <<>>
  BY DEF EmptyStore
<1>3. InOrder(EmptyProgress) /\ EmptyProgress.layered = FALSE /\ EmptyProgress.phase = "init"
      /\ EmptyProgress.completed = <<>>
  BY DEF EmptyProgress, InOrder, Phases, PhaseRank, Planning
<1>4. ToSet(<<>>) = {}
  BY DEF ToSet
<1>5. HasFinals(EmptyStore)
  BY <1>2, <1>3, <1>4, Zenon DEF HasFinals
<1>6. Founded(EmptyStore)
  BY <1>2, <1>3 DEF Founded
<1>7. Laid(EmptyStore)
  <2>1. <<>> \in Seq(VolumeOutline) /\ Numbered(<<>>)
    BY DEF Numbered
  <2> QED
    BY <1>2, <1>3, <2>1 DEF Laid
<1> QED
  BY <1>1, <1>2, <1>3, <1>5, <1>6, <1>7 DEF Good

LEMMA InitIsGood == Init => GoodInv
<1> SUFFICES ASSUME Init PROVE GoodInv
  OBVIOUS
<1>1. /\ store = EmptyStore /\ script = <<>> /\ pc = "idle"
      /\ inst = NoInstruction /\ next = NoInstruction
  BY DEF Init
<1>2. HasPath(inst.agent, store, script)
  BY <1>1, PathNone DEF HasPath
<1>3. EditorHasPages
  BY <1>1 DEF EditorHasPages, NoInstruction, Instruction
<1> QED
  BY <1>1, <1>2, <1>3, EmptyStoreIsGood DEF GoodInv

LEMMA StepKeepsGood == GoodInv /\ [Next]_vars => KeepsGood
<1> SUFFICES ASSUME GoodInv, [Next]_vars PROVE KeepsGood
  OBVIOUS
<1>1. CASE UNCHANGED vars
  BY <1>1, LoopKeepsGood DEF vars
<1>2. CASE EndTurn \/ WorkerThrows
  BY <1>2, LoopKeepsGood DEF EndTurn, WorkerThrows, WorkerDone
<1>3. CASE LoadState
  BY <1>3, LoadStateKeepsGood
<1>4. CASE FinishRun \/ Crash
  BY <1>4, StopKeepsGood DEF FinishRun, Crash
<1>5. CASE WorkerFailed
  BY <1>5, StopKeepsGood, LoopKeepsGood DEF WorkerFailed
<1>6. CASE Dispatch
  BY <1>6, DispatchKeepsGood
<1>7. CASE WriteNext
  BY <1>7, WriteKeepsGood
<1>8. CASE Consult
  BY <1>8, PlainReply DEF Consult
<1>9. CASE Architect
  BY <1>9, ArchitectKeepsGood
<1>10. CASE Writer
  BY <1>10, DraftChapterKeepsGood, CommitChapterKeepsGood DEF Writer
<1>11. CASE Editor
  BY <1>11, SaveReviewKeepsGood, SaveArcSummaryKeepsGood, SaveVolumeSummaryKeepsGood DEF Editor
<1>12. CASE Runs
  BY <1>12, StartRunKeepsGood DEF Runs
<1> QED
  BY <1>1, <1>2, <1>3, <1>4, <1>5, <1>6, <1>7, <1>8, <1>9, <1>10, <1>11, <1>12
     DEF Next, EngineStep

\* The invariant, and what every step of the book then does.
LEMMA GoodInvHolds == Spec => []GoodInv
<1>1. GoodInv /\ [Next]_vars => GoodInv'
  BY StepKeepsGood DEF KeepsGood
<1> QED
  BY <1>1, InitIsGood, PTL DEF Spec

-----------------------------------------------------------------------------
(* The invariants. *)

\* A completed chapter has its final text on disk, at every moment and so after
\* every crash: commit_chapter writes the text before the progress record.
THEOREM CommittedChaptersHaveFinals == Spec => []CommittedHasFinal
<1>1. GoodInv => CommittedHasFinal
  BY DEF GoodInv, Good, HasFinals, CommittedHasFinal, Done
<1> QED
  BY <1>1, GoodInvHolds, PTL

\* A book that is being written, or is complete, has its whole foundation,
\* whatever the model calls and wherever a tool is cut off.
THEOREM WritingIsFounded == Spec => []WritingHasFoundation
<1>1. GoodInv => WritingHasFoundation
  BY DEF GoodInv, Good, Founded, HasOutline, WritingHasFoundation
<1> QED
  BY <1>1, GoodInvHolds, PTL

\* The flow says "rewriting" or "polishing" exactly while chapters are queued:
\* save_review sets both in one record, commit_chapter leaves both in one, and
\* dispatch keeps the flow of a queue that is worked off.
THEOREM FlowFitsQueue == Spec => []FlowMatchesQueue
<1>1. GoodInv => FlowMatchesQueue
  BY DEF GoodInv, Good, InOrder, FlowMatchesQueue
<1> QED
  BY <1>1, GoodInvHolds, PTL

-----------------------------------------------------------------------------
(* The abstract book. *)

LEMMA PagesOf ==
  ASSUME NEW p, InOrder(p), NEW ch
  PROVE  /\ ToSet(Append(p.completed, ch)) = ToSet(p.completed) \cup {ch}
         /\ ToSet(Without(p.pending, ch)) = ToSet(p.pending) \ {ch}
         /\ p.completed = <<>> <=> ToSet(p.completed) = {}
         /\ p.pending = <<>> <=> ToSet(p.pending) = {}
         /\ ToSet(p.pending) \in SUBSET Numbers
         /\ p.pending # <<>> => p.pending[1] \in ToSet(p.pending)
<1>1. p.completed \in Seq(Numbers) /\ p.pending \in Seq(Numbers)
  BY DEF InOrder
<1>2. IsSequence(p.completed) /\ IsSequence(p.pending)
  BY <1>1 DEF IsSequence
<1>3. /\ ToSet(Append(p.completed, ch)) = ToSet(p.completed) \cup {ch}
      /\ ToSet(Without(p.pending, ch)) = ToSet(p.pending) \ {ch}
  BY <1>2, ListChanges
<1>4. ASSUME NEW l \in Seq(Numbers)
      PROVE  /\ l = <<>> <=> ToSet(l) = {}
             /\ l # <<>> => l[1] \in ToSet(l)
             /\ ToSet(l) \in SUBSET Numbers
  <2>1. l # <<>> => 1 \in DOMAIN l
    BY EmptySeq
  <2>2. ToSet(<<>>) = {}
    BY DEF ToSet
  <2>3. l # <<>> => l[1] \in ToSet(l)
    BY <2>1 DEF ToSet
  <2>4. ToSet(l) \in SUBSET Numbers
    BY DEF ToSet
  <2> QED
    BY <2>2, <2>3, <2>4
<1> QED
  BY <1>1, <1>3, <1>4

StageOf(p) == IF p.phase \in Planning THEN "planning" ELSE p.phase

\* A step of the abstract book, said of what its variables are and will be.
AbstractStep(stage, written, queue, stage2, written2, queue2) ==
  \/ stage2 = stage /\ written2 = written /\ queue2 = queue
  \/ stage = "planning" /\ stage2 = "writing" /\ written2 = written /\ queue2 = queue
  \/ /\ stage = "writing" /\ stage2 = "writing" /\ queue = {} /\ queue2 = {}
     /\ written2 = written \cup {Max({0} \cup written) + 1}
  \/ \E ch \in queue :
       /\ stage = "writing" /\ stage2 = "writing"
       /\ written2 = written \cup {ch} /\ queue2 = queue \ {ch}
  \/ /\ stage # "planning" /\ stage2 = stage /\ written # {} /\ written2 = written
     /\ queue2 \in SUBSET Numbers /\ queue2 # {}
  \/ /\ stage = "writing" /\ stage2 = "complete" /\ queue = {} /\ queue2 = {}
     /\ written # {} /\ written2 = written

\* A write that leads from one store to the next is one.
LEMMA LeadsAbstractly ==
  ASSUME NEW by, NEW s, NEW t, Good(s), Good(t), Leads(by, s, t)
  PROVE  LET p == s.progress
             q == t.progress
         IN  AbstractStep(StageOf(p), ToSet(p.completed), ToSet(p.pending),
                          StageOf(q), ToSet(q.completed), ToSet(q.pending))
<1> DEFINE p == s.progress
           q == t.progress
           stage == StageOf(p)
           written == ToSet(p.completed)
           queue == ToSet(p.pending)
           stage2 == StageOf(q)
           written2 == ToSet(q.completed)
           queue2 == ToSet(q.pending)
<1> SUFFICES AbstractStep(stage, written, queue, stage2, written2, queue2)
  OBVIOUS
<1>1. InOrder(p) /\ InOrder(q)
  BY DEF Good
<1>2. \/ Rests(p, q) \/ Opens(p, q) \/ Commits(by, p, q) \/ Asks(by, p, q)
      \/ Ends(p, q, OutlinedChapters(s))
  BY DEF Leads, Turns
<1> HIDE DEF p, q
<1>3. CASE Rests(p, q)
  <2>1. stage2 = stage /\ written2 = written /\ queue2 = queue
    BY <1>3 DEF Rests, SamePages, StageOf
  <2> HIDE DEF stage, written, queue, stage2, written2, queue2
  <2> QED
    BY <2>1 DEF AbstractStep
<1>4. CASE Opens(p, q)
  <2>1. stage = "planning" /\ stage2 = "writing" /\ written2 = written /\ queue2 = queue
    BY <1>4 DEF Opens, SamePages, StageOf, Planning
  <2> HIDE DEF stage, written, queue, stage2, written2, queue2
  <2> QED
    BY <2>1 DEF AbstractStep
<1>5. CASE Commits(by, p, q)
  <2>1. PICK ch \in Numbers :
          /\ p.phase = "writing" /\ q.phase = "writing" /\ ch = ExpectedChapter(p)
          /\ q.completed = Append(p.completed, ch) /\ q.pending = Without(p.pending, ch)
    BY <1>5 DEF Commits
  <2>2. /\ written2 = written \cup {ch} /\ queue2 = queue \ {ch}
        /\ stage = "writing" /\ stage2 = "writing"
    BY <1>1, <2>1, PagesOf DEF StageOf, Planning
  <2>3. \/ ch = Max({0} \cup written) + 1 /\ queue = {}
        \/ ch \in queue
    <3>1. CASE p.pending = <<>>
      BY <1>1, <2>1, <3>1, PagesOf DEF ExpectedChapter, NextChapter, LatestCompleted
    <3>2. CASE p.pending # <<>>
      BY <1>1, <2>1, <3>2, PagesOf DEF ExpectedChapter
    <3> QED
      BY <3>1, <3>2
  <2> HIDE DEF stage, written, queue, stage2, written2, queue2
  <2>4. CASE ch = Max({0} \cup written) + 1 /\ queue = {}
    <3>1. queue2 = {} /\ written2 = written \cup {Max({0} \cup written) + 1}
      BY <2>2, <2>4
    <3> QED
      BY <2>2, <2>4, <3>1 DEF AbstractStep
  <2>5. CASE ch \in queue
    BY <2>2, <2>5 DEF AbstractStep
  <2> QED
    BY <2>3, <2>4, <2>5
<1>6. CASE Asks(by, p, q)
  <2>1. /\ written2 = written /\ written # {} /\ queue2 # {} /\ queue2 \in SUBSET Numbers
    BY <1>1, <1>6, PagesOf DEF Asks
  <2>2. stage2 = stage /\ stage # "planning"
    BY <1>1, <1>6 DEF Asks, InOrder, StageOf, Planning, Phases, PhaseRank
  <2> HIDE DEF stage, written, queue, stage2, written2, queue2
  <2> QED
    BY <2>1, <2>2 DEF AbstractStep
<1>7. CASE Ends(p, q, OutlinedChapters(s))
  <2>1. written # {} /\ queue = {} /\ written2 = written /\ queue2 = queue
    BY <1>1, <1>7, PagesOf DEF Ends, SamePages
  <2>2. stage = "writing" /\ stage2 = "complete"
    BY <1>7 DEF Ends, StageOf, Planning
  <2> HIDE DEF stage, written, queue, stage2, written2, queue2
  <2> QED
    BY <2>1, <2>2 DEF AbstractStep
<1> QED
  BY <1>2, <1>3, <1>4, <1>5, <1>6, <1>7

LEMMA StageName ==
  ASSUME NEW phase \in Phases
  PROVE  (CASE phase \in {"init", "premise", "outline"} -> "planning"
            [] phase \in {"writing", "complete"}        -> phase) =
           IF phase \in Planning THEN "planning" ELSE phase
BY DEF Phases, PhaseRank, Planning

LEMMA StageIs ==
  /\ Good(store) => Stage = StageOf(store.progress)
  /\ Good(store') => Stage' = StageOf(store'.progress)
BY StageName DEF Stage, StageOf, Good, InOrder

LEMMA ManuscriptBegins == Init => M!MInit
<1> SUFFICES ASSUME Init PROVE M!MInit
  OBVIOUS
<1>1. store.progress = EmptyProgress
  BY DEF Init, EmptyStore
<1>2. /\ store.progress.phase = "init" /\ store.progress.completed = <<>>
      /\ store.progress.pending = <<>>
  BY <1>1 DEF EmptyProgress
<1>3. Stage = "planning"
  BY <1>2 DEF Stage
<1>4. Done = {} /\ ToSet(store.progress.pending) = {}
  BY <1>2 DEF Done, ToSet
<1> QED
  BY <1>3, <1>4 DEF M!MInit

LEMMA ManuscriptSteps ==
  ASSUME NEW by, Good(store), Good(store'), Leads(by, store, store')
  PROVE  [M!MNext]_(M!manuscript)
<1> DEFINE stage == Stage
           written == Done
           queue == ToSet(store.progress.pending)
<1>1. AbstractStep(stage, written, queue, stage', written', queue')
  BY StageIs, LeadsAbstractly DEF Done
<1>2. \A S : M!Max(S) = Max(S)
  BY DEF M!Max, Max
<1>3. AbstractStep(stage, written, queue, stage', written', queue') =>
        [M!MNext]_(M!manuscript)
  BY <1>2 DEF AbstractStep, M!MNext, M!manuscript, M!Open, M!Write, M!Review, M!Rework, M!Finish
<1> QED
  BY <1>1, <1>3

\* The engine, its tools and its crashes implement the abstract book: a chapter is
\* committed as the next one or from the queue, none out of turn while others are
\* queued, none is lost, and the book is completed once, with an empty queue.
THEOREM BookIsManuscript == Spec => ImplementsManuscript
<1>1. GoodInv /\ [Next]_vars => [M!MNext]_(M!manuscript)
  <2> SUFFICES ASSUME GoodInv, [Next]_vars PROVE [M!MNext]_(M!manuscript)
    OBVIOUS
  <2>1. Good(store) /\ Good(store') /\ Leads(inst.agent, store, store')
    BY StepKeepsGood DEF KeepsGood, GoodInv, Good
  <2> QED
    BY <2>1, ManuscriptSteps
<1> QED
  BY <1>1, ManuscriptBegins, GoodInvHolds, PTL DEF Spec, ImplementsManuscript, M!MSpec

-----------------------------------------------------------------------------
(* The outline grows ahead of what is written. *)

\* The model numbered the arcs so that volume and arc index tell them apart;
\* repairMissingLayeredIndexes fills gaps and leaves duplicates alone.
IndexesAreApart == IndexesTell(store.volumes)

\* Where the indexes tell the arcs apart, no call and no cut-off call moves,
\* renumbers or rewrites an arc that holds a committed chapter: expand_next_arc
\* fills the arc behind the last one written, append_volume adds at the end.
\* With duplicate indexes it does not hold: findArc may take an earlier skeleton.
THEOREM OutlineGrowsBehindNothing == Spec /\ []IndexesAreApart => OutlineGrowsAhead
<1> DEFINE StaysPut ==
      \A x \in Arcs(store.volumes) :
        /\ store.progress.layered /\ IsArcExpanded(ArcAt(store.volumes, x))
        /\ StartChapter(store.volumes, x) <= LatestCompleted(store.progress)
        => /\ x \in Arcs(store'.volumes)
           /\ ArcAt(store'.volumes, x) = ArcAt(store.volumes, x)
           /\ StartChapter(store'.volumes, x) = StartChapter(store.volumes, x)
<1>1. GoodInv /\ IndexesAreApart /\ [Next]_vars => StaysPut
  <2> SUFFICES ASSUME GoodInv, IndexesAreApart, [Next]_vars PROVE StaysPut
    OBVIOUS
  <2>1. Settles(store, store')
    BY StepKeepsGood DEF KeepsGood, Leads
  <2> QED
    BY <2>1 DEF Settles, SettledAt, IndexesAreApart
<1>2. Spec /\ []IndexesAreApart => [][StaysPut]_store
  <2> HIDE DEF StaysPut
  <2> QED
    BY <1>1, GoodInvHolds, PTL DEF Spec
<1> QED
  BY <1>2 DEF OutlineGrowsAhead

-----------------------------------------------------------------------------
(* Books whose reviews queue what is written. *)

\* The language model's reviews name written chapters only.  save_review takes
\* any number in a global review, so this is asked of the model.
QueueIsWritten == ToSet(store.progress.pending) \subseteq Done

\* The chapters were committed as 1, 2, 3: none is skipped.
InTurn(p) == \A n \in DOMAIN p.completed : p.completed[n] = n

LEMMA WrittenUpToLatest ==
  ASSUME NEW p, InOrder(p), InTurn(p)
  PROVE  /\ LatestCompleted(p) = Len(p.completed) /\ Len(p.completed) \in Nat
         /\ ToSet(p.completed) = 1..LatestCompleted(p)
<1>1. p.completed \in Seq(Numbers) /\ Len(p.completed) \in Nat
      /\ DOMAIN p.completed = 1..Len(p.completed)
  BY DEF InOrder
<1>2. ToSet(p.completed) = 1..Len(p.completed)
  BY <1>1 DEF InTurn, ToSet
<1>3. /\ LatestCompleted(p) \in Nat
      /\ p.completed = <<>> => LatestCompleted(p) = 0
      /\ p.completed # <<>> => LatestCompleted(p) \in ToSet(p.completed)
      /\ \A ch \in ToSet(p.completed) : ch <= LatestCompleted(p)
  BY Latest
<1>4. p.completed = <<>> => Len(p.completed) = 0
  BY <1>1
<1>5. p.completed # <<>> => Len(p.completed) \in ToSet(p.completed)
  BY <1>1, <1>2, EmptySeq
<1>6. LatestCompleted(p) = Len(p.completed)
  <2>1. CASE p.completed = <<>>
    BY <1>3, <1>4, <2>1
  <2>2. CASE p.completed # <<>>
    BY <1>1, <1>2, <1>3, <1>5, <2>2
  <2> QED
    BY <2>1, <2>2
<1> QED
  BY <1>1, <1>2, <1>6

\* A write that keeps the chapters, or commits one.
LEMMA PagesGrow ==
  ASSUME NEW by, NEW s, NEW t, Good(s), Leads(by, s, t)
  PROVE  \/ t.progress.completed = s.progress.completed
         \/ /\ by = "writer" /\ s.progress.phase = "writing"
            /\ \E ch \in Numbers :
                 /\ ch = ExpectedChapter(s.progress) /\ ch \notin ToSet(s.progress.completed)
                 /\ t.progress.completed = Append(s.progress.completed, ch)
BY DEF Leads, Turns, Rests, Opens, Commits, Asks, Ends, SamePages

LEMMA LeadsInTurn ==
  ASSUME NEW by, NEW s, NEW t, Good(s), Leads(by, s, t), InTurn(s.progress),
         s.progress.phase = "writing" =>
           ToSet(s.progress.pending) \subseteq ToSet(s.progress.completed)
  PROVE  InTurn(t.progress)
<1> DEFINE p == s.progress
           q == t.progress
<1>1. /\ InOrder(p) /\ InTurn(p)
      /\ p.phase = "writing" => ToSet(p.pending) \subseteq ToSet(p.completed)
  BY DEF Good
<1>2. \/ q.completed = p.completed
      \/ /\ p.phase = "writing"
         /\ \E ch \in Numbers : /\ ch = ExpectedChapter(p) /\ ch \notin ToSet(p.completed)
                                /\ q.completed = Append(p.completed, ch)
  BY PagesGrow
<1> SUFFICES InTurn(q)
  OBVIOUS
<1> HIDE DEF p, q
<1>3. CASE q.completed = p.completed
  BY <1>1, <1>3 DEF InTurn
<1>4. ASSUME p.phase = "writing", NEW ch \in Numbers,
             ch = ExpectedChapter(p), ch \notin ToSet(p.completed),
             q.completed = Append(p.completed, ch)
      PROVE  InTurn(q)
  <2>1. p.pending = <<>>
    BY <1>1, <1>4, PagesOf DEF ExpectedChapter
  <2>2. ch = Len(p.completed) + 1
    BY <1>1, <1>4, <2>1, WrittenUpToLatest DEF ExpectedChapter, NextChapter
  <2>3. p.completed \in Seq(Numbers)
    BY <1>1 DEF InOrder
  <2> QED
    BY <1>1, <1>4, <2>2, <2>3, AppendProperties DEF InTurn
<1> QED
  BY <1>2, <1>3, <1>4

\* And what is out of turn stays so.
LEMMA InTurnBefore ==
  ASSUME NEW by, NEW s, NEW t, Good(s), Leads(by, s, t), InTurn(t.progress)
  PROVE  InTurn(s.progress)
<1> DEFINE c == s.progress.completed
           d == t.progress.completed
<1>1. c \in Seq(Numbers) /\ \A n \in DOMAIN d : d[n] = n
  BY DEF Good, InOrder, InTurn
<1>2. d = c \/ \E ch \in Numbers : d = Append(c, ch)
  BY PagesGrow
<1> SUFFICES \A n \in DOMAIN c : c[n] = n
  BY DEF InTurn
<1> HIDE DEF c, d
<1>3. ASSUME NEW ch \in Numbers, d = Append(c, ch)
      PROVE  \A n \in DOMAIN c : c[n] = n
  <2>1. \A n \in DOMAIN c : n \in DOMAIN d /\ d[n] = c[n]
    BY <1>1, <1>3, AppendProperties
  <2> QED
    BY <1>1, <2>1
<1> QED
  BY <1>1, <1>2, <1>3

\* What the record says of the outline is a number.
LEMMA OutlineIsCounted ==
  ASSUME NEW s, Good(s)
  PROVE  OutlinedChapters(s) \in Nat
<1>1. s.progress.total \in Nat /\ s.volumes \in Seq(VolumeOutline)
  BY DEF Good, InOrder, Laid
<1>2. FlattenedLength(s.volumes) \in Nat
  BY <1>1, ChaptersAreFinite DEF FlattenedLength
<1> QED
  BY <1>1, <1>2 DEF OutlinedChapters

WrittenInTurn == InTurn(store.progress)

LEMMA InitIsInTurn == Init => WrittenInTurn
<1> SUFFICES ASSUME Init PROVE WrittenInTurn
  OBVIOUS
<1>1. store.progress.completed = <<>>
  BY DEF Init, EmptyStore, EmptyProgress
<1>2. DOMAIN store.progress.completed = {}
  BY <1>1
<1> QED
  BY <1>2, Zenon DEF WrittenInTurn, InTurn

LEMMA InTurnHolds == Spec /\ []QueueIsWritten => []WrittenInTurn
<1>1. Init => WrittenInTurn
  BY InitIsInTurn
<1>2. GoodInv /\ QueueIsWritten /\ WrittenInTurn /\ [Next]_vars => WrittenInTurn'
  <2> SUFFICES ASSUME GoodInv, QueueIsWritten, WrittenInTurn, [Next]_vars
               PROVE  WrittenInTurn'
    OBVIOUS
  <2>1. Good(store) /\ Leads(inst.agent, store, store')
    BY StepKeepsGood DEF KeepsGood, GoodInv
  <2> QED
    BY <2>1, LeadsInTurn DEF WrittenInTurn, QueueIsWritten, Done
<1> QED
  BY <1>1, <1>2, GoodInvHolds, PTL DEF Spec

LEMMA CompletionInTurn == Spec /\ []WrittenInTurn => CompletionIsEarned
<1> DEFINE Earned ==
      store.progress.phase # "complete" /\ store.progress.phase' = "complete" =>
        store.progress.pending = <<>> /\ 1..OutlinedChapters(store) \subseteq Done
<1>1. GoodInv /\ WrittenInTurn /\ [Next]_vars => Earned
  <2> SUFFICES ASSUME GoodInv, WrittenInTurn, [Next]_vars,
                      store.progress.phase # "complete", store.progress.phase' = "complete"
               PROVE  store.progress.pending = <<>> /\ 1..OutlinedChapters(store) \subseteq Done
    OBVIOUS
  <2>1. Good(store) /\ Turns(inst.agent, store, store') /\ InOrder(store.progress)
    BY StepKeepsGood DEF KeepsGood, GoodInv, Leads, Good
  <2>2. Ends(store.progress, store.progress', OutlinedChapters(store))
    BY <2>1 DEF Turns, Rests, Opens, Commits, Asks, Planning
  <2>3. store.progress.pending = <<>> /\ LatestCompleted(store.progress) + 1 > OutlinedChapters(store)
    BY <2>2 DEF Ends, NextChapter
  <2>4. Done = 1..LatestCompleted(store.progress) /\ LatestCompleted(store.progress) \in Nat
    BY <2>1, WrittenUpToLatest, Latest DEF Done, WrittenInTurn
  <2>5. OutlinedChapters(store) \in Nat
    BY <2>1, OutlineIsCounted
  <2> QED
    BY <2>3, <2>4, <2>5
<1>2. Spec /\ []WrittenInTurn => [][Earned]_store
  <2> HIDE DEF Earned
  <2> QED
    BY <1>1, GoodInvHolds, PTL DEF Spec
<1> QED
  BY <1>2 DEF CompletionIsEarned

\* The book becomes complete only when nothing is queued and every chapter the
\* outline counts is committed: complete_book and maybeCompleteFinalVolume look at
\* the highest committed chapter alone, and no chapter below it is missing.
THEOREM CompletionHasEveryChapter == Spec /\ []QueueIsWritten => CompletionIsEarned
BY CompletionInTurn, InTurnHolds, PTL

-----------------------------------------------------------------------------
(* When the router sends the writer. *)

\* A refresh is one of the four.
LEMMA RefreshIsNamed ==
  ASSUME NEW s, LET r == AssembleState(s).aggregateRefresh IN r # NoRefresh
  PROVE  AssembleState(s).aggregateRefresh.kind
           \in {"arc_review", "arc_summary", "volume_summary", "global_review"}
<1> DEFINE r == AssembleState(s).aggregateRefresh
           Kinds == {"arc_review", "arc_summary", "volume_summary", "global_review"}
<1>1. \A kind, b : RefreshFrom(kind, b).kind = kind
  BY DEF RefreshFrom
<1>2. \A x : ArcGap(s, x) = NoRefresh \/ ArcGap(s, x).kind \in Kinds
  BY <1>1 DEF ArcGap
<1>3. LayeredRefresh(s) = NoRefresh \/ LayeredRefresh(s).kind \in Kinds
  BY <1>2 DEF LayeredRefresh
<1>4. FlatRefresh(s) = NoRefresh \/ FlatRefresh(s).kind \in Kinds
  BY DEF FlatRefresh, NoRefresh
<1>5. r \in {LayeredRefresh(s), FlatRefresh(s), NoRefresh}
  BY DEF AssembleState
<1> QED
  BY <1>3, <1>4, <1>5

\* The writer is sent to the first chapter queued, or, when nothing is queued and
\* nothing else is due, to the next one.
WriterIsDue(f, i) ==
  LET p == f.progress
  IN  /\ p.phase = "writing" /\ i.agent = "writer"
      /\ \/ /\ p.pending # <<>> /\ i.kind \in {"polish", "rewrite"}
            /\ i.chapter = p.pending[1]
         \/ /\ p.pending = <<>> /\ i.kind = "write"
            /\ i.chapter = NextChapter(p)
            /\ f.aggregateRefresh = NoRefresh
            /\ p.layered /\ f.arcBoundary.isArcEnd => ArcEndInstruction(f) = NoInstruction
            /\ ~p.layered /\ p.total > 0 => ~(NextChapter(p) > p.total)

LEMMA WriterIsRouted ==
  ASSUME NEW f, NEW i, i = RouteOf(f), i.agent = "writer" \/ i.kind = "write",
         f.aggregateRefresh # NoRefresh =>
           f.aggregateRefresh.kind
             \in {"arc_review", "arc_summary", "volume_summary", "global_review"}
  PROVE  WriterIsDue(f, i)
<1>1. \A tier : PlannerForTier(tier) # "writer"
  BY DEF PlannerForTier
<1>2. \A agent, kind, missing, at, chapter :
        /\ Instruction(agent, kind, missing, at, chapter).agent = agent
        /\ Instruction(agent, kind, missing, at, chapter).kind = kind
        /\ Instruction(agent, kind, missing, at, chapter).chapter = chapter
  BY DEF Instruction
<1>3. NoInstruction.agent # "writer" /\ NoInstruction.kind # "write"
  BY DEF NoInstruction, Instruction
<1>4. f.aggregateRefresh # NoRefresh =>
        LET r == RefreshInstruction(f.aggregateRefresh)
        IN  r.agent # "writer" /\ r.kind # "write"
  BY <1>2 DEF RefreshInstruction, RefreshKind
<1>5. ArcEndInstruction(f).agent # "writer" /\ ArcEndInstruction(f).kind # "write"
  BY <1>2, <1>3 DEF ArcEndInstruction
<1>6. f.progress.phase = "writing"
  <2>1. f.progress.phase # "writing" =>
          \/ RouteOf(f) = NoInstruction
          \/ RouteOf(f) = Instruction(PlannerForTier(f.planningTier), "fill",
                                      f.foundationMissing, <<>>, 0)
    BY DEF RouteOf
  <2> QED
    BY <1>1, <1>2, <1>3, <2>1
<1>7. i = WritingInstruction(f)
  BY <1>6 DEF RouteOf
<1>8. CASE f.progress.pending # <<>>
  <2>1. i = Instruction("writer", IF f.progress.flow = "polishing" THEN "polish" ELSE "rewrite",
                        {}, <<>>, f.progress.pending[1])
    BY <1>7, <1>8 DEF WritingInstruction
  <2> QED
    BY <1>2, <1>6, <1>8, <2>1 DEF WriterIsDue
<1>9. CASE f.progress.pending = <<>>
  <2>1. /\ f.aggregateRefresh = NoRefresh
        /\ f.progress.layered /\ f.arcBoundary.isArcEnd => ArcEndInstruction(f) = NoInstruction
        /\ i = NextChapterInstruction(f)
    BY <1>1, <1>2, <1>3, <1>4, <1>5, <1>7, <1>9 DEF WritingInstruction
  <2>2. /\ ~f.progress.layered /\ f.progress.total > 0 =>
             ~(NextChapter(f.progress) > f.progress.total)
        /\ i = Instruction("writer", "write", {}, <<>>, NextChapter(f.progress))
    BY <1>1, <1>2, <2>1 DEF NextChapterInstruction
  <2> QED
    BY <1>2, <1>6, <1>9, <2>1, <2>2 DEF WriterIsDue
<1> QED
  BY <1>8, <1>9

LEMMA WriterIsCalled ==
  ASSUME NextInstruction.agent = "writer" \/ NextInstruction.kind = "write"
  PROVE  WriterIsDue(AssembleState(store), NextInstruction)
<1>1. \A tier, missing, at, chapter :
        LET i == Instruction(PlannerForTier(tier), "plan_start", missing, at, chapter)
        IN  i.agent # "writer" /\ i.kind # "write"
  BY DEF Instruction, PlannerForTier
<1>2. NextInstruction = RouteOf(AssembleState(store))
  BY <1>1, Zenon DEF NextInstruction
<1> QED
  BY <1>2, WriterIsRouted, RefreshIsNamed

-----------------------------------------------------------------------------
(* What the writer finds done. *)

\* A snapshot without a refresh has none at any finished arc.
LEMMA NoGapIsLeft ==
  ASSUME NEW s, Good(s), LayeredRefresh(s) = NoRefresh
  PROVE  \A x \in CompletedArcs(s.volumes, LatestCompleted(s.progress)) : ArcGap(s, x) = NoRefresh
<1> DEFINE gaps == {x \in CompletedArcs(s.volumes, LatestCompleted(s.progress)) :
                      ArcGap(s, x) # NoRefresh}
           First(x) == \A y \in gaps \ {x} : StoryBefore(x, y)
<1>1. gaps \in SUBSET Arcs(s.volumes) /\ \A x \in gaps : IsArcExpanded(ArcAt(s.volumes, x))
  BY DEF CompletedArcs
<1>2. \A x \in gaps : ArcGap(s, x) # NoRefresh
  OBVIOUS
<1>3. LayeredRefresh(s) = IF gaps = {} THEN NoRefresh ELSE ArcGap(s, CHOOSE x \in gaps : First(x))
  BY DEF LayeredRefresh
<1>4. s.volumes \in Seq(VolumeOutline)
  BY DEF Good, Laid
<1> SUFFICES gaps = {}
  OBVIOUS
<1> HIDE DEF gaps
<1>5. gaps # {} => \E x \in gaps : First(x)
  BY <1>1, <1>4, FirstArc
<1> HIDE DEF First
<1>6. gaps # {} => (CHOOSE x \in gaps : First(x)) \in gaps
  BY <1>5
<1> QED
  BY <1>2, <1>3, <1>6

\* An arc without a gap has its review and its summaries.
LEMMA NoGapIsPaid ==
  ASSUME NEW s, NEW x, ArcGap(s, x) = NoRefresh
  PROVE  /\ EndChapter(s.volumes, x) \in s.arcReviews
         /\ <<s.volumes[x[1]].index, ArcAt(s.volumes, x).index>> \in s.arcSummaries
         /\ EndsVolume(s.volumes, x) => s.volumes[x[1]].index \in s.volumeSummaries
<1> DEFINE b == Boundary(s.volumes, x)
<1>1. /\ b.endChapter = EndChapter(s.volumes, x) /\ b.volume = s.volumes[x[1]].index
      /\ b.arc = ArcAt(s.volumes, x).index /\ b.isVolumeEnd = EndsVolume(s.volumes, x)
  BY DEF Boundary
<1>2. \A kind : kind # "none" => RefreshFrom(kind, b) # NoRefresh
  BY DEF RefreshFrom, NoRefresh
<1>3. /\ b.endChapter \in s.arcReviews /\ <<b.volume, b.arc>> \in s.arcSummaries
      /\ b.isVolumeEnd => b.volume \in s.volumeSummaries
  <2> HIDE DEF b
  <2> QED
    BY <1>2 DEF ArcGap, b
<1> QED
  BY <1>1, <1>3

\* A flat book written in turn has the reviews its chapters owe.
LEMMA FlatReviewsAreThere ==
  ASSUME NEW s, Good(s), FlatRefresh(s) = NoRefresh, InTurn(s.progress)
  PROVE  \A n \in 1..LatestCompleted(s.progress) : n % ReviewInterval = 0 => n \in s.globalReviews
<1> DEFINE done == s.progress.completed
           gaps == {n \in DOMAIN done : ShouldReview(n) /\ done[n] \notin s.globalReviews}
<1>1. gaps = {}
  <2>1. [NoRefresh EXCEPT !.kind = "global_review", !.endChapter = done[Min(gaps)]] # NoRefresh
    BY DEF NoRefresh
  <2> QED
    BY <2>1 DEF FlatRefresh
<1>2. DOMAIN done = 1..LatestCompleted(s.progress) /\ LatestCompleted(s.progress) \in Nat
  BY WrittenUpToLatest DEF Good, InOrder
<1>3. \A n \in DOMAIN done : done[n] = n
  BY DEF InTurn
<1> HIDE DEF done
<1> QED
  BY <1>1, <1>2, <1>3 DEF ShouldReview

LEMMA NextChapterIsPaid ==
  ASSUME Good(store), NEW i, WriterIsDue(AssembleState(store), i), i.kind = "write",
         store.progress.layered \/ InTurn(store.progress)
  PROVE  DuesPaid(i.chapter)
<1> DEFINE p == store.progress
           last == LatestCompleted(p)
           f == AssembleState(store)
<1>1. f.progress = p
  BY DEF AssembleState
<1>2. i.chapter = last + 1 /\ f.aggregateRefresh = NoRefresh
  BY <1>1 DEF WriterIsDue, NextChapter
<1>3. last \in Nat /\ store.volumes \in Seq(VolumeOutline) /\ (p.layered => store.volumes # <<>>)
  BY Latest DEF Good, Laid
<1>4. f.aggregateRefresh =
        IF p.layered /\ last > 0 /\ store.volumes # <<>> THEN LayeredRefresh(store)
        ELSE IF ~p.layered /\ last > 0 THEN FlatRefresh(store) ELSE NoRefresh
  BY DEF AssembleState, HasArcFacts
<1> HIDE DEF f
<1>5. CASE p.layered
  <2> SUFFICES ASSUME NEW x \in Arcs(store.volumes), IsArcExpanded(ArcAt(store.volumes, x)),
                      EndChapter(store.volumes, x) < last + 1
               PROVE  /\ EndChapter(store.volumes, x) \in store.arcReviews
                      /\ <<store.volumes[x[1]].index, ArcAt(store.volumes, x).index>>
                            \in store.arcSummaries
                      /\ EndsVolume(store.volumes, x) =>
                           store.volumes[x[1]].index \in store.volumeSummaries
    BY <1>2, <1>5 DEF DuesPaid
  <2>1. EndChapter(store.volumes, x) \in Nat \ {0}
    <3>1. ArcAt(store.volumes, x).size \in Nat /\ ArcAt(store.volumes, x).size > 0
      BY <1>3, ArcsByPlace DEF ArcOutline, IsArcExpanded
    <3>2. StartChapter(store.volumes, x) \in Nat \ {0}
      BY <1>3, ArcStarts
    <3> QED
      BY <3>1, <3>2 DEF EndChapter
  <2> HIDE DEF last
  <2>2. EndChapter(store.volumes, x) <= last /\ last > 0
    BY <1>3, <2>1
  <2>3. LayeredRefresh(store) = NoRefresh
    BY <1>2, <1>3, <1>4, <1>5, <2>2
  <2>4. x \in CompletedArcs(store.volumes, LatestCompleted(store.progress))
    BY <2>2 DEF CompletedArcs, last
  <2> QED
    BY <2>3, <2>4, NoGapIsLeft, NoGapIsPaid
<1>6. CASE ~p.layered
  <2>1. last > 0 => FlatRefresh(store) = NoRefresh
    BY <1>2, <1>4, <1>6
  <2>2. \A n \in 1..last : n % ReviewInterval = 0 => n \in store.globalReviews
    BY <1>3, <1>6, <2>1, FlatReviewsAreThere
  <2> HIDE DEF last
  <2>3. 1..i.chapter - 1 = 1..last
    BY <1>2, <1>3
  <2> QED
    BY <1>6, <2>2, <2>3 DEF DuesPaid
<1> QED
  BY <1>5, <1>6

\* The writer's tools leave the outline, the reviews and the summaries of others.
WriterKeeps(s, t) ==
  /\ t.volumes = s.volumes /\ t.progress.layered = s.progress.layered
  /\ t.progress.total = s.progress.total /\ t.globalReviews = s.globalReviews
  /\ t.arcReviews = s.arcReviews /\ t.arcSummaries = s.arcSummaries
  /\ t.volumeSummaries = s.volumeSummaries

Paid(i) == i.kind = "write" /\ (store.progress.layered \/ WrittenInTurn) => DuesPaid(i.chapter)

\* From the routing of a new chapter to the end of its worker its dues are paid.
DuesInv ==
  /\ inst.kind = "write" => inst.agent = "writer"
  /\ next.kind = "write" => next.agent = "writer"
  /\ pc = "route" => Paid(next)
  /\ pc \in {"work", "tool"} => Paid(inst)
  /\ inst.agent = "writer" => \A n \in DOMAIN script : WriterKeeps(store, script[n])

\* A store that keeps them owes nothing new.
LEMMA PaidStays ==
  ASSUME GoodInv, KeepsGood, WriterKeeps(store, store'), NEW i, Paid(i)
  PROVE  Paid(i)'
<1>1. WrittenInTurn' => WrittenInTurn
  BY InTurnBefore DEF GoodInv, KeepsGood, WrittenInTurn
<1>2. DuesPaid(i.chapter) => DuesPaid(i.chapter)'
  BY DEF DuesPaid, WriterKeeps
<1> QED
  BY <1>1, <1>2 DEF Paid, WriterKeeps

LEMMA StoreKept == WriterKeeps(store, store)
BY DEF WriterKeeps

\* The writes of the writer's tools.
LEMMA DraftIsKept ==
  ASSUME NEW s, Good(s), NEW ch
  PROVE  WriterKeeps(s, [s EXCEPT !.drafts = @ \cup {ch}])
BY DEF WriterKeeps, Good, Shape

LEMMA CommitIsKept ==
  ASSUME NEW s, Good(s), NEW ch
  PROVE  \A n \in DOMAIN CommitWrites(s, ch) : WriterKeeps(s, CommitWrites(s, ch)[n])
<1> DEFINE s1 == [s EXCEPT !.finals = @ \cup {ch}]
           q  == CommittedProgress(s1.progress, ch)
           s2 == [s1 EXCEPT !.progress = q]
           s3 == [s2 EXCEPT !.summaries = @ \cup {ch}]
<1>1. CommitWrites(s, ch) = <<s1, s2, s3>>
  BY DEF CommitWrites
<1>2. DOMAIN s1 = DOMAIN s /\ WriterKeeps(s, s1) /\ s1.progress = s.progress
  BY DEF WriterKeeps, Good, Shape
<1> HIDE DEF s1
<1>3. q.layered = s.progress.layered /\ q.total = s.progress.total
  BY <1>2 DEF CommittedProgress, Good, Shape
<1> HIDE DEF q
<1>4. DOMAIN s2 = DOMAIN s1 /\ WriterKeeps(s, s2)
  BY <1>2, <1>3 DEF WriterKeeps, Good, Shape
<1> HIDE DEF s2
<1>5. WriterKeeps(s, s3)
  BY <1>2, <1>4 DEF WriterKeeps, Good, Shape
<1> HIDE DEF s3
<1>6. \A n \in DOMAIN <<s1, s2, s3>> : WriterKeeps(s, <<s1, s2, s3>>[n])
  BY <1>2, <1>4, <1>5
<1> QED
  BY <1>1, <1>6

\* A step that starts no worker and leaves the store as it is.
LEMMA DuesKept ==
  ASSUME GoodInv, DuesInv, KeepsGood, WriterKeeps(store, store'),
         inst' = inst \/ inst' = NoInstruction, next' = next \/ next' = NoInstruction,
         pc' = "route" => pc = "route" /\ next' = next,
         pc' \in {"work", "tool"} => pc \in {"work", "tool"} /\ inst' = inst,
         inst.agent = "writer" => \A n \in DOMAIN script' : WriterKeeps(store', script'[n])
  PROVE  DuesInv'
<1>1. NoInstruction.kind # "write" /\ NoInstruction.agent # "writer"
  BY DEF NoInstruction, Instruction
<1>2. (inst.kind = "write" => inst.agent = "writer")' /\ (next.kind = "write" => next.agent = "writer")'
  BY <1>1 DEF DuesInv
<1>3. (pc = "route" => Paid(next))'
  <2> SUFFICES ASSUME pc' = "route" PROVE Paid(next)'
    OBVIOUS
  <2>1. Paid(next) /\ next' = next
    BY DEF DuesInv
  <2>2. \A i : Paid(i) => Paid(i)'
    BY PaidStays
  <2> QED
    BY <2>1, <2>2 DEF Paid
<1>4. (pc \in {"work", "tool"} => Paid(inst))'
  <2> SUFFICES ASSUME pc' \in {"work", "tool"} PROVE Paid(inst)'
    OBVIOUS
  <2>1. Paid(inst) /\ inst' = inst
    BY DEF DuesInv
  <2>2. \A i : Paid(i) => Paid(i)'
    BY PaidStays
  <2> QED
    BY <2>1, <2>2 DEF Paid
<1>5. (inst.agent = "writer" => \A n \in DOMAIN script : WriterKeeps(store, script[n]))'
  BY <1>1
<1> QED
  BY <1>2, <1>3, <1>4, <1>5 DEF DuesInv

\* What every call of an architect or an editor does to the loop.
CallsElse ==
  /\ pc = "work" /\ inst.agent # "writer" /\ UNCHANGED <<store, inst, next>>
  /\ pc' \in {"tool", "work", "failed"}

LEMMA RepliesElse ==
  ASSUME NEW agents, NEW tool, Calls(agents, tool), "writer" \notin agents
  PROVE  /\ \A ok, w : Reply(ok, w) => CallsElse
         /\ \A scale, ok, w : ReplyScaled(scale, ok, w) => CallsElse
<1>1. \A ok, w : Reply(ok, w) => CallsElse
  BY DEF Calls, Reply, CallsElse
<1> QED
  BY <1>1, Zenon DEF ReplyScaled

LEMMA ArchitectCalls == Architect => CallsElse /\ inst.agent # "editor"
<1> SUFFICES ASSUME Architect PROVE CallsElse /\ inst.agent # "editor"
  OBVIOUS
<1>0. "writer" \notin Architects /\ "editor" \notin Architects
  BY DEF Architects
<1> DEFINE Replied == \/ \E ok, w : Reply(ok, w)
                      \/ \E scale, ok, w : ReplyScaled(scale, ok, w)
<1> SUFFICES \E tool : Calls(Architects, tool) /\ Replied
  BY <1>0, RepliesElse DEF Calls
<1>1. CASE SaveBook
  BY <1>1 DEF SaveBook
<1>2. ASSUME NEW scale, SaveFoundationRefused(scale)
      PROVE  \E tool : Calls(Architects, tool) /\ Replied
  BY <1>2 DEF SaveFoundationRefused
<1>3. ASSUME NEW scale, SavePremise(scale)
      PROVE  \E tool : Calls(Architects, tool) /\ Replied
  BY <1>3 DEF SavePremise
<1>4. ASSUME NEW scale, NEW n, SaveOutline(scale, n)
      PROVE  \E tool : Calls(Architects, tool) /\ Replied
  BY <1>4 DEF SaveOutline
<1>5. ASSUME NEW scale, NEW vols, SaveLayeredOutline(scale, vols)
      PROVE  \E tool : Calls(Architects, tool) /\ Replied
  BY <1>5 DEF SaveLayeredOutline
<1>6. ASSUME NEW scale, NEW file, SaveList(scale, file)
      PROVE  \E tool : Calls(Architects, tool) /\ Replied
  BY <1>6 DEF SaveList
<1>7. ASSUME NEW scale, NEW raw, AppendVolume(scale, raw)
      PROVE  \E tool : Calls(Architects, tool) /\ Replied
  BY <1>7 DEF AppendVolume
<1>8. ASSUME NEW scale, CompleteBook(scale)
      PROVE  \E tool : Calls(Architects, tool) /\ Replied
  BY <1>8 DEF CompleteBook
<1>9. ASSUME NEW current, NEW ready, AuditFoundation(current, ready)
      PROVE  \E tool : Calls(Architects, tool) /\ Replied
  BY <1>9 DEF AuditFoundation
<1>10. ASSUME NEW e, ExpandNextArc(e)
      PROVE  \E tool : Calls(Architects, tool) /\ Replied
  BY <1>10 DEF ExpandNextArc
<1> HIDE DEF Replied
<1> QED
  BY <1>1, <1>2, <1>3, <1>4, <1>5, <1>6, <1>7, <1>8, <1>9, <1>10, Zenon DEF Architect

LEMMA EditorCalls == Editor => CallsElse
<1> SUFFICES ASSUME Editor PROVE CallsElse
  OBVIOUS
<1> SUFFICES \E tool : Calls({"editor"}, tool) /\ \E ok, w : Reply(ok, w)
  BY RepliesElse
<1>1. ASSUME NEW scope, NEW ch, NEW issues, NEW desired, SaveReview(scope, ch, issues, desired)
      PROVE  \E tool : Calls({"editor"}, tool) /\ \E ok, w : Reply(ok, w)
  BY <1>1 DEF SaveReview
<1>2. ASSUME NEW volume, NEW arc, NEW same, SaveArcSummary(volume, arc, same)
      PROVE  \E tool : Calls({"editor"}, tool) /\ \E ok, w : Reply(ok, w)
  BY <1>2 DEF SaveArcSummary
<1>3. ASSUME NEW volume, NEW same, SaveVolumeSummary(volume, same)
      PROVE  \E tool : Calls({"editor"}, tool) /\ \E ok, w : Reply(ok, w)
  BY <1>3 DEF SaveVolumeSummary
<1> QED
  BY <1>1, <1>2, <1>3, Zenon DEF Editor

LEMMA DuesKeptElse ==
  ASSUME GoodInv, DuesInv, KeepsGood, CallsElse
  PROVE  DuesInv'
BY DuesKept, StoreKept DEF CallsElse

LEMMA DuesKeptByWriter ==
  ASSUME GoodInv, DuesInv, KeepsGood, Writer
  PROVE  DuesInv'
<1>1. PICK ch \in ChapterArgs : DraftChapter(ch) \/ CommitChapter(ch)
  BY DEF Writer
<1>2. /\ pc = "work" /\ UNCHANGED <<store, inst, next>> /\ pc' \in {"tool", "work", "failed"}
      /\ script' \in {<<>>, <<[store EXCEPT !.drafts = @ \cup {ch}]>>, CommitWrites(store, ch)}
  BY <1>1 DEF DraftChapter, CommitChapter, Calls, Reply
<1>3. \A n \in DOMAIN script' : WriterKeeps(store, script'[n])
  <2>1. CASE script' = <<>>
    BY <2>1
  <2>2. CASE script' = <<[store EXCEPT !.drafts = @ \cup {ch}]>>
    <3> DEFINE t == [store EXCEPT !.drafts = @ \cup {ch}]
    <3>1. WriterKeeps(store, t)
      BY DraftIsKept DEF GoodInv
    <3> HIDE DEF t
    <3>2. \A n \in DOMAIN <<t>> : <<t>>[n] = t
      OBVIOUS
    <3> QED
      BY <2>2, <3>1, <3>2 DEF t
  <2>3. CASE script' = CommitWrites(store, ch)
    BY <2>3, CommitIsKept DEF GoodInv
  <2> QED
    BY <1>2, <2>1, <2>2, <2>3
<1>4. \A n \in DOMAIN script' : WriterKeeps(store', script'[n])
  BY <1>2, <1>3
<1> QED
  BY <1>2, <1>4, DuesKept, StoreKept

\* What a write takes off a script.
LEMMA ScriptParts ==
  ASSUME NEW by, NEW s, NEW w, HasPath(by, s, w), w # <<>>
  PROVE  /\ 1 \in DOMAIN w /\ Head(w) = w[1]
         /\ \A n \in DOMAIN Tail(w) : n + 1 \in DOMAIN w /\ Tail(w)[n] = w[n + 1]
<1>1. PICK S : w \in Seq(S)
  BY DEF HasPath, Path, IsSequence
<1>2. Len(w) \in Nat \ {0} /\ DOMAIN w = 1..Len(w)
  BY <1>1, EmptySeq
<1>3. /\ Head(w) = w[1] /\ DOMAIN Tail(w) = 1..Len(w) - 1
      /\ \A n \in 1..Len(w) - 1 : Tail(w)[n] = w[n + 1]
  BY <1>1, HeadTailProperties
<1> QED
  BY <1>2, <1>3

LEMMA DuesKeptByWrite ==
  ASSUME GoodInv, DuesInv, KeepsGood, WriteNext
  PROVE  DuesInv'
<1>1. /\ pc = "tool" /\ store' = Head(script) /\ script' = Tail(script)
      /\ inst' = inst /\ next' = next /\ pc' \in {"tool", "failed", "work"}
  BY DEF WriteNext
<1>2. script # <<>>
  BY <1>1 DEF GoodInv
<1>3. CASE inst.agent # "writer"
  BY <1>1, <1>3 DEF DuesInv, Paid
<1>4. CASE inst.agent = "writer"
  <2>2. /\ 1 \in DOMAIN script /\ Head(script) = script[1]
        /\ \A n \in DOMAIN Tail(script) : n + 1 \in DOMAIN script /\ Tail(script)[n] = script[n + 1]
    BY <1>2, ScriptParts DEF GoodInv
  <2>3. \A n \in DOMAIN script : WriterKeeps(store, script[n])
    BY <1>4 DEF DuesInv
  <2>4. WriterKeeps(store, store')
    BY <1>1, <2>2, <2>3
  <2>5. \A n \in DOMAIN script' : WriterKeeps(store, script'[n])
    BY <1>1, <2>2, <2>3
  <2>6. \A n \in DOMAIN script' : WriterKeeps(store', script'[n])
    BY <2>4, <2>5 DEF WriterKeeps
  <2> QED
    BY <1>1, <2>4, <2>6, DuesKept
<1> QED
  BY <1>3, <1>4

LEMMA DispatchIsKept ==
  ASSUME GoodInv, Dispatch
  PROVE  WriterKeeps(store, store') /\ store'.progress.completed = store.progress.completed
<1> DEFINE q == DispatchedProgress(store.progress, next.chapter)
           s1 == [store EXCEPT !.progress = q]
           s2 == [store EXCEPT !.tier = store.prompt]
<1>1. store' \in {store, s1, s2}
  BY DEF Dispatch
<1>2. q.layered = store.progress.layered /\ q.total = store.progress.total
      /\ q.completed = store.progress.completed
  BY DEF DispatchedProgress, GoodInv, Good, Shape
<1> HIDE DEF q
<1>3. WriterKeeps(store, s1) /\ s1.progress.completed = store.progress.completed
  BY <1>2 DEF WriterKeeps, GoodInv, Good, Shape
<1>4. WriterKeeps(store, s2) /\ s2.progress.completed = store.progress.completed
  BY DEF WriterKeeps, GoodInv, Good, Shape
<1> HIDE DEF s1, s2
<1> QED
  BY <1>1, <1>3, <1>4, StoreKept

LEMMA DuesKeptByDispatch ==
  ASSUME GoodInv, DuesInv, KeepsGood, Dispatch
  PROVE  DuesInv'
<1>1. /\ pc = "route" /\ pc' = "work" /\ inst' = next /\ next' = NoInstruction
      /\ script' = script
  BY DEF Dispatch
<1>2. script' = <<>>
  BY <1>1 DEF GoodInv
<1>3. WriterKeeps(store, store')
  BY DispatchIsKept
<1>4. Paid(inst)'
  <2>1. Paid(next)
    BY <1>1 DEF DuesInv
  <2>2. \A i : Paid(i) => Paid(i)'
    BY <1>3, PaidStays
  <2> QED
    BY <1>1, <2>1, <2>2 DEF Paid
<1>5. NoInstruction.kind # "write"
  BY DEF NoInstruction, Instruction
<1> QED
  BY <1>1, <1>2, <1>4, <1>5 DEF DuesInv

LEMMA DuesKeptByLoad ==
  ASSUME GoodInv, DuesInv, KeepsGood, LoadState
  PROVE  DuesInv'
<1>1. /\ pc' = "route" /\ next' = NextInstruction /\ UNCHANGED <<store, inst, script>>
  BY DEF LoadState
<1>2. next'.kind = "write" => next'.agent = "writer" /\ WriterIsDue(AssembleState(store), next')
  BY <1>1, WriterIsCalled DEF WriterIsDue
<1>3. Paid(next)'
  <2> SUFFICES ASSUME next'.kind = "write", store'.progress.layered \/ WrittenInTurn'
               PROVE  DuesPaid(next.chapter)'
    BY DEF Paid
  <2>1. store.progress.layered \/ InTurn(store.progress)
    BY <1>1 DEF WrittenInTurn
  <2>2. DuesPaid(next'.chapter)
    BY <1>2, <2>1, NextChapterIsPaid DEF GoodInv
  <2> QED
    BY <1>1, <2>2 DEF DuesPaid
<1>4. (inst.agent = "writer" => \A n \in DOMAIN script : WriterKeeps(store, script[n]))'
  BY <1>1 DEF DuesInv
<1> QED
  BY <1>1, <1>2, <1>3, <1>4 DEF DuesInv

LEMMA DuesKeptByLoop ==
  ASSUME GoodInv, DuesInv, KeepsGood,
         EndTurn \/ WorkerThrows \/ FinishRun \/ WorkerFailed \/ Crash \/ Runs \/ Consult
         \/ UNCHANGED vars
  PROVE  DuesInv'
<1>1. CASE UNCHANGED vars
  BY <1>1, DuesKept, StoreKept DEF vars, DuesInv
<1>2. CASE EndTurn \/ WorkerThrows
  <2>1. UNCHANGED <<store, inst, next, script>> /\ pc' \in {"loop", "failed"}
    BY <1>2 DEF EndTurn, WorkerThrows, WorkerDone
  <2> QED
    BY <2>1, DuesKept, StoreKept DEF DuesInv
<1>3. ASSUME Stop, UNCHANGED store PROVE DuesInv'
  BY <1>3, DuesKept, StoreKept DEF Stop
<1>4. CASE FinishRun \/ Crash
  BY <1>3, <1>4 DEF FinishRun, Crash
<1>5. CASE WorkerFailed
  <2>1. CASE failedKey = inst
    BY <1>3, <1>5, <2>1 DEF WorkerFailed
  <2>2. CASE failedKey # inst
    <3>1. UNCHANGED <<store, inst, next, script>> /\ pc' = "loop"
      BY <1>5, <2>2 DEF WorkerFailed
    <3> QED
      BY <3>1, DuesKept, StoreKept DEF DuesInv
  <2> QED
    BY <2>1, <2>2
<1>6. CASE Runs
  <2>1. PICK tier \in PlanTiers : StartRun(tier)
    BY <1>6 DEF Runs
  <2> DEFINE t == [store EXCEPT !.prompt = tier]
  <2>2. /\ store' = t /\ UNCHANGED <<inst, next, script>> /\ pc = "idle" /\ pc' = "loop"
    BY <2>1 DEF StartRun
  <2>3. WriterKeeps(store, t)
    BY DEF WriterKeeps, GoodInv, Good, Shape
  <2> HIDE DEF t
  <2>4. script' = <<>>
    BY <2>2 DEF GoodInv
  <2> QED
    BY <2>2, <2>3, <2>4, DuesKept
<1>7. CASE Consult
  <2>1. pc = "work" /\ UNCHANGED <<store, inst, next>> /\ script' = <<>>
        /\ pc' \in {"tool", "work", "failed"}
    BY <1>7 DEF Consult, Reply
  <2> QED
    BY <2>1, DuesKept, StoreKept
<1> QED
  BY <1>1, <1>2, <1>4, <1>5, <1>6, <1>7

LEMMA DuesInvHolds == Spec => []DuesInv
<1>1. Init => DuesInv
  <2>1. NoInstruction.kind # "write" /\ NoInstruction.agent # "writer"
    BY DEF NoInstruction, Instruction
  <2> QED
    BY <2>1 DEF Init, DuesInv
<1>2. GoodInv /\ DuesInv /\ [Next]_vars => DuesInv'
  <2> SUFFICES ASSUME GoodInv, DuesInv, [Next]_vars PROVE DuesInv'
    OBVIOUS
  <2>1. KeepsGood
    BY StepKeepsGood
  <2> QED
    BY <2>1, ArchitectCalls, EditorCalls, DuesKeptElse, DuesKeptByWriter, DuesKeptByWrite,
       DuesKeptByDispatch, DuesKeptByLoad, DuesKeptByLoop DEF Next, EngineStep
<1> QED
  BY <1>1, <1>2, GoodInvHolds, PTL DEF Spec

\* No new chapter of a layered book is begun while a finished arc or volume lacks
\* its review or a summary, whatever the model calls and wherever the process dies:
\* the router asks for every one missed.  Of a flat book it holds while the
\* chapters are committed in turn: its reviews are due by the number committed.
THEOREM DuesArePaid ==
  Spec => [](store.progress.layered \/ WrittenInTurn => DuesBeforeWriting)
<1>1. DuesInv => (store.progress.layered \/ WrittenInTurn => DuesBeforeWriting)
  BY DEF DuesInv, Paid, DuesBeforeWriting
<1> QED
  BY <1>1, DuesInvHolds, PTL

\* And so of any book whose reviews queue written chapters only.
THEOREM DuesArePaidInTurn == Spec /\ []QueueIsWritten => []DuesBeforeWriting
<1>1. DuesInv /\ WrittenInTurn => DuesBeforeWriting
  BY DEF DuesInv, Paid, DuesBeforeWriting
<1> QED
  BY <1>1, DuesInvHolds, InTurnHolds, PTL

-----------------------------------------------------------------------------
(* What a focused model's reviews queue. *)

\* In a layered book the reviews of a model that keeps to its instruction are about
\* the arc just written: what is queued is not above the last chapter committed.
Owed(s) ==
  /\ s.progress.completed = <<>> => s.progress.pending = <<>>
  /\ s.progress.layered /\ s.progress.phase # "complete" =>
       \A ch \in ToSet(s.progress.pending) : ch <= LatestCompleted(s.progress)

\* Only a flat book has global reviews.
AsksFlat(i) ==
  i.kind \in {"global_review", "refresh_global_review"} =>
    i.agent = "editor" /\ ~store.progress.layered

QueueInv ==
  /\ Owed(store)
  /\ pc = "route" => AsksFlat(next)
  /\ pc \in {"work", "tool"} => AsksFlat(inst)
  /\ inst.agent = "editor" => \A n \in DOMAIN script : Owed(script[n])

LEMMA ReviewsAreRouted ==
  ASSUME NEW f, NEW i, i = RouteOf(f), i.kind \in {"global_review", "refresh_global_review"},
         f.aggregateRefresh # NoRefresh =>
           f.aggregateRefresh.kind
             \in {"arc_review", "arc_summary", "volume_summary", "global_review"},
         f.progress.layered => f.aggregateRefresh.kind # "global_review"
  PROVE  i.agent = "editor" /\ ~f.progress.layered
<1>1. \A agent, kind, missing, at, chapter :
        /\ Instruction(agent, kind, missing, at, chapter).agent = agent
        /\ Instruction(agent, kind, missing, at, chapter).kind = kind
  BY DEF Instruction
<1>2. NoInstruction.kind = "none"
  BY DEF NoInstruction, Instruction
<1>3. i = WritingInstruction(f)
  <2>1. f.progress.phase # "writing" =>
          \/ RouteOf(f) = NoInstruction
          \/ RouteOf(f) = Instruction(PlannerForTier(f.planningTier), "fill",
                                      f.foundationMissing, <<>>, 0)
    BY DEF RouteOf
  <2>2. f.progress.phase = "writing"
    BY <1>1, <1>2, <2>1
  <2> QED
    BY <2>2 DEF RouteOf
<1>4. ArcEndInstruction(f).kind \notin {"global_review", "refresh_global_review"}
  BY <1>1, <1>2 DEF ArcEndInstruction
<1>5. NextChapterInstruction(f).kind \notin {"global_review", "refresh_global_review"}
  BY <1>1 DEF NextChapterInstruction
<1>6. f.aggregateRefresh # NoRefresh =>
        LET r == RefreshInstruction(f.aggregateRefresh)
        IN  /\ r.agent = "editor"
            /\ r.kind \in {"global_review", "refresh_global_review"} =>
                 f.aggregateRefresh.kind = "global_review"
  BY <1>1 DEF RefreshInstruction, RefreshKind
<1>7. \/ i = NoInstruction
      \/ i = Instruction("writer", IF f.progress.flow = "polishing" THEN "polish" ELSE "rewrite",
                         {}, <<>>, f.progress.pending[1])
      \/ f.aggregateRefresh # NoRefresh /\ i = RefreshInstruction(f.aggregateRefresh)
      \/ i = Instruction(PlannerForTier(f.planningTier), "feedback", {}, <<>>, 0)
      \/ i = ArcEndInstruction(f)
      \/ /\ ~f.progress.layered
         /\ i = Instruction("editor", "global_review", {}, <<f.lastCompleted>>, 0)
      \/ i = NextChapterInstruction(f)
  BY <1>3 DEF WritingInstruction
<1> QED
  BY <1>1, <1>2, <1>4, <1>5, <1>6, <1>7

LEMMA GlobalReviewsAreFlat ==
  ASSUME NEW s
  PROVE  s.progress.layered => AssembleState(s).aggregateRefresh.kind # "global_review"
<1>1. \A kind, b : RefreshFrom(kind, b).kind = kind
  BY DEF RefreshFrom
<1>2. NoRefresh.kind # "global_review"
  BY DEF NoRefresh
<1>3. \A x : ArcGap(s, x).kind # "global_review"
  BY <1>1, <1>2 DEF ArcGap
<1>4. LayeredRefresh(s).kind # "global_review"
  BY <1>2, <1>3 DEF LayeredRefresh
<1>5. s.progress.layered => AssembleState(s).aggregateRefresh \in {LayeredRefresh(s), NoRefresh}
  BY DEF AssembleState
<1> QED
  BY <1>2, <1>4, <1>5

LEMMA ReviewsAreCalled == AsksFlat(NextInstruction)
<1> SUFFICES ASSUME NextInstruction.kind \in {"global_review", "refresh_global_review"}
             PROVE  NextInstruction.agent = "editor" /\ ~store.progress.layered
  BY DEF AsksFlat
<1>1. \A tier, missing, at, chapter :
        Instruction(PlannerForTier(tier), "plan_start", missing, at, chapter).kind = "plan_start"
  BY DEF Instruction
<1>2. NextInstruction = RouteOf(AssembleState(store))
  BY <1>1, Zenon DEF NextInstruction
<1>3. AssembleState(store).progress = store.progress
  BY DEF AssembleState
<1>4. NextInstruction.agent = "editor" /\ ~AssembleState(store).progress.layered
  BY <1>2, <1>3, ReviewsAreRouted, RefreshIsNamed, GlobalReviewsAreFlat
<1> QED
  BY <1>3, <1>4

\* Nobody but the editor queues chapters.
LEMMA OwedElse ==
  ASSUME NEW by, NEW s, NEW t, Good(s), Good(t), Leads(by, s, t), by # "editor", Owed(s)
  PROVE  Owed(t)
<1> DEFINE p == s.progress
           q == t.progress
<1>1. InOrder(p) /\ InOrder(q)
  BY DEF Good
<1>2. /\ p.completed = <<>> => p.pending = <<>>
      /\ p.layered /\ p.phase # "complete" =>
           \A ch \in ToSet(p.pending) : ch <= LatestCompleted(p)
  BY DEF Owed
<1>3. p.completed # <<>> => (q.layered <=> p.layered)
  BY DEF Leads, Settles
<1>4. \/ SamePages(p, q) /\ (q.phase # "complete" => p.phase # "complete")
      \/ Commits(by, p, q)
  BY DEF Leads, Turns, Rests, Opens, Asks, Ends, Planning
<1> SUFFICES /\ q.completed = <<>> => q.pending = <<>>
             /\ q.layered /\ q.phase # "complete" =>
                  \A ch \in ToSet(q.pending) : ch <= LatestCompleted(q)
  BY DEF Owed
<1> HIDE DEF p, q
<1>5. p.pending = <<>> => ToSet(p.pending) = {}
  BY <1>1, PagesOf
<1>6. CASE SamePages(p, q) /\ (q.phase # "complete" => p.phase # "complete")
  <2>1. q.completed = p.completed /\ q.pending = p.pending
    BY <1>6 DEF SamePages
  <2>2. LatestCompleted(q) = LatestCompleted(p)
    BY <2>1 DEF LatestCompleted
  <2>3. CASE p.completed = <<>>
    BY <1>2, <1>5, <2>1, <2>3
  <2>4. CASE p.completed # <<>>
    BY <1>2, <1>3, <1>6, <2>1, <2>2, <2>4
  <2> QED
    BY <2>3, <2>4
<1>7. CASE Commits(by, p, q)
  <2>1. PICK c \in Numbers :
          /\ p.phase = "writing" /\ q.completed = Append(p.completed, c)
          /\ q.pending = Without(p.pending, c)
    BY <1>7 DEF Commits
  <2>2. /\ ToSet(q.completed) = ToSet(p.completed) \cup {c}
        /\ ToSet(q.pending) = ToSet(p.pending) \ {c}
        /\ q.completed = <<>> <=> ToSet(q.completed) = {}
    <3>1. /\ ToSet(Append(p.completed, c)) = ToSet(p.completed) \cup {c}
          /\ ToSet(Without(p.pending, c)) = ToSet(p.pending) \ {c}
      BY <1>1, PagesOf
    <3>2. q.completed = <<>> <=> ToSet(q.completed) = {}
      BY <1>1, PagesOf
    <3> QED
      BY <2>1, <3>1, <3>2
  <2>3. /\ LatestCompleted(p) \in Nat /\ LatestCompleted(q) \in Nat
        /\ p.completed # <<>> => LatestCompleted(p) \in ToSet(p.completed)
        /\ \A ch \in ToSet(q.completed) : ch <= LatestCompleted(q)
    BY <1>1, Latest
  <2>4. ToSet(p.pending) \subseteq Nat
    BY <1>1, PagesOf, BoundsAssumption DEF Numbers
  <2>5. CASE p.completed = <<>>
    BY <1>2, <1>5, <2>2, <2>5
  <2>6. CASE p.completed # <<>>
    <3>1. LatestCompleted(p) <= LatestCompleted(q)
      BY <2>2, <2>3, <2>6
    <3>2. ASSUME q.layered, NEW ch \in ToSet(q.pending) PROVE ch <= LatestCompleted(q)
      <4>1. ch \in Nat /\ ch <= LatestCompleted(p)
        BY <1>2, <1>3, <2>1, <2>2, <2>4, <2>6, <3>2
      <4> QED
        BY <2>3, <3>1, <4>1
    <3> QED
      BY <2>2, <3>2
  <2> QED
    BY <2>5, <2>6
<1> QED
  BY <1>4, <1>6, <1>7

\* A step that starts no worker, keeps the record's queue and leaves the scripts.
LEMMA QueueKept ==
  ASSUME QueueInv, store'.progress = store.progress,
         inst' = inst \/ inst' = NoInstruction,
         pc' = "route" => pc = "route" /\ next' = next,
         pc' \in {"work", "tool"} => pc \in {"work", "tool"} /\ inst' = inst,
         inst.agent = "editor" => \A n \in DOMAIN script' : Owed(script'[n])
  PROVE  QueueInv'
<1>1. NoInstruction.agent # "editor"
  BY DEF NoInstruction, Instruction
<1>2. Owed(store)' /\ \A i : AsksFlat(i) => AsksFlat(i)'
  BY DEF QueueInv, Owed, AsksFlat
<1>3. (pc = "route" => AsksFlat(next))'
  <2> SUFFICES ASSUME pc' = "route" PROVE AsksFlat(next)'
    OBVIOUS
  <2>1. AsksFlat(next) /\ next' = next
    BY DEF QueueInv
  <2> QED
    BY <1>2, <2>1 DEF AsksFlat
<1>4. (pc \in {"work", "tool"} => AsksFlat(inst))'
  <2> SUFFICES ASSUME pc' \in {"work", "tool"} PROVE AsksFlat(inst)'
    OBVIOUS
  <2>1. AsksFlat(inst) /\ inst' = inst
    BY DEF QueueInv
  <2> QED
    BY <1>2, <2>1 DEF AsksFlat
<1>5. (inst.agent = "editor" => \A n \in DOMAIN script : Owed(script[n]))'
  BY <1>1 DEF Owed
<1> QED
  BY <1>2, <1>3, <1>4, <1>5 DEF QueueInv

\* A call of an architect or the writer.
LEMMA QueueKeptElse ==
  ASSUME QueueInv, Architect \/ Writer
  PROVE  QueueInv'
<1>1. inst.agent # "editor"
  <2>1. CASE Architect
    BY <2>1, ArchitectCalls
  <2>2. CASE Writer
    BY <2>2 DEF Writer, DraftChapter, CommitChapter, Calls
  <2> QED
    BY <2>1, <2>2
<1>2. UNCHANGED <<store, inst, next>> /\ pc = "work" /\ pc' \in {"tool", "work", "failed"}
  BY ArchitectCalls DEF CallsElse, Writer, DraftChapter, CommitChapter, Calls, Reply
<1> QED
  BY <1>1, <1>2, QueueKept

LEMMA FewAreOwed ==
  ASSUME NEW a, NEW b, Owed(a), Owed(b), NEW w \in {<<>>, <<a>>, <<b>>, <<a, b>>}
  PROVE  \A n \in DOMAIN w : Owed(w[n])
<1>1. CASE w = <<>>
  BY <1>1
<1>2. CASE w = <<a>>
  BY <1>2
<1>3. CASE w = <<b>>
  BY <1>3
<1>4. CASE w = <<a, b>>
  BY <1>4
<1> QED
  BY <1>1, <1>2, <1>3, <1>4

\* An arc review queues chapters of the arc that ends where it was asked for.
LEMMA ReviewIsOwed ==
  ASSUME ~Adversary, GoodInv, QueueInv, pc = "work",
         NEW r \in ReviewArgs, NEW issues \in IssueLists, inst.agent = "editor",
         ~ReviewRefused(store, r[1], r[2], issues),
         NEW t, t.progress.completed = store.progress.completed,
         t.progress.phase = store.progress.phase, t.progress.layered = store.progress.layered,
         t.progress.pending = issues
  PROVE  Owed(t)
<1> DEFINE p == store.progress
           b == CheckArcBoundary(store.volumes, r[2])
<1>1. InOrder(p) /\ p.completed # <<>> /\ (p.layered => store.volumes # <<>>)
      /\ store.volumes \in Seq(VolumeOutline)
  BY DEF GoodInv, Good, EditorHasPages, Laid
<1> SUFFICES ASSUME p.layered, p.phase # "complete", NEW ch \in ToSet(issues)
             PROVE  ch <= LatestCompleted(t.progress)
  BY <1>1 DEF Owed
<1>2. LatestCompleted(t.progress) = LatestCompleted(p)
  BY DEF LatestCompleted
<1>3. r[1] = "arc"
  <2>1. inst.kind \notin {"global_review", "refresh_global_review"}
    BY DEF QueueInv, AsksFlat
  <2>2. r \in {<<"arc", Last(inst.at)>>}
    BY <2>1 DEF ReviewArgs
  <2> QED
    BY <2>2
<1>4. p.phase = "writing"
  BY <1>1 DEF InOrder, Planning, Phases, PhaseRank
<1>5. /\ r[2] \in ToSet(p.completed) /\ b.isArcEnd
      /\ \A i \in DOMAIN issues : issues[i] \in b.startChapter..b.endChapter
  BY <1>1, <1>3, <1>4 DEF ReviewRefused, ArcReviewAccepts
<1>6. b.endChapter = r[2]
  <2> DEFINE ending == {x \in Arcs(store.volumes) :
                          IsArcExpanded(ArcAt(store.volumes, x))
                          /\ EndChapter(store.volumes, x) = r[2]}
             x0 == CHOOSE y \in ending : TRUE
  <2>1. ending # {}
    BY <1>5 DEF CheckArcBoundary, NoBoundary
  <2>2. EndChapter(store.volumes, x0) = r[2]
    <3>1. x0 \in ending
      BY <2>1
    <3> QED
      BY <3>1
  <2>3. b.endChapter = EndChapter(store.volumes, x0)
    BY <2>1 DEF CheckArcBoundary, Boundary
  <2> QED
    BY <2>2, <2>3
<1>7. PICK i \in DOMAIN issues : ch = issues[i]
  BY DEF ToSet
<1>8. ch \in b.startChapter..r[2]
  BY <1>5, <1>6, <1>7
<1>9. r[2] \in Nat /\ r[2] <= LatestCompleted(p) /\ LatestCompleted(p) \in Nat
  <2>1. r[2] \in Numbers /\ r[2] <= LatestCompleted(p) /\ LatestCompleted(p) \in Nat
    BY <1>1, <1>5, Latest
  <2> QED
    BY <2>1, BoundsAssumption DEF Numbers
<1>10. ch \in Nat
  <2>1. issues \in Seq(Numbers)
    BY InputAssumption
  <2>2. ch \in Numbers
    BY <1>7, <2>1
  <2> QED
    BY <2>2, BoundsAssumption DEF Numbers
<1>11. ch <= r[2]
  BY <1>8
<1> QED
  BY <1>2, <1>9, <1>10, <1>11

LEMMA QueueKeptByEditor ==
  ASSUME ~Adversary, GoodInv, QueueInv, Editor
  PROVE  QueueInv'
<1>1. pc = "work" /\ UNCHANGED <<store, inst, next>> /\ pc' \in {"tool", "work", "failed"}
  BY EditorCalls DEF CallsElse
<1>2. Owed(store) /\ DOMAIN store.progress =
        {"phase", "flow", "current", "total", "completed", "pending", "layered"}
      /\ DOMAIN store = {"progress", "tier", "files", "outlined", "volumes", "drafts", "finals",
                         "summaries", "globalReviews", "arcReviews", "arcSummaries",
                         "volumeSummaries", "prompt"}
  BY DEF QueueInv, GoodInv, Good, Shape
<1>3. ASSUME NEW r \in ReviewArgs, NEW issues \in IssueLists,
             NEW desired \in {"rewriting", "polishing"}, SaveReview(r[1], r[2], issues, desired)
      PROVE  \A n \in DOMAIN script' : Owed(script'[n])
  <2> DEFINE s1 == SavedReview(store, r[1], r[2])
             s2 == [s1 EXCEPT !.progress.pending = issues, !.progress.flow = desired]
  <2>1. script' \in {<<>>, <<s1>>, <<s1, s2>>} /\ inst.agent = "editor"
        /\ (ReviewRefused(store, r[1], r[2], issues) => script' = <<>>)
    BY <1>3 DEF SaveReview, Calls, Reply
  <2>2. s1.progress = store.progress /\ DOMAIN s1 = DOMAIN store
    BY <1>2 DEF SavedReview
  <2> HIDE DEF s1
  <2>3. /\ s2.progress.completed = store.progress.completed
        /\ s2.progress.phase = store.progress.phase
        /\ s2.progress.layered = store.progress.layered
        /\ s2.progress.pending = issues
    BY <1>2, <2>2
  <2> HIDE DEF s2
  <2>4. Owed(s1)
    BY <1>2, <2>2 DEF Owed
  <2>5. CASE ReviewRefused(store, r[1], r[2], issues)
    BY <2>1, <2>5
  <2>6. CASE ~ReviewRefused(store, r[1], r[2], issues)
    <3>1. Owed(s2)
      BY <1>1, <2>1, <2>3, <2>6, ReviewIsOwed
    <3> QED
      BY <2>1, <2>4, <3>1, FewAreOwed
  <2> QED
    BY <2>5, <2>6
<1>4. ASSUME NEW volume, NEW arc, NEW same, SaveArcSummary(volume, arc, same)
      PROVE  \A n \in DOMAIN script' : Owed(script'[n])
  <2> DEFINE t == [store EXCEPT !.arcSummaries = @ \cup {<<volume, arc>>}]
  <2>1. script' \in {<<>>, <<t>>}
    BY <1>4 DEF SaveArcSummary, Reply
  <2>2. t.progress = store.progress
    BY <1>2
  <2> HIDE DEF t
  <2>3. Owed(t)
    BY <1>2, <2>2 DEF Owed
  <2> QED
    BY <2>1, <2>3, FewAreOwed
<1>5. ASSUME NEW volume, NEW same, SaveVolumeSummary(volume, same)
      PROVE  \A n \in DOMAIN script' : Owed(script'[n])
  <2> DEFINE s1 == [store EXCEPT !.volumeSummaries = @ \cup {volume}]
             c1 == Completed(s1)
  <2>1. \E w \in {<<>>, <<s1>>}, z \in {<<>>, <<c1>>} : script' = <<>> \/ script' = w \o z
    BY <1>5 DEF SaveVolumeSummary, Reply
  <2>2. s1.progress = store.progress /\ DOMAIN s1 = DOMAIN store
    BY <1>2
  <2> HIDE DEF s1
  <2>3. /\ c1.progress.completed = store.progress.completed
        /\ c1.progress.pending = store.progress.pending /\ c1.progress.phase = "complete"
    BY <1>2, <2>2 DEF Completed
  <2> HIDE DEF c1
  <2>4. Owed(s1) /\ Owed(c1)
    BY <1>2, <2>2, <2>3 DEF Owed
  <2>5. script' \in Seq({s1, c1})
    <3>1. <<>> \in Seq({s1, c1}) /\ <<s1>> \in Seq({s1, c1}) /\ <<c1>> \in Seq({s1, c1})
      OBVIOUS
    <3>2. \A w, z \in Seq({s1, c1}) : w \o z \in Seq({s1, c1})
      BY ConcatProperties
    <3> QED
      BY <2>1, <3>1, <3>2
  <2>6. \A n \in DOMAIN script' : script'[n] \in {s1, c1}
    BY <2>5
  <2> QED
    BY <2>4, <2>6
<1>6. \A n \in DOMAIN script' : Owed(script'[n])
  BY <1>3, <1>4, <1>5 DEF Editor
<1> QED
  BY <1>1, <1>6, QueueKept

LEMMA QueueKeptByWrite ==
  ASSUME GoodInv, KeepsGood, QueueInv, WriteNext
  PROVE  QueueInv'
<1>1. /\ pc = "tool" /\ store' = Head(script) /\ script' = Tail(script)
      /\ inst' = inst /\ next' = next /\ pc' \in {"tool", "failed", "work"}
  BY DEF WriteNext
<1>2. script # <<>>
  BY <1>1 DEF GoodInv
<1>3. /\ 1 \in DOMAIN script /\ Head(script) = script[1]
      /\ \A n \in DOMAIN Tail(script) : n + 1 \in DOMAIN script /\ Tail(script)[n] = script[n + 1]
  BY <1>2, ScriptParts DEF GoodInv
<1>4. Owed(store)'
  <2>1. CASE inst.agent = "editor"
    BY <1>1, <1>3, <2>1 DEF QueueInv, Owed
  <2>2. CASE inst.agent # "editor"
    <3>1. Owed(store')
      BY <2>2, OwedElse DEF KeepsGood, GoodInv, Good, QueueInv
    <3> QED
      BY <3>1 DEF Owed
  <2> QED
    BY <2>1, <2>2
<1>5. AsksFlat(inst)'
  <2> SUFFICES ASSUME inst.kind \in {"global_review", "refresh_global_review"}
               PROVE  inst.agent = "editor" /\ ~store'.progress.layered
    BY <1>1 DEF AsksFlat
  <2>1. inst.agent = "editor" /\ ~store.progress.layered
    BY <1>1 DEF QueueInv, AsksFlat
  <2>2. store.progress.completed # <<>>
    BY <2>1 DEF GoodInv, EditorHasPages
  <2> QED
    BY <2>1, <2>2 DEF KeepsGood, Leads, Settles
<1>6. (inst.agent = "editor" => \A n \in DOMAIN script : Owed(script[n]))'
  BY <1>1, <1>3 DEF QueueInv, Owed
<1> QED
  BY <1>1, <1>4, <1>5, <1>6 DEF QueueInv

LEMMA QueueKeptByDispatch ==
  ASSUME GoodInv, QueueInv, Dispatch
  PROVE  QueueInv'
<1>1. /\ pc = "route" /\ pc' = "work" /\ inst' = next /\ script' = script
  BY DEF Dispatch
<1>2. script' = <<>>
  BY <1>1 DEF GoodInv
<1> DEFINE p == store.progress
           q == store'.progress
<1>3. /\ q.completed = p.completed /\ q.pending = p.pending /\ q.phase = p.phase
      /\ q.layered = p.layered
  <2> DEFINE d == DispatchedProgress(store.progress, next.chapter)
             s1 == [store EXCEPT !.progress = d]
             s2 == [store EXCEPT !.tier = store.prompt]
  <2>1. store' \in {store, s1, s2}
    BY DEF Dispatch
  <2>2. /\ d.completed = p.completed /\ d.pending = p.pending /\ d.phase = p.phase
        /\ d.layered = p.layered
    BY DEF DispatchedProgress, GoodInv, Good, Shape
  <2> HIDE DEF d
  <2>3. s1.progress = d /\ s2.progress = store.progress
    BY DEF GoodInv, Good, Shape
  <2> HIDE DEF s1, s2
  <2> QED
    BY <2>1, <2>2, <2>3
<1>4. LatestCompleted(q) = LatestCompleted(p)
  BY <1>3 DEF LatestCompleted
<1> HIDE DEF p, q
<1>5. Owed(store)'
  BY <1>3, <1>4 DEF QueueInv, Owed, p, q
<1>6. AsksFlat(inst)'
  BY <1>1, <1>3 DEF QueueInv, AsksFlat, p, q
<1> QED
  BY <1>1, <1>2, <1>5, <1>6 DEF QueueInv

LEMMA QueueKeptByLoad ==
  ASSUME QueueInv, LoadState
  PROVE  QueueInv'
<1>1. pc' = "route" /\ next' = NextInstruction /\ UNCHANGED <<store, inst, script>>
  BY DEF LoadState
<1>2. AsksFlat(next)'
  BY <1>1, ReviewsAreCalled DEF AsksFlat
<1> QED
  BY <1>1, <1>2 DEF QueueInv, Owed

LEMMA QueueKeptByLoop ==
  ASSUME GoodInv, QueueInv,
         EndTurn \/ WorkerThrows \/ FinishRun \/ WorkerFailed \/ Crash \/ Runs \/ Consult
         \/ UNCHANGED vars
  PROVE  QueueInv'
<1>1. CASE UNCHANGED vars
  BY <1>1, QueueKept DEF vars, QueueInv
<1>2. CASE EndTurn \/ WorkerThrows
  <2>1. UNCHANGED <<store, inst, next, script>> /\ pc' \in {"loop", "failed"}
    BY <1>2 DEF EndTurn, WorkerThrows, WorkerDone
  <2> QED
    BY <2>1, QueueKept DEF QueueInv
<1>3. ASSUME Stop, UNCHANGED store PROVE QueueInv'
  BY <1>3, QueueKept DEF Stop
<1>4. CASE FinishRun \/ Crash
  BY <1>3, <1>4 DEF FinishRun, Crash
<1>5. CASE WorkerFailed
  <2>1. CASE failedKey = inst
    BY <1>3, <1>5, <2>1 DEF WorkerFailed
  <2>2. CASE failedKey # inst
    <3>1. UNCHANGED <<store, inst, next, script>> /\ pc' = "loop"
      BY <1>5, <2>2 DEF WorkerFailed
    <3> QED
      BY <3>1, QueueKept DEF QueueInv
  <2> QED
    BY <2>1, <2>2
<1>6. CASE Runs
  <2>1. PICK tier \in PlanTiers : StartRun(tier)
    BY <1>6 DEF Runs
  <2> DEFINE t == [store EXCEPT !.prompt = tier]
  <2>2. /\ store' = t /\ UNCHANGED <<inst, next, script>> /\ pc = "idle" /\ pc' = "loop"
    BY <2>1 DEF StartRun
  <2>3. t.progress = store.progress
    BY DEF GoodInv, Good, Shape
  <2> HIDE DEF t
  <2>4. script' = <<>>
    BY <2>2 DEF GoodInv
  <2> QED
    BY <2>2, <2>3, <2>4, QueueKept
<1>7. CASE Consult
  <2>1. pc = "work" /\ UNCHANGED <<store, inst, next>> /\ script' = <<>>
        /\ pc' \in {"tool", "work", "failed"}
    BY <1>7 DEF Consult, Reply
  <2> QED
    BY <2>1, QueueKept
<1> QED
  BY <1>1, <1>2, <1>4, <1>5, <1>6, <1>7

LEMMA QueueInvHolds == ~Adversary => (Spec => []QueueInv)
<1> SUFFICES ASSUME ~Adversary PROVE Spec => []QueueInv
  OBVIOUS
<1>1. Init => QueueInv
  <2> SUFFICES ASSUME Init PROVE QueueInv
    OBVIOUS
  <2>1. /\ store.progress.completed = <<>> /\ store.progress.pending = <<>>
        /\ ~store.progress.layered
    BY DEF Init, EmptyStore, EmptyProgress
  <2>2. NoInstruction.agent # "editor" /\ NoInstruction.kind = "none"
    BY DEF NoInstruction, Instruction
  <2>3. Owed(store)
    BY <2>1 DEF Owed
  <2> QED
    BY <2>2, <2>3 DEF Init, QueueInv, AsksFlat
<1>2. GoodInv /\ QueueInv /\ [Next]_vars => QueueInv'
  <2> SUFFICES ASSUME GoodInv, QueueInv, [Next]_vars PROVE QueueInv'
    OBVIOUS
  <2>1. KeepsGood
    BY StepKeepsGood
  <2> QED
    BY <2>1, QueueKeptElse, QueueKeptByEditor, QueueKeptByWrite, QueueKeptByDispatch,
       QueueKeptByLoad, QueueKeptByLoop DEF Next, EngineStep
<1> QED
  BY <1>1, <1>2, GoodInvHolds, PTL DEF Spec

\* Of a model that keeps to its instruction only a flat book's reviews may queue a
\* chapter that is not written.
FlatQueueIsWritten == store.progress.layered \/ QueueIsWritten

LEMMA FocusedInTurn == ~Adversary => (Spec /\ []FlatQueueIsWritten => []WrittenInTurn)
<1> SUFFICES ASSUME ~Adversary PROVE Spec /\ []FlatQueueIsWritten => []WrittenInTurn
  OBVIOUS
<1>1. Init => WrittenInTurn
  BY InitIsInTurn
<1>2. GoodInv /\ QueueInv /\ FlatQueueIsWritten /\ WrittenInTurn /\ [Next]_vars => WrittenInTurn'
  <2> SUFFICES ASSUME GoodInv, QueueInv, FlatQueueIsWritten, WrittenInTurn, [Next]_vars
               PROVE  WrittenInTurn'
    OBVIOUS
  <2> DEFINE p == store.progress
  <2>1. Good(store) /\ Leads(inst.agent, store, store') /\ InOrder(p) /\ InTurn(p)
    BY StepKeepsGood DEF KeepsGood, GoodInv, Good, WrittenInTurn
  <2>2. ASSUME p.phase = "writing" PROVE ToSet(p.pending) \subseteq ToSet(p.completed)
    <3>1. CASE QueueIsWritten
      BY <3>1 DEF QueueIsWritten, Done
    <3>2. CASE p.layered
      <4>1. \A ch \in ToSet(p.pending) : ch <= LatestCompleted(p)
        BY <2>2, <3>2 DEF QueueInv, Owed
      <4>2. ToSet(p.completed) = 1..LatestCompleted(p) /\ LatestCompleted(p) \in Nat
        BY <2>1, WrittenUpToLatest, Latest
      <4>3. ToSet(p.pending) \subseteq Numbers
        BY <2>1, PagesOf
      <4> QED
        BY <4>1, <4>2, <4>3, BoundsAssumption DEF Numbers
    <3> QED
      BY <3>1, <3>2 DEF FlatQueueIsWritten
  <2> QED
    BY <2>1, <2>2, LeadsInTurn DEF WrittenInTurn
<1> QED
  BY <1>1, <1>2, GoodInvHolds, QueueInvHolds, PTL DEF Spec

\* A layered book of such a model is complete only when every chapter it counts is
\* committed, whatever its reviews ask for: they are about the arc just written.
THEOREM LayeredCompletionIsWhole ==
  ~Adversary => (Spec /\ []FlatQueueIsWritten => CompletionIsEarned)
BY FocusedInTurn, CompletionInTurn, PTL

-----------------------------------------------------------------------------
(* Inside the outline. *)

\* The chapters of a layered book lie inside its outline.
Covered(s) ==
  s.progress.layered => LatestCompleted(s.progress) <= FlattenedLength(s.volumes)

Within(i) ==
  /\ store.progress.layered => i.chapter <= FlattenedLength(store.volumes)
  /\ i.kind = "write" /\ ~store.progress.layered =>
       store.progress.total = 0 \/ i.chapter <= store.progress.total

\* What is written stays inside the outline, and so does what the writer is at.
InsideInv ==
  /\ Covered(store)
  /\ pc = "route" /\ next.agent = "writer" => Within(next)
  /\ pc \in {"work", "tool"} /\ inst.agent = "writer" => Within(inst)
  /\ inst.agent = "writer" => \A n \in DOMAIN script : Covered(script[n])

LEMMA OutlineLength ==
  ASSUME NEW s, Good(s)
  PROVE  /\ FlattenedLength(s.volumes) \in Nat
         /\ s.progress.layered => FlattenedLength(s.volumes) >= 1
<1>1. s.volumes \in Seq(VolumeOutline) /\ (s.volumes # <<>> => OpensExpanded(s.volumes))
      /\ (s.progress.layered => s.volumes # <<>>)
  BY DEF Good, Laid
<1>2. FlattenedLength(s.volumes) \in Nat
  BY <1>1, ChaptersAreFinite DEF FlattenedLength
<1>3. s.progress.layered => FlattenedLength(s.volumes) >= 1
  BY <1>1, OpensWithChapters DEF OpensExpanded
<1> QED
  BY <1>2, <1>3

LEMMA CoveredStays ==
  ASSUME NEW s, NEW t, Covered(s), t.volumes = s.volumes,
         t.progress.layered = s.progress.layered, t.progress.completed = s.progress.completed
  PROVE  Covered(t)
BY DEF Covered, LatestCompleted

\* Architects and editors commit nothing and take no chapter out of the outline.
LEMMA CoveredElse ==
  ASSUME NEW by, NEW s, NEW t, Good(s), Good(t), Leads(by, s, t), by # "writer", Covered(s)
  PROVE  Covered(t)
<1>1. LatestCompleted(t.progress) = LatestCompleted(s.progress)
      /\ t.progress.completed = s.progress.completed
  BY PagesGrow DEF LatestCompleted
<1>2. FlattenedLength(t.volumes) \in Nat /\ FlattenedLength(s.volumes) \in Nat
  BY OutlineLength
<1>3. LatestCompleted(s.progress) \in Nat
      /\ (s.progress.completed = <<>> => LatestCompleted(s.progress) = 0)
  BY Latest DEF Good
<1>4. CASE s.progress.completed = <<>>
  BY <1>1, <1>2, <1>3, <1>4 DEF Covered
<1>5. CASE s.progress.completed # <<>>
  <2> SUFFICES ASSUME t.progress.layered
               PROVE  LatestCompleted(t.progress) <= FlattenedLength(t.volumes)
    BY DEF Covered
  <2>1. s.progress.layered
    BY <1>5 DEF Leads, Settles
  <2>2. \A x \in Arcs(s.volumes) : IsArcExpanded(ArcAt(s.volumes, x)) =>
          x \in Arcs(t.volumes) /\ ArcAt(t.volumes, x) = ArcAt(s.volumes, x)
    BY <1>5, <2>1 DEF Leads, Settles
  <2>3. FlattenedLength(t.volumes) >= FlattenedLength(s.volumes)
    BY <2>2, GrowthCounts DEF Good, Laid
  <2>4. LatestCompleted(s.progress) <= FlattenedLength(s.volumes)
    BY <2>1 DEF Covered
  <2> QED
    BY <1>1, <1>2, <1>3, <2>3, <2>4
<1> QED
  BY <1>4, <1>5

\* A commit inside the outline.
LEMMA CommitIsCovered ==
  ASSUME NEW s, NEW ch \in Numbers, Good(s), ~CommitRefused(s, ch),
         ch \notin ToSet(s.progress.completed), Covered(s),
         s.progress.layered => ch <= FlattenedLength(s.volumes)
  PROVE  \A n \in DOMAIN CommitWrites(s, ch) : Covered(CommitWrites(s, ch)[n])
<1> DEFINE s1 == [s EXCEPT !.finals = @ \cup {ch}]
           q  == CommittedProgress(s1.progress, ch)
           s2 == [s1 EXCEPT !.progress = q]
           s3 == [s2 EXCEPT !.summaries = @ \cup {ch}]
<1>1. CommitWrites(s, ch) = <<s1, s2, s3>>
  BY DEF CommitWrites
<1>2. DOMAIN s1 = DOMAIN s /\ s1.progress = s.progress /\ s1.volumes = s.volumes
  BY DEF Good, Shape
<1> HIDE DEF s1
<1>3. InOrder(q) /\ q.layered = s.progress.layered
      /\ ToSet(q.completed) = ToSet(s.progress.completed) \cup {ch}
  <2> DEFINE p == s.progress
  <2>1. /\ InOrder(p) /\ p.phase = "writing" /\ ch = ExpectedChapter(p)
        /\ DOMAIN p = {"phase", "flow", "current", "total", "completed", "pending", "layered"}
        /\ ch \notin ToSet(p.completed) /\ q = CommittedProgress(p, ch)
    BY <1>2 DEF Good, Shape, CommitRefused
  <2> HIDE DEF p, q
  <2>2. InOrder(q) /\ q.layered = p.layered
    BY <2>1, CommittedInOrder
  <2>3. q.completed = Append(p.completed, ch)
    BY <2>1 DEF CommittedProgress
  <2>4. ToSet(Append(p.completed, ch)) = ToSet(p.completed) \cup {ch}
    BY <2>1, PagesOf
  <2> QED
    BY <2>2, <2>3, <2>4 DEF p
<1> HIDE DEF q
<1>4. DOMAIN s2 = DOMAIN s /\ s2.progress = q /\ s2.volumes = s.volumes
  BY <1>2 DEF Good, Shape
<1> HIDE DEF s2
<1>5. s3.progress = q /\ s3.volumes = s.volumes
  BY <1>4 DEF Good, Shape
<1> HIDE DEF s3
<1>6. s.progress.layered => LatestCompleted(q) <= FlattenedLength(s.volumes)
  <2> SUFFICES ASSUME s.progress.layered
               PROVE  LatestCompleted(q) <= FlattenedLength(s.volumes)
    OBVIOUS
  <2>1. /\ LatestCompleted(q) \in Nat
        /\ q.completed = <<>> => LatestCompleted(q) = 0
        /\ q.completed # <<>> => LatestCompleted(q) \in ToSet(q.completed)
    BY <1>3, Latest
  <2>2. /\ LatestCompleted(s.progress) \in Nat
        /\ \A c \in ToSet(s.progress.completed) :
             c \in Nat /\ c <= LatestCompleted(s.progress)
    BY Latest DEF Good, Numbers
  <2>3. FlattenedLength(s.volumes) \in Nat
    BY OutlineLength
  <2>4. LatestCompleted(s.progress) <= FlattenedLength(s.volumes)
    BY DEF Covered
  <2>5. CASE q.completed = <<>>
    BY <2>1, <2>3, <2>5
  <2>6. CASE LatestCompleted(q) = ch
    BY <2>6
  <2>7. CASE LatestCompleted(q) \in ToSet(s.progress.completed)
    BY <2>2, <2>3, <2>4, <2>7
  <2> QED
    BY <1>3, <2>1, <2>5, <2>6, <2>7
<1>7. Covered(s1) /\ Covered(s2) /\ Covered(s3)
  BY <1>2, <1>3, <1>4, <1>5, <1>6 DEF Covered
<1>8. \A n \in DOMAIN <<s1, s2, s3>> : Covered(<<s1, s2, s3>>[n])
  BY <1>7
<1> QED
  BY <1>1, <1>8

\* The writer is sent inside the outline.
LEMMA NextIsWithin ==
  ASSUME Good(store), Covered(store), Owed(store), NEW i,
         WriterIsDue(AssembleState(store), i)
  PROVE  Within(i)
<1> DEFINE p == store.progress
           last == LatestCompleted(p)
           length == FlattenedLength(store.volumes)
           f == AssembleState(store)
           b == CheckArcBoundary(store.volumes, last)
<1>1. f.progress = p
  BY DEF AssembleState
<1>2. InOrder(p) /\ store.volumes \in Seq(VolumeOutline) /\ Numbered(store.volumes)
      /\ (p.layered => store.volumes # <<>>)
  BY DEF Good, Laid
<1>3. last \in Nat /\ length \in Nat /\ (p.layered => length >= 1 /\ last <= length)
  BY <1>2, Latest, OutlineLength DEF Covered
<1>4. p.layered => i.chapter <= length
  <2> SUFFICES ASSUME p.layered PROVE i.chapter <= length
    OBVIOUS
  <2>1. CASE p.pending # <<>>
    <3>1. i.chapter = p.pending[1]
      BY <1>1, <2>1 DEF WriterIsDue
    <3>2. i.chapter \in ToSet(p.pending) /\ i.chapter \in Numbers
      BY <1>2, <2>1, <3>1, PagesOf
    <3>3. i.chapter \in Nat /\ i.chapter <= last
      <4>1. p.phase = "writing"
        BY <1>1 DEF WriterIsDue
      <4>2. i.chapter <= last
        BY <3>2, <4>1 DEF Owed
      <4> QED
        BY <3>2, <4>2, BoundsAssumption DEF Numbers
    <3> QED
      BY <1>3, <3>3
  <2>2. CASE p.pending = <<>>
    <3>1. /\ i.chapter = last + 1
          /\ f.arcBoundary.isArcEnd => ArcEndInstruction(f) = NoInstruction
      BY <1>1, <2>2 DEF WriterIsDue, NextChapter
    <3>2. last > 0 => f.arcBoundary = b
      BY <1>2 DEF AssembleState, HasArcFacts
    <3>3. last # length
      <4> SUFFICES ASSUME last = length PROVE FALSE
        OBVIOUS
      <4>1. b.isArcEnd /\ (b.needsNewVolume \/ (b.needsExpansion /\ b.nextArc > 0))
        BY <1>2, <1>3, OutlineEnds
      <4>2. f.arcBoundary = b
        BY <1>3, <3>2
      <4> HIDE DEF f, b
      <4>3. ArcEndInstruction(f) = NoInstruction
        BY <3>1, <4>1, <4>2
      <4>4. \A kind, missing, at, chapter :
              /\ Instruction("editor", kind, missing, at, chapter) # NoInstruction
              /\ Instruction("architect_long", kind, missing, at, chapter) # NoInstruction
        BY DEF Instruction, NoInstruction
      <4> QED
        BY <4>1, <4>2, <4>3, <4>4 DEF ArcEndInstruction
    <3> QED
      BY <1>3, <3>1, <3>3
  <2> QED
    BY <2>1, <2>2
<1>5. i.kind = "write" /\ ~p.layered => p.total = 0 \/ i.chapter <= p.total
  <2> SUFFICES ASSUME i.kind = "write", ~p.layered PROVE p.total = 0 \/ i.chapter <= p.total
    OBVIOUS
  <2>1. i.chapter = last + 1 /\ (p.total > 0 => ~(last + 1 > p.total))
    BY <1>1 DEF WriterIsDue, NextChapter
  <2>2. p.total \in Nat
    BY <1>2 DEF InOrder
  <2> QED
    BY <1>3, <2>1, <2>2
<1> QED
  BY <1>4, <1>5 DEF Within

LEMMA WithinStays ==
  ASSUME WriterKeeps(store, store'), NEW i, Within(i)
  PROVE  Within(i)'
BY DEF Within, WriterKeeps

\* A step that starts no worker, writes no chapter and keeps the outline.
LEMMA InsideKept ==
  ASSUME InsideInv, WriterKeeps(store, store'),
         store'.progress.completed = store.progress.completed,
         inst' = inst \/ inst' = NoInstruction,
         pc' = "route" => pc = "route" /\ next' = next,
         pc' \in {"work", "tool"} => pc \in {"work", "tool"} /\ inst' = inst,
         inst.agent = "writer" => \A n \in DOMAIN script' : Covered(script'[n])
  PROVE  InsideInv'
<1>1. NoInstruction.agent # "writer"
  BY DEF NoInstruction, Instruction
<1>2. Covered(store')
  BY CoveredStays DEF InsideInv, WriterKeeps
<1>3. \A i : Within(i) => Within(i)'
  BY WithinStays
<1>4. (pc = "route" /\ next.agent = "writer" => Within(next))'
  <2> SUFFICES ASSUME pc' = "route", next'.agent = "writer" PROVE Within(next)'
    OBVIOUS
  <2>1. Within(next) /\ next' = next
    BY DEF InsideInv
  <2> QED
    BY <1>3, <2>1 DEF Within
<1>5. (pc \in {"work", "tool"} /\ inst.agent = "writer" => Within(inst))'
  <2> SUFFICES ASSUME pc' \in {"work", "tool"}, inst'.agent = "writer" PROVE Within(inst)'
    OBVIOUS
  <2>1. Within(inst) /\ inst' = inst
    BY DEF InsideInv
  <2> QED
    BY <1>3, <2>1 DEF Within
<1>6. (inst.agent = "writer" => \A n \in DOMAIN script : Covered(script[n]))'
  BY <1>1 DEF Covered
<1>7. Covered(store)'
  BY <1>2 DEF Covered
<1> QED
  BY <1>4, <1>5, <1>6, <1>7 DEF InsideInv

LEMMA InsideKeptElse ==
  ASSUME InsideInv, CallsElse
  PROVE  InsideInv'
BY InsideKept, StoreKept DEF CallsElse

LEMMA InsideKeptByWriter ==
  ASSUME ~Adversary, GoodInv, InsideInv, Writer
  PROVE  InsideInv'
<1>1. PICK ch \in ChapterArgs : DraftChapter(ch) \/ CommitChapter(ch)
  BY DEF Writer
<1>2. ch = inst.chapter /\ ch \in Numbers
  BY DEF ChapterArgs
<1>3. /\ pc = "work" /\ inst.agent = "writer" /\ UNCHANGED <<store, inst, next>>
      /\ pc' \in {"tool", "work", "failed"}
  BY <1>1 DEF DraftChapter, CommitChapter, Calls, Reply
<1>4. \/ script' = <<>>
      \/ script' = <<[store EXCEPT !.drafts = @ \cup {ch}]>>
      \/ /\ ~CommitRefused(store, ch) /\ ch \notin ToSet(store.progress.completed)
         /\ script' = CommitWrites(store, ch)
  BY <1>1 DEF DraftChapter, CommitChapter, Reply, PhaseIs, CommitRefused
<1>5. Good(store) /\ Covered(store) /\ (store.progress.layered => ch <= FlattenedLength(store.volumes))
  BY <1>2, <1>3 DEF GoodInv, InsideInv, Within
<1>6. \A n \in DOMAIN script' : Covered(script'[n])
  <2>1. CASE script' = <<>>
    BY <2>1
  <2>2. CASE script' = <<[store EXCEPT !.drafts = @ \cup {ch}]>>
    <3> DEFINE t == [store EXCEPT !.drafts = @ \cup {ch}]
    <3>1. t.progress = store.progress /\ t.volumes = store.volumes
      BY <1>5 DEF Good, Shape
    <3> HIDE DEF t
    <3>2. Covered(t)
      BY <1>5, <3>1, CoveredStays
    <3>3. \A n \in DOMAIN <<t>> : <<t>>[n] = t
      OBVIOUS
    <3> QED
      BY <2>2, <3>2, <3>3 DEF t
  <2>3. CASE /\ ~CommitRefused(store, ch) /\ ch \notin ToSet(store.progress.completed)
             /\ script' = CommitWrites(store, ch)
    BY <1>2, <1>5, <2>3, CommitIsCovered
  <2> QED
    BY <1>4, <2>1, <2>2, <2>3
<1> QED
  BY <1>3, <1>6, InsideKept, StoreKept

LEMMA InsideKeptByWrite ==
  ASSUME GoodInv, DuesInv, KeepsGood, InsideInv, WriteNext
  PROVE  InsideInv'
<1>1. /\ pc = "tool" /\ store' = Head(script) /\ script' = Tail(script)
      /\ inst' = inst /\ next' = next /\ pc' \in {"tool", "failed", "work"}
  BY DEF WriteNext
<1>2. script # <<>>
  BY <1>1 DEF GoodInv
<1>3. CASE inst.agent # "writer"
  <2>1. Covered(store')
    BY <1>3, CoveredElse DEF KeepsGood, GoodInv, Good, InsideInv
  <2> QED
    BY <1>1, <1>3, <2>1 DEF InsideInv, Covered
<1>4. CASE inst.agent = "writer"
  <2>1. /\ 1 \in DOMAIN script /\ Head(script) = script[1]
        /\ \A n \in DOMAIN Tail(script) : n + 1 \in DOMAIN script /\ Tail(script)[n] = script[n + 1]
    BY <1>2, ScriptParts DEF GoodInv
  <2>2. WriterKeeps(store, store') /\ Covered(store')
    BY <1>1, <1>4, <2>1 DEF DuesInv, InsideInv
  <2>3. \A n \in DOMAIN script' : Covered(script'[n])
    BY <1>1, <1>4, <2>1 DEF InsideInv
  <2>4. Within(inst) /\ Within(inst)'
    <3>1. Within(inst)
      BY <1>1, <1>4 DEF InsideInv
    <3>2. \A i : Within(i) => Within(i)'
      BY <2>2, WithinStays
    <3> QED
      BY <1>1, <3>1, <3>2 DEF Within
  <2> QED
    BY <1>1, <2>2, <2>3, <2>4 DEF InsideInv, Covered
<1> QED
  BY <1>3, <1>4

LEMMA InsideKeptByDispatch ==
  ASSUME GoodInv, InsideInv, Dispatch
  PROVE  InsideInv'
<1>1. /\ pc = "route" /\ pc' = "work" /\ inst' = next /\ next' = NoInstruction
      /\ script' = script
  BY DEF Dispatch
<1>2. script' = <<>>
  BY <1>1 DEF GoodInv
<1>3. WriterKeeps(store, store') /\ store'.progress.completed = store.progress.completed
  BY DispatchIsKept
<1>4. Covered(store')
  BY <1>3, CoveredStays DEF InsideInv, WriterKeeps
<1>5. (inst.agent = "writer" => Within(inst))'
  <2> SUFFICES ASSUME inst'.agent = "writer" PROVE Within(inst)'
    OBVIOUS
  <2>1. Within(next)
    BY <1>1 DEF InsideInv
  <2>2. \A i : Within(i) => Within(i)'
    BY <1>3, WithinStays
  <2> QED
    BY <1>1, <2>1, <2>2 DEF Within
<1> QED
  BY <1>1, <1>2, <1>4, <1>5 DEF InsideInv, Covered

LEMMA InsideKeptByLoad ==
  ASSUME GoodInv, QueueInv, InsideInv, LoadState
  PROVE  InsideInv'
<1>1. /\ pc' = "route" /\ next' = NextInstruction /\ UNCHANGED <<store, inst, script>>
  BY DEF LoadState
<1>2. next'.agent = "writer" => Within(next')
  BY <1>1, WriterIsCalled, NextIsWithin DEF GoodInv, InsideInv, QueueInv
<1>3. (next.agent = "writer" => Within(next))'
  BY <1>1, <1>2 DEF Within
<1>4. (inst.agent = "writer" => \A n \in DOMAIN script : Covered(script[n]))' /\ Covered(store)'
  BY <1>1 DEF InsideInv, Covered
<1> QED
  BY <1>1, <1>3, <1>4 DEF InsideInv

LEMMA InsideKeptByLoop ==
  ASSUME GoodInv, InsideInv,
         EndTurn \/ WorkerThrows \/ FinishRun \/ WorkerFailed \/ Crash \/ Runs \/ Consult
         \/ UNCHANGED vars
  PROVE  InsideInv'
<1>1. CASE UNCHANGED vars
  BY <1>1, InsideKept, StoreKept DEF vars, InsideInv
<1>2. CASE EndTurn \/ WorkerThrows
  <2>1. UNCHANGED <<store, inst, next, script>> /\ pc' \in {"loop", "failed"}
    BY <1>2 DEF EndTurn, WorkerThrows, WorkerDone
  <2> QED
    BY <2>1, InsideKept, StoreKept DEF InsideInv
<1>3. ASSUME Stop, UNCHANGED store PROVE InsideInv'
  BY <1>3, InsideKept, StoreKept DEF Stop
<1>4. CASE FinishRun \/ Crash
  BY <1>3, <1>4 DEF FinishRun, Crash
<1>5. CASE WorkerFailed
  <2>1. CASE failedKey = inst
    BY <1>3, <1>5, <2>1 DEF WorkerFailed
  <2>2. CASE failedKey # inst
    <3>1. UNCHANGED <<store, inst, next, script>> /\ pc' = "loop"
      BY <1>5, <2>2 DEF WorkerFailed
    <3> QED
      BY <3>1, InsideKept, StoreKept DEF InsideInv
  <2> QED
    BY <2>1, <2>2
<1>6. CASE Runs
  <2>1. PICK tier \in PlanTiers : StartRun(tier)
    BY <1>6 DEF Runs
  <2> DEFINE t == [store EXCEPT !.prompt = tier]
  <2>2. /\ store' = t /\ UNCHANGED <<inst, next, script>> /\ pc = "idle" /\ pc' = "loop"
    BY <2>1 DEF StartRun
  <2>3. WriterKeeps(store, t) /\ t.progress.completed = store.progress.completed
    BY DEF WriterKeeps, GoodInv, Good, Shape
  <2> HIDE DEF t
  <2>4. script' = <<>>
    BY <2>2 DEF GoodInv
  <2> QED
    BY <2>2, <2>3, <2>4, InsideKept
<1>7. CASE Consult
  <2>1. pc = "work" /\ UNCHANGED <<store, inst, next>> /\ script' = <<>>
        /\ pc' \in {"tool", "work", "failed"}
    BY <1>7 DEF Consult, Reply
  <2> QED
    BY <2>1, InsideKept, StoreKept
<1> QED
  BY <1>1, <1>2, <1>4, <1>5, <1>6, <1>7

LEMMA InsideInvHolds == ~Adversary => (Spec => []InsideInv)
<1> SUFFICES ASSUME ~Adversary PROVE Spec => []InsideInv
  OBVIOUS
<1>1. Init => InsideInv
  <2> SUFFICES ASSUME Init PROVE InsideInv
    OBVIOUS
  <2>1. store.progress = EmptyProgress /\ EmptyProgress.layered = FALSE
    BY DEF Init, EmptyStore, EmptyProgress
  <2>2. NoInstruction.agent # "writer"
    BY DEF NoInstruction, Instruction
  <2>3. Covered(store)
    BY <2>1 DEF Covered
  <2> QED
    BY <2>2, <2>3 DEF Init, InsideInv
<1>2. GoodInv /\ DuesInv /\ QueueInv /\ InsideInv /\ [Next]_vars => InsideInv'
  <2> SUFFICES ASSUME GoodInv, DuesInv, QueueInv, InsideInv, [Next]_vars PROVE InsideInv'
    OBVIOUS
  <2>1. KeepsGood
    BY StepKeepsGood
  <2> QED
    BY <2>1, ArchitectCalls, EditorCalls, InsideKeptElse, InsideKeptByWriter, InsideKeptByWrite,
       InsideKeptByDispatch, InsideKeptByLoad, InsideKeptByLoop DEF Next, EngineStep
<1> QED
  BY <1>1, <1>2, GoodInvHolds, DuesInvHolds, QueueInvHolds, PTL DEF Spec

\* The writer of a model that keeps to its instruction is never sent past the
\* outline: at its end the router asks for an expansion, a volume or the end of the
\* book, a review queues nothing beyond it, and no call takes a chapter out of it
\* again.  An adversary may commit on and pass the arc end the router looks for.
THEOREM WritingStaysInside == ~Adversary => (Spec => []WriteInsideOutline)
<1> SUFFICES ASSUME ~Adversary PROVE Spec => []WriteInsideOutline
  OBVIOUS
<1>1. DuesInv /\ InsideInv => WriteInsideOutline
  BY DEF DuesInv, InsideInv, Within, WriteInsideOutline
<1> QED
  BY <1>1, InsideInvHolds, DuesInvHolds, PTL

-----------------------------------------------------------------------------
(* No volume twice. *)

\* The volumes the model supplies.
Supplied == NewVolumes \cup UNION {ToSet(vols) : vols \in LayeredPlans}

FullyPlanned(volume) == \A a \in DOMAIN volume.arcs : IsArcExpanded(volume.arcs[a])

PlansDiffer(vols) ==
  \A v \in 1..Len(vols) - 1 :
    vols[v].title = vols[v + 1].title => vols[v].plan # vols[v + 1].plan

\* What the model may not do: save an outline that has a volume twice in a row, or
\* supply a volume to append under the plan of another or with a skeleton in it.  A
\* skeleton is expanded when its turn comes, the volume then is no longer the one
\* that was supplied, and sameVolumePlan rightly does not know it again.  Titles it
\* may give or leave out.
PlansTell ==
  /\ \A vols \in LayeredPlans : PlansDiffer(vols)
  /\ \A n \in NewVolumes, w \in Supplied :
       w.plan = n.plan => FullyPlanned(n) /\ SameText(w, n)

ComesFrom(volume, w) ==
  volume.plan = w.plan /\ (FullyPlanned(w) => SameText(volume, w))

\* Each volume is one that was supplied, as far as it had nothing to expand.
VolumesTell(vols) ==
  /\ PlansDiffer(vols)
  /\ \A v \in 1..Len(vols) : \E w \in Supplied : ComesFrom(vols[v], w)

\* So in every store a script leads through.
Tells(w) == IsSequence(w) /\ \A n \in DOMAIN w : VolumesTell(w[n].volumes)

TellInv == VolumesTell(store.volumes) /\ Tells(script)

LEMMA SuppliedIsTyped == Supplied \subseteq VolumeOutline
<1>1. ASSUME NEW vols \in LayeredPlans PROVE ToSet(vols) \subseteq VolumeOutline
  BY InputAssumption DEF ToSet
<1> QED
  BY <1>1, InputAssumption DEF Supplied

\* What has no skeleton is told by its plan alone.
LEMMA FullyPlannedAlike ==
  ASSUME NEW left \in VolumeOutline, NEW right \in VolumeOutline, SameText(left, right)
  PROVE  FullyPlanned(left) <=> FullyPlanned(right)
<1>1. SameButIndexes(Untitled(left), Untitled(right))
  BY SameTextAndTitle
<1>3. Untitled(left).arcs = left.arcs /\ Untitled(right).arcs = right.arcs
  BY DEF Untitled, VolumeOutline
<1>2. DOMAIN left.arcs = 1..Len(left.arcs) /\ DOMAIN right.arcs = 1..Len(right.arcs)
  BY DEF VolumeOutline
<1> QED
  BY <1>1, <1>2, <1>3 DEF SameButIndexes, FullyPlanned, IsArcExpanded

LEMMA SavedPlanTells ==
  ASSUME PlansTell, NEW vols \in LayeredPlans
  PROVE  VolumesTell(RepairMissingLayeredIndexes(vols))
<1> DEFINE saved == RepairMissingLayeredIndexes(vols)
<1>1. vols \in Seq(VolumeOutline) /\ PlansDiffer(vols) /\ Len(vols) \in Nat
  BY InputAssumption DEF PlansTell
<1>2. Len(saved) = Len(vols) /\ saved \in Seq(VolumeOutline)
  BY <1>1, RepairNumbers
<1>3. \A v \in 1..Len(vols) : /\ SameVolumePlan(saved[v], vols[v]) /\ saved[v].plan = vols[v].plan
                              /\ saved[v].title = vols[v].title
  BY <1>1, RepairedSamePlan
<1> HIDE DEF saved
<1>4. ASSUME NEW v \in 1..Len(vols) PROVE \E w \in Supplied : ComesFrom(saved[v], w)
  <2>1. vols[v] \in Supplied
    BY <1>1 DEF Supplied, ToSet
  <2>2. saved[v] \in VolumeOutline /\ vols[v] \in VolumeOutline
    BY <1>1, <1>2
  <2> QED
    BY <1>3, <2>1, <2>2, SameTextAndTitle DEF ComesFrom
<1>5. PlansDiffer(saved)
  BY <1>1, <1>2, <1>3 DEF PlansDiffer
<1> QED
  BY <1>2, <1>4, <1>5 DEF VolumesTell, saved

\* A volume is appended only behind one with another title or plan.
LEMMA AppendTells ==
  ASSUME PlansTell, NEW vols \in Seq(VolumeOutline), Numbered(vols), VolumesTell(vols),
         NEW raw \in NewVolumes, NEW volume \in VolumeOutline,
         volume.plan = raw.plan, Untitled(volume) = Untitled(raw),
         AppendVolumePlan(vols, volume).ok
  PROVE  VolumesTell(RepairMissingLayeredIndexes(AppendVolumePlan(vols, volume).vols))
<1> DEFINE new == AppendVolumePlan(vols, volume).vols
<1>1. raw \in VolumeOutline /\ raw \in Supplied /\ Len(vols) \in Nat
  BY InputAssumption DEF Supplied
<1>2. /\ new \in Seq(VolumeOutline) /\ Numbered(new)
      /\ \/ new = vols
         \/ /\ Len(new) = Len(vols) + 1
            /\ \A v \in 1..Len(vols) : new[v] = vols[v]
            /\ SameVolumePlan(new[Len(new)], volume)
            /\ new[Len(new)].plan = volume.plan /\ new[Len(new)].title = volume.title
            /\ vols # <<>> => ~SameVolumePlan(vols[Len(vols)], volume)
  BY <1>1, AppendAdds
<1> HIDE DEF new
<1>3. RepairMissingLayeredIndexes(new) = new
  BY <1>2, RepairOfNumbered
<1>4. ASSUME Len(new) = Len(vols) + 1,
             \A v \in 1..Len(vols) : new[v] = vols[v],
             SameVolumePlan(new[Len(new)], volume),
             new[Len(new)].plan = volume.plan, new[Len(new)].title = volume.title,
             vols # <<>> => ~SameVolumePlan(vols[Len(vols)], volume)
      PROVE  VolumesTell(new)
  <2>1. ASSUME vols # <<>>, vols[Len(vols)].title = volume.title
        PROVE  vols[Len(vols)].plan # volume.plan
    <3> SUFFICES ASSUME vols[Len(vols)].plan = volume.plan PROVE FALSE
      OBVIOUS
    <3>1. Len(vols) \in 1..Len(vols) /\ vols[Len(vols)] \in VolumeOutline
      BY <1>1, <2>1, EmptySeq
    <3>2. PICK w \in Supplied : ComesFrom(vols[Len(vols)], w)
      BY <3>1 DEF VolumesTell
    <3>3. FullyPlanned(raw) /\ SameText(w, raw)
      BY <1>1, <3>2 DEF PlansTell, ComesFrom
    <3>4. FullyPlanned(w)
      BY <1>1, <3>3, FullyPlannedAlike, SuppliedIsTyped
    <3>5. SameText(vols[Len(vols)], w)
      BY <3>2, <3>4 DEF ComesFrom
    <3>6. SameText(vols[Len(vols)], volume)
      BY <3>3, <3>5 DEF SameText, SameVolumePlan
    <3> QED
      BY <1>4, <2>1, <3>1, <3>6, SameTextAndTitle
  <2>2. PlansDiffer(new)
    <3> SUFFICES ASSUME NEW v \in 1..Len(vols), new[v].title = new[v + 1].title
                 PROVE  new[v].plan # new[v + 1].plan
      BY <1>1, <1>4 DEF PlansDiffer
    <3>1. CASE v = Len(vols)
      <4>1. vols # <<>>
        BY <3>1, EmptySeq
      <4> QED
        BY <1>4, <2>1, <3>1, <4>1
    <3>2. CASE v # Len(vols)
      <4>1. v \in 1..Len(vols) - 1 /\ v + 1 \in 1..Len(vols)
        BY <1>1, <3>2
      <4> QED
        BY <1>4, <4>1 DEF VolumesTell, PlansDiffer
    <3> QED
      BY <3>1, <3>2
  <2>3. ASSUME NEW v \in 1..Len(new) PROVE \E w \in Supplied : ComesFrom(new[v], w)
    <3>1. CASE v \in 1..Len(vols)
      BY <1>4, <3>1 DEF VolumesTell
    <3>2. CASE v = Len(new)
      <4>1. new[Len(new)] \in VolumeOutline
        BY <1>1, <1>2, <1>4
      <4>2. SameText(new[Len(new)], volume)
        BY <1>4, <4>1, SameTextAndTitle
      <4>3. ComesFrom(new[Len(new)], raw)
        BY <1>4, <4>2 DEF ComesFrom, SameText
      <4> QED
        BY <1>1, <3>2, <4>3
    <3> QED
      BY <1>1, <1>4, <3>1, <3>2
  <2> QED
    BY <2>2, <2>3 DEF VolumesTell
<1>5. VolumesTell(new)
  BY <1>2, <1>4
<1> QED
  BY <1>3, <1>5 DEF new

\* An expansion changes no plan of a volume, and no volume that had nothing to expand.
LEMMA ExpansionTells ==
  ASSUME NEW vols \in Seq(VolumeOutline), Numbered(vols), VolumesTell(vols),
         NEW last, NEW size \in Nat, NEW plan \in STRING
  PROVE  VolumesTell(RepairMissingLayeredIndexes(ExpandArcAt(vols, last, size, plan).vols))
<1> DEFINE new == ExpandArcAt(vols, last, size, plan).vols
<1>1. new \in Seq(VolumeOutline) /\ Numbered(new)
  BY ExpandReplaces
<1>2. RepairMissingLayeredIndexes(new) = new
  BY <1>1, RepairOfNumbered
<1>3. ASSUME NEW z, NEW arc, GrowsAt(vols, last, size, plan, z, arc)
      PROVE  VolumesTell(new)
  <2>1. /\ z \in Arcs(vols) /\ arc \in ArcOutline /\ ~IsArcExpanded(ArcAt(vols, z))
        /\ new = Replaced(vols, z, arc)
    BY <1>3 DEF GrowsAt, FindArc
  <2> HIDE DEF new
  <2>2. /\ Len(new) = Len(vols) /\ Len(vols) \in Nat
        /\ \A v \in 1..Len(vols) : /\ new[v].plan = vols[v].plan /\ new[v].title = vols[v].title
                                   /\ v # z[1] => new[v] = vols[v]
    BY <2>1, ArcReplaced, ReplacedVolumes
  <2>3. PlansDiffer(new)
    BY <2>2 DEF PlansDiffer, VolumesTell
  <2>4. ASSUME NEW v \in 1..Len(vols) PROVE \E w \in Supplied : ComesFrom(new[v], w)
    <3>1. PICK w \in Supplied : ComesFrom(vols[v], w)
      BY DEF VolumesTell
    <3>2. CASE v # z[1]
      BY <2>2, <3>1, <3>2
    <3>3. CASE v = z[1]
      <4>1. ~FullyPlanned(vols[v])
        <5>1. z[2] \in DOMAIN vols[v].arcs
          BY <2>1, <3>3, ArcsByPlace
        <5> QED
          BY <2>1, <3>3, <5>1 DEF FullyPlanned, ArcAt
      <4>2. vols[v] \in VolumeOutline /\ w \in VolumeOutline
        BY SuppliedIsTyped
      <4>3. ~FullyPlanned(w)
        BY <3>1, <4>1, <4>2, FullyPlannedAlike DEF ComesFrom
      <4>4. ComesFrom(new[v], w)
        BY <2>2, <3>1, <4>3 DEF ComesFrom
      <4> QED
        BY <4>4
    <3> QED
      BY <3>2, <3>3
  <2> QED
    BY <2>2, <2>3, <2>4 DEF VolumesTell
<1>4. VolumesTell(new)
  BY <1>3, ExpandInPlace
<1> QED
  BY <1>2, <1>4 DEF new

-----------------------------------------------------------------------------
(* The calls, told by their writes. *)

LEMMA TellsShort ==
  /\ Tells(<<>>)
  /\ \A s : VolumesTell(s.volumes) => Tells(<<s>>)
  /\ \A s, t : VolumesTell(s.volumes) /\ VolumesTell(t.volumes) => Tells(<<s, t>>)
<1>1. <<>> \in Seq({}) /\ DOMAIN <<>> = {}
  OBVIOUS
<1>2. ASSUME NEW s PROVE <<s>> \in Seq({s}) /\ \A n \in DOMAIN <<s>> : <<s>>[n] = s
  OBVIOUS
<1>3. ASSUME NEW s, NEW t
      PROVE  <<s, t>> \in Seq({s, t}) /\ \A n \in DOMAIN <<s, t>> : <<s, t>>[n] \in {s, t}
  OBVIOUS
<1> HIDE DEF VolumesTell
<1>4. Tells(<<>>)
  BY <1>1 DEF Tells, IsSequence
<1>5. ASSUME NEW s, VolumesTell(s.volumes) PROVE Tells(<<s>>)
  BY <1>2, <1>5 DEF Tells, IsSequence
<1>6. ASSUME NEW s, NEW t, VolumesTell(s.volumes), VolumesTell(t.volumes) PROVE Tells(<<s, t>>)
  BY <1>3, <1>6 DEF Tells, IsSequence
<1> QED
  BY <1>4, <1>5, <1>6

LEMMA TellsJoin ==
  ASSUME NEW v, NEW w, Tells(v), Tells(w)
  PROVE  Tells(v \o w)
<1>1. PICK S, T : v \in Seq(S) /\ w \in Seq(T)
  BY DEF Tells, IsSequence
<1>2. v \in Seq(S \cup T) /\ w \in Seq(S \cup T)
  BY <1>1
<1> DEFINE both == v \o w
<1>3. /\ Len(v) \in Nat /\ Len(w) \in Nat /\ both \in Seq(S \cup T)
      /\ DOMAIN v = 1..Len(v) /\ DOMAIN w = 1..Len(w) /\ DOMAIN both = 1..Len(v) + Len(w)
      /\ \A n \in 1..Len(v) + Len(w) : both[n] = IF n <= Len(v) THEN v[n] ELSE w[n - Len(v)]
  BY <1>2, ConcatProperties
<1> HIDE DEF both
<1>4. ASSUME NEW n \in DOMAIN both PROVE VolumesTell(both[n].volumes)
  <2>1. CASE n <= Len(v)
    BY <1>3, <2>1 DEF Tells
  <2>2. CASE ~(n <= Len(v))
    <3>1. n - Len(v) \in DOMAIN w
      BY <1>3, <2>2
    <3> QED
      BY <1>3, <2>2, <3>1 DEF Tells
  <2> QED
    BY <2>1, <2>2
<1>5. IsSequence(both)
  BY <1>3 DEF IsSequence
<1> QED
  BY <1>4, <1>5 DEF Tells, both

LEMMA TellsMore ==
  ASSUME NEW w, NEW t, Tells(w), VolumesTell(t.volumes)
  PROVE  Tells(Append(w, t))
<1>1. PICK S : w \in Seq(S)
  BY DEF Tells, IsSequence
<1>2. w \in Seq(S \cup {t})
  BY <1>1
<1> DEFINE longer == Append(w, t)
<1>3. /\ Len(w) \in Nat /\ longer \in Seq(S \cup {t})
      /\ DOMAIN w = 1..Len(w) /\ DOMAIN longer = 1..Len(w) + 1
      /\ \A n \in 1..Len(w) : longer[n] = w[n]
      /\ longer[Len(w) + 1] = t
  BY <1>2, AppendProperties
<1> HIDE DEF longer
<1>4. \A n \in DOMAIN longer : n \in DOMAIN w \/ n = Len(w) + 1
  BY <1>3
<1> QED
  BY <1>3, <1>4 DEF Tells, IsSequence, longer

LEMMA CallTells ==
  ASSUME TellInv, NEW ok, NEW w, Tells(w), Reply(ok, w)
  PROVE  TellInv'
<1>1. store' = store /\ script' = w
  BY DEF Reply
<1>2. VolumesTell(store.volumes)' /\ Tells(script)'
  BY <1>1 DEF TellInv, Tells, VolumesTell, PlansDiffer
<1> QED
  BY <1>2 DEF TellInv

\* A write to another file, or to the progress record.
Kept(s, t) == DOMAIN t = DOMAIN s /\ t.volumes = s.volumes

LEMMA ScaledTells ==
  ASSUME GoodInv, TellInv, NEW scale
  PROVE  Kept(store, Scaled(scale)) /\ "volumes" \in DOMAIN store
<1>1. "volumes" \in DOMAIN store
  BY DEF GoodInv, Good, Shape
<1> QED
  BY <1>1 DEF Scaled, Kept

LEMMA ScaledCallTells ==
  ASSUME GoodInv, TellInv, NEW scale, NEW ok, NEW w, Tells(w), ReplyScaled(scale, ok, w)
  PROVE  TellInv'
<1> DEFINE before == IF scale = "" THEN <<>> ELSE <<Scaled(scale)>>
<1>1. VolumesTell(Scaled(scale).volumes)
  BY ScaledTells DEF TellInv, Kept
<1>2. Tells(before)
  BY <1>1, TellsShort
<1>3. Reply(ok, before \o w)
  BY DEF ReplyScaled
<1> HIDE DEF before
<1> QED
  BY <1>2, <1>3, TellsJoin, CallTells

LEMMA WritesKeep ==
  ASSUME NEW s, "volumes" \in DOMAIN s
  PROVE  /\ \A to : Kept(s, AdvancePhase(s, to))
         /\ \A vols : Kept(s, WithCapacity(s, vols))
         /\ Kept(s, Completed(s))
         /\ \A f : Kept(s, [s EXCEPT !.files = f])
         /\ \A n : Kept(s, [s EXCEPT !.outlined = n])
         /\ \A p : Kept(s, [s EXCEPT !.progress = p])
         /\ \A r : Kept(s, [s EXCEPT !.globalReviews = r]) /\ Kept(s, [s EXCEPT !.arcReviews = r])
         /\ \A r : Kept(s, [s EXCEPT !.arcSummaries = r]) /\ Kept(s, [s EXCEPT !.volumeSummaries = r])
<1>1. \A to : Kept(s, AdvancePhase(s, to))
  BY DEF AdvancePhase, Kept
<1>2. \A vols : Kept(s, WithCapacity(s, vols))
  BY DEF WithCapacity, Kept
<1>3. Kept(s, Completed(s))
  BY DEF Completed, Kept
<1>4. /\ \A f : Kept(s, [s EXCEPT !.files = f])
      /\ \A n : Kept(s, [s EXCEPT !.outlined = n])
      /\ \A p : Kept(s, [s EXCEPT !.progress = p])
  BY DEF Kept
<1>5. /\ \A r : Kept(s, [s EXCEPT !.globalReviews = r]) /\ Kept(s, [s EXCEPT !.arcReviews = r])
      /\ \A r : Kept(s, [s EXCEPT !.arcSummaries = r]) /\ Kept(s, [s EXCEPT !.volumeSummaries = r])
  BY DEF Kept
<1> QED
  BY <1>1, <1>2, <1>3, <1>4, <1>5

LEMMA ViewsTell ==
  ASSUME NEW s, "volumes" \in DOMAIN s, NEW vols,
         VolumesTell(RepairMissingLayeredIndexes(vols))
  PROVE  LET views == LayeredViews(s, vols)
         IN  /\ Tells(views) /\ "volumes" \in DOMAIN views[2] /\ VolumesTell(views[2].volumes)
<1> DEFINE saved == RepairMissingLayeredIndexes(vols)
           n  == FlattenedLength(saved)
           s1 == [s EXCEPT !.volumes = saved]
           s2 == [s1 EXCEPT !.outlined = n]
<1>1. LayeredViews(s, vols) = <<s1, s2>> /\ LayeredViews(s, vols)[2] = s2
  BY DEF LayeredViews
<1> HIDE DEF saved, n
<1>2. DOMAIN s1 = DOMAIN s /\ s1.volumes = saved
  OBVIOUS
<1> HIDE DEF s1
<1>3. Kept(s1, s2)
  BY <1>2, WritesKeep
<1> HIDE DEF s2
<1>4. "volumes" \in DOMAIN s2 /\ VolumesTell(s1.volumes) /\ VolumesTell(s2.volumes)
  BY <1>2, <1>3 DEF Kept, saved
<1> QED
  BY <1>1, <1>4, TellsShort

\* The calls that leave the outline alone.
LEMMA OneWriteTells ==
  ASSUME GoodInv, TellInv, NEW s, VolumesTell(s.volumes), NEW t, Kept(s, t)
  PROVE  Tells(<<t>>) /\ Tells(<<s, t>>)
<1>1. VolumesTell(t.volumes)
  BY DEF Kept
<1> QED
  BY <1>1, TellsShort

LEMMA OtherFilesTell ==
  ASSUME GoodInv, TellInv,
         \/ SaveBook
         \/ \E scale : SaveFoundationRefused(scale) \/ SavePremise(scale) \/ CompleteBook(scale)
         \/ \E scale, file : SaveList(scale, file)
         \/ \E current, ready : AuditFoundation(current, ready)
  PROVE  TellInv'
<1>0. /\ "volumes" \in DOMAIN store /\ VolumesTell(store.volumes)
      /\ \A scale : "volumes" \in DOMAIN Scaled(scale) /\ VolumesTell(Scaled(scale).volumes)
  BY ScaledTells DEF TellInv, Kept
<1>1. CASE SaveBook
  <2> DEFINE t == [store EXCEPT !.files = @ \cup {"book"}]
  <2>1. Reply(TRUE, <<t>>)
    BY <1>1 DEF SaveBook
  <2>2. Kept(store, t)
    BY <1>0, WritesKeep
  <2> HIDE DEF t
  <2> QED
    BY <1>0, <2>1, <2>2, OneWriteTells, CallTells
<1>2. ASSUME NEW scale, SaveFoundationRefused(scale) PROVE TellInv'
  BY <1>2, TellsShort, ScaledCallTells DEF SaveFoundationRefused
<1>3. ASSUME NEW scale, SavePremise(scale) PROVE TellInv'
  <2> DEFINE s0 == Scaled(scale)
             s1 == [s0 EXCEPT !.files = @ \cup {"premise"}]
             s2 == AdvancePhase(s1, "premise")
  <2>1. ReplyScaled(scale, TRUE, <<s1, s2>>)
    BY <1>3 DEF SavePremise
  <2>2. "volumes" \in DOMAIN s0 /\ VolumesTell(s0.volumes)
    BY <1>0
  <2> HIDE DEF s0
  <2>3. Kept(s0, s1)
    BY <2>2, WritesKeep
  <2> HIDE DEF s1
  <2>4. "volumes" \in DOMAIN s1 /\ VolumesTell(s1.volumes)
    BY <2>2, <2>3 DEF Kept
  <2>5. Kept(s1, s2)
    BY <2>4, WritesKeep
  <2> HIDE DEF s2
  <2> QED
    BY <2>1, <2>4, <2>5, OneWriteTells, ScaledCallTells
<1>4. ASSUME NEW scale, CompleteBook(scale) PROVE TellInv'
  <2> DEFINE s0 == Scaled(scale)
             t == Completed(s0)
  <2>1. ReplyScaled(scale, TRUE, <<t>>) \/ ReplyScaled(scale, FALSE, <<>>)
    BY <1>4 DEF CompleteBook
  <2>2. Kept(s0, t)
    BY <1>0, WritesKeep
  <2>3. VolumesTell(s0.volumes)
    BY <1>0
  <2> HIDE DEF s0, t
  <2> QED
    BY <2>1, <2>2, <2>3, OneWriteTells, TellsShort, ScaledCallTells
<1>5. ASSUME NEW scale, NEW file, SaveList(scale, file) PROVE TellInv'
  <2> DEFINE s0 == Scaled(scale)
             t == [s0 EXCEPT !.files = @ \cup {file}]
  <2>1. ReplyScaled(scale, TRUE, <<t>>)
    BY <1>5 DEF SaveList
  <2>2. Kept(s0, t)
    BY <1>0, WritesKeep
  <2>3. VolumesTell(s0.volumes)
    BY <1>0
  <2> HIDE DEF s0, t
  <2> QED
    BY <2>1, <2>2, <2>3, OneWriteTells, ScaledCallTells
<1>6. ASSUME NEW current, NEW ready, AuditFoundation(current, ready) PROVE TellInv'
  <2> DEFINE t == AdvancePhase(store, "writing")
  <2>1. (\E ok : Reply(ok, <<>>)) \/ Reply(TRUE, <<t>>)
    BY <1>6 DEF AuditFoundation
  <2>2. Kept(store, t)
    BY <1>0, WritesKeep
  <2> HIDE DEF t
  <2> QED
    BY <1>0, <2>1, <2>2, OneWriteTells, TellsShort, CallTells
<1> QED
  BY <1>1, <1>2, <1>3, <1>4, <1>5, <1>6

LEMMA FlatOutlineTells ==
  ASSUME GoodInv, TellInv, NEW scale, NEW n, SaveOutline(scale, n)
  PROVE  TellInv'
<1> DEFINE s0 == Scaled(scale)
           s1 == [s0 EXCEPT !.outlined = n]
           s2 == AdvancePhase(s1, "outline")
           s3 == [s2 EXCEPT !.progress.total = n, !.progress.layered = FALSE]
<1>1. ReplyScaled(scale, FALSE, <<>>) \/ ReplyScaled(scale, TRUE, <<s1, s2, s3>>)
  BY DEF SaveOutline
<1>2. "volumes" \in DOMAIN s0 /\ VolumesTell(s0.volumes)
  BY ScaledTells DEF TellInv, Kept
<1> HIDE DEF s0
<1>3. Kept(s0, s1)
  BY <1>2, WritesKeep
<1> HIDE DEF s1
<1>4. "volumes" \in DOMAIN s1 /\ VolumesTell(s1.volumes)
  BY <1>2, <1>3 DEF Kept
<1>5. Kept(s1, s2)
  BY <1>4, WritesKeep
<1> HIDE DEF s2
<1>6. "volumes" \in DOMAIN s2 /\ VolumesTell(s2.volumes)
  BY <1>4, <1>5 DEF Kept
<1>7. s3.volumes = s2.volumes
  BY <1>6
<1> HIDE DEF s3
<1>8. VolumesTell(s3.volumes) /\ Tells(<<s1, s2>>)
  BY <1>4, <1>6, <1>7, TellsShort
<1>9. <<s1, s2, s3>> = Append(<<s1, s2>>, s3)
  OBVIOUS
<1>10. Tells(<<s1, s2, s3>>)
  BY <1>8, <1>9, TellsMore
<1> QED
  BY <1>1, <1>10, TellsShort, ScaledCallTells

\* The calls that change it.
LEMMA LayeredOutlineTells ==
  ASSUME PlansTell, GoodInv, TellInv, NEW scale, NEW vols \in LayeredPlans,
         SaveLayeredOutline(scale, vols)
  PROVE  TellInv'
<1> DEFINE s0 == Scaled(scale)
           views == LayeredViews(s0, vols)
           s2 == views[2]
           s3 == AdvancePhase(s2, "outline")
           s4 == WithCapacity(s3, vols)
<1>1. ReplyScaled(scale, FALSE, <<>>) \/ ReplyScaled(scale, TRUE, views \o <<s3, s4>>)
  BY DEF SaveLayeredOutline
<1>2. VolumesTell(RepairMissingLayeredIndexes(vols))
  BY SavedPlanTells
<1>3. "volumes" \in DOMAIN s0
  BY ScaledTells DEF Kept
<1> HIDE DEF s0
<1>4. Tells(views) /\ "volumes" \in DOMAIN s2 /\ VolumesTell(s2.volumes)
  BY <1>2, <1>3, ViewsTell
<1> HIDE DEF views
<1>5. Kept(s2, s3)
  BY <1>4, WritesKeep
<1> HIDE DEF s3
<1>6. "volumes" \in DOMAIN s3 /\ VolumesTell(s3.volumes)
  BY <1>4, <1>5 DEF Kept
<1>7. Kept(s3, s4)
  BY <1>6, WritesKeep
<1> HIDE DEF s4
<1>8. Tells(<<s3, s4>>)
  BY <1>6, <1>7, OneWriteTells
<1>9. Tells(views \o <<s3, s4>>)
  BY <1>4, <1>8, TellsJoin
<1> QED
  BY <1>1, <1>9, TellsShort, ScaledCallTells

\* saveLayeredViews and the capacity after it.
LEMMA GrowthTells ==
  ASSUME GoodInv, TellInv, NEW s, "volumes" \in DOMAIN s, NEW vols,
         VolumesTell(RepairMissingLayeredIndexes(vols))
  PROVE  LET views == LayeredViews(s, vols)
         IN  Tells(Append(views, WithCapacity(views[2], vols)))
<1> DEFINE views == LayeredViews(s, vols)
           t == WithCapacity(views[2], vols)
<1>1. Tells(views) /\ "volumes" \in DOMAIN views[2] /\ VolumesTell(views[2].volumes)
  BY ViewsTell
<1> HIDE DEF views
<1>2. Kept(views[2], t)
  BY <1>1, WritesKeep
<1> HIDE DEF t
<1>3. Tells(Append(views, t))
  BY <1>1, <1>2, TellsMore DEF Kept
<1> QED
  BY <1>3 DEF views, t

LEMMA AppendVolumeTells ==
  ASSUME PlansTell, GoodInv, TellInv, NEW scale, NEW raw \in NewVolumes,
         AppendVolume(scale, raw)
  PROVE  TellInv'
<1> DEFINE s0 == Scaled(scale)
           volume == ParseVolumeOutline(raw, Len(s0.volumes) + 1)
           appended == AppendVolumePlan(s0.volumes, volume)
           vols == appended.vols
           views == LayeredViews(s0, vols)
           grown == Append(views, WithCapacity(views[2], vols))
<1>1. \/ ReplyScaled(scale, FALSE, <<>>)
      \/ appended.ok /\ ReplyScaled(scale, TRUE, grown)
  BY DEF AppendVolume
<1>2. /\ "volumes" \in DOMAIN s0 /\ s0.volumes \in Seq(VolumeOutline)
      /\ Numbered(s0.volumes) /\ VolumesTell(s0.volumes)
  BY ScaledTells DEF Kept, TellInv, GoodInv, Good, Laid
<1> HIDE DEF s0
<1>5. volume \in VolumeOutline /\ volume.plan = raw.plan /\ Untitled(volume) = Untitled(raw)
  <2>1. Len(s0.volumes) + 1 \in Nat /\ raw \in VolumeOutline
    BY <1>2, InputAssumption
  <2> HIDE DEF volume
  <2>2. /\ volume \in VolumeOutline /\ volume.index = raw.index /\ volume.plan = raw.plan
        /\ volume.final = raw.final /\ volume.arcs = raw.arcs
    BY <2>1, ParsedVolume DEF volume
  <2> QED
    BY <2>1, <2>2 DEF Untitled, VolumeOutline
<1> HIDE DEF volume
<1>3. appended.ok => VolumesTell(RepairMissingLayeredIndexes(vols))
  BY <1>2, <1>5, AppendTells
<1> HIDE DEF appended
<1>4. appended.ok => Tells(grown)
  BY <1>2, <1>3, GrowthTells
<1> HIDE DEF grown
<1> QED
  BY <1>1, <1>4, TellsShort, ScaledCallTells

LEMMA ExpandNextArcTells ==
  ASSUME GoodInv, TellInv, NEW e \in Expansions, ExpandNextArc(e)
  PROVE  TellInv'
<1> DEFINE vols == ExpandArcAt(store.volumes, LatestCompleted(store.progress), e.size, e.plan).vols
           views == LayeredViews(store, vols)
           grown == Append(views, WithCapacity(views[2], vols))
<1>1. Reply(FALSE, <<>>) \/ Reply(TRUE, grown)
  BY DEF ExpandNextArc
<1>2. e.size \in Nat /\ e.plan \in STRING
  BY InputAssumption
<1>3. /\ "volumes" \in DOMAIN store /\ store.volumes \in Seq(VolumeOutline)
      /\ Numbered(store.volumes) /\ VolumesTell(store.volumes)
  BY ScaledTells DEF TellInv, GoodInv, Good, Laid
<1>4. VolumesTell(RepairMissingLayeredIndexes(vols))
  BY <1>2, <1>3, ExpansionTells
<1> HIDE DEF vols
<1>5. Tells(grown)
  BY <1>3, <1>4, GrowthTells
<1> HIDE DEF grown
<1> QED
  BY <1>1, <1>5, TellsShort, CallTells

LEMMA ArchitectTells ==
  ASSUME PlansTell, GoodInv, TellInv, Architect
  PROVE  TellInv'
BY OtherFilesTell, FlatOutlineTells, LayeredOutlineTells, AppendVolumeTells, ExpandNextArcTells
   DEF Architect

LEMMA EditorTells ==
  ASSUME GoodInv, TellInv, Editor
  PROVE  TellInv'
<1>0. "volumes" \in DOMAIN store /\ VolumesTell(store.volumes)
  BY ScaledTells DEF TellInv
<1>1. ASSUME NEW scope, NEW ch, NEW issues, NEW desired, SaveReview(scope, ch, issues, desired)
      PROVE  TellInv'
  <2> DEFINE s1 == SavedReview(store, scope, ch)
             s2 == [s1 EXCEPT !.progress.pending = issues, !.progress.flow = desired]
  <2>1. \E ok : Reply(ok, <<>>) \/ Reply(ok, <<s1>>) \/ Reply(ok, <<s1, s2>>)
    BY <1>1 DEF SaveReview
  <2>2. Kept(store, s1)
    BY <1>0, WritesKeep DEF SavedReview
  <2> HIDE DEF s1
  <2>3. "volumes" \in DOMAIN s1 /\ VolumesTell(s1.volumes)
    BY <1>0, <2>2 DEF Kept
  <2>4. s2.volumes = s1.volumes
    BY <2>3
  <2> HIDE DEF s2
  <2>5. Tells(<<s1>>) /\ Tells(<<s1, s2>>)
    BY <2>3, <2>4, TellsShort
  <2> QED
    BY <2>1, <2>5, TellsShort, CallTells
<1>2. ASSUME NEW volume, NEW arc, NEW same, SaveArcSummary(volume, arc, same)
      PROVE  TellInv'
  <2> DEFINE t == [store EXCEPT !.arcSummaries = @ \cup {<<volume, arc>>}]
  <2>1. \E ok : Reply(ok, <<>>) \/ Reply(ok, <<t>>)
    BY <1>2 DEF SaveArcSummary
  <2>2. Kept(store, t)
    BY <1>0, WritesKeep
  <2> HIDE DEF t
  <2> QED
    BY <1>0, <2>1, <2>2, OneWriteTells, TellsShort, CallTells
<1>3. ASSUME NEW volume, NEW same, SaveVolumeSummary(volume, same) PROVE TellInv'
  <2> DEFINE s1 == [store EXCEPT !.volumeSummaries = @ \cup {volume}]
             saved == IF volume \in store.volumeSummaries THEN <<>> ELSE <<s1>>
             ended == IF FinalVolumeIsWritten(s1) THEN <<Completed(s1)>> ELSE <<>>
  <2>1. Reply(FALSE, <<>>) \/ Reply(TRUE, saved \o ended)
    BY <1>3 DEF SaveVolumeSummary
  <2>2. Kept(store, s1)
    BY <1>0, WritesKeep
  <2> HIDE DEF s1
  <2>3. "volumes" \in DOMAIN s1 /\ VolumesTell(s1.volumes)
    BY <1>0, <2>2 DEF Kept
  <2>4. VolumesTell(Completed(s1).volumes)
    BY <2>3, WritesKeep DEF Kept
  <2>5. Tells(saved) /\ Tells(ended)
    BY <2>3, <2>4, TellsShort
  <2> HIDE DEF saved, ended
  <2> QED
    BY <2>1, <2>5, TellsJoin, TellsShort, CallTells
<1> QED
  BY <1>1, <1>2, <1>3 DEF Editor

LEMMA WriterTells ==
  ASSUME GoodInv, TellInv, Writer
  PROVE  TellInv'
<1>0. "volumes" \in DOMAIN store /\ VolumesTell(store.volumes) /\ Good(store)
  BY ScaledTells DEF TellInv, GoodInv
<1>1. PICK ch \in ChapterArgs : DraftChapter(ch) \/ CommitChapter(ch)
  BY DEF Writer
<1> DEFINE t == [store EXCEPT !.drafts = @ \cup {ch}]
           w == CommitWrites(store, ch)
<1>2. \E ok : Reply(ok, <<>>) \/ Reply(ok, <<t>>) \/ Reply(ok, w)
  BY <1>1 DEF DraftChapter, CommitChapter
<1>3. t.volumes = store.volumes
  BY <1>0
<1>4. IsSequence(w) /\ \A n \in DOMAIN w : w[n].volumes = store.volumes
  <2>1. \E a, b, c : w = <<a, b, c>>
    BY DEF CommitWrites
  <2>2. ASSUME NEW a, NEW b, NEW c PROVE IsSequence(<<a, b, c>>)
    <3>1. <<a, b, c>> \in Seq({a, b, c})
      OBVIOUS
    <3> QED
      BY <3>1 DEF IsSequence
  <2>3. \A n \in DOMAIN w : WriterKeeps(store, w[n])
    BY <1>0, CommitIsKept
  <2> HIDE DEF w
  <2>4. IsSequence(w)
    BY <2>1, <2>2
  <2> QED
    BY <2>3, <2>4 DEF WriterKeeps
<1> HIDE DEF t, w
<1>5. Tells(<<t>>) /\ Tells(w)
  BY <1>0, <1>3, <1>4, TellsShort DEF Tells
<1> QED
  BY <1>2, <1>5, TellsShort, CallTells

LEMMA WriteTells ==
  ASSUME GoodInv, TellInv, WriteNext
  PROVE  TellInv'
<1>1. store' = Head(script) /\ script' = Tail(script) /\ script # <<>>
  BY DEF WriteNext, GoodInv
<1>2. /\ 1 \in DOMAIN script /\ Head(script) = script[1]
      /\ \A n \in DOMAIN Tail(script) : n + 1 \in DOMAIN script /\ Tail(script)[n] = script[n + 1]
  BY <1>1, ScriptParts DEF GoodInv
<1>3. IsSequence(Tail(script))
  BY <1>1, HeadTailProperties DEF TellInv, Tells, IsSequence
<1>4. VolumesTell(Head(script).volumes) /\ Tells(Tail(script))
  BY <1>2, <1>3 DEF TellInv, Tells
<1>5. VolumesTell(store.volumes)' /\ Tells(script)'
  BY <1>1, <1>4 DEF Tells, VolumesTell, PlansDiffer
<1> QED
  BY <1>5 DEF TellInv

LEMMA LoopTells ==
  ASSUME GoodInv, TellInv,
         \/ LoadState \/ FinishRun \/ Dispatch \/ WorkerFailed \/ EndTurn \/ WorkerThrows
         \/ Consult \/ Crash \/ Runs \/ UNCHANGED vars
  PROVE  TellInv'
<1> SUFFICES store'.volumes = store.volumes /\ (script' = script \/ script' = <<>>)
  <2>1. (store'.volumes = store.volumes) /\ (script' = script \/ script' = <<>>) =>
          VolumesTell(store.volumes)' /\ Tells(script)'
    BY TellsShort DEF TellInv, Tells, VolumesTell, PlansDiffer
  <2> QED
    BY <2>1 DEF TellInv
<1>1. CASE LoadState \/ EndTurn \/ WorkerThrows \/ UNCHANGED vars
  BY <1>1 DEF LoadState, EndTurn, WorkerThrows, vars
<1>2. CASE FinishRun \/ Crash \/ WorkerFailed
  BY <1>2 DEF FinishRun, Crash, WorkerFailed, Stop
<1>3. CASE Consult
  BY <1>3 DEF Consult, Reply
<1>4. CASE Dispatch
  <2>1. script' = script
    BY <1>4 DEF Dispatch
  <2> QED
    BY <1>4, <2>1, DispatchIsKept DEF WriterKeeps
<1>5. CASE Runs
  <2>1. PICK tier \in PlanTiers : store' = [store EXCEPT !.prompt = tier] /\ script' = script
    BY <1>5 DEF Runs, StartRun
  <2> QED
    BY <2>1, ScaledTells
<1> QED
  BY <1>1, <1>2, <1>3, <1>4, <1>5

LEMMA TellInvHolds == PlansTell => (Spec => []TellInv)
<1> SUFFICES ASSUME PlansTell PROVE Spec => []TellInv
  OBVIOUS
<1>1. Init => TellInv
  <2>1. VolumesTell(<<>>)
    BY DEF VolumesTell, PlansDiffer
  <2>2. EmptyStore.volumes = <<>>
    BY DEF EmptyStore
  <2>3. Init => store = EmptyStore /\ script = <<>>
    BY DEF Init
  <2> QED
    BY <2>1, <2>2, <2>3, TellsShort DEF TellInv
<1>2. GoodInv /\ TellInv /\ [Next]_vars => TellInv'
  BY ArchitectTells, EditorTells, WriterTells, WriteTells, LoopTells DEF Next, EngineStep
<1> QED
  BY <1>1, <1>2, GoodInvHolds, PTL DEF Spec

\* No volume is there twice in a row with its title, whatever the model calls how often
\* and wherever the process dies, if the plans it supplies tell its volumes apart:
\* append_volume knows a titled volume it appended last again, under whatever number,
\* and no other call adds a volume or changes the title or the plan of one.  What the
\* theorem does not say, and is not so, is that an untitled volume is known again: it
\* gets another title by every call that adds it (UntitledIsAppendedAgain).
THEOREM VolumesAreAppendedOnce == PlansTell => (Spec => []NoVolumeTwice)
<1> SUFFICES ASSUME PlansTell PROVE Spec => []NoVolumeTwice
  OBVIOUS
<1>1. TellInv => NoVolumeTwice
  BY DEF TellInv, VolumesTell, PlansDiffer, NoVolumeTwice
<1> QED
  BY <1>1, TellInvHolds, PTL

-----------------------------------------------------------------------------
(* The final volume is the last one.  The process does not die here, so the  *)
(* writes of a tool are as good as made: what counts is the store its script *)
(* arrives at.                                                               *)

IndexesRise(vols) == \A v, w \in DOMAIN vols : v < w => vols[v].index < vols[w].index

\* What the model may not do: save an outline whose volumes are out of order or share
\* an index.  The summary of one volume is then found under the index of another, and
\* the router takes the final one for summarised before it is.
PlansRise == \A vols \in LayeredPlans : IndexesRise(RepairMissingLayeredIndexes(vols))

\* The volumes and the indexes of those that are summarised: none before writing, and
\* while the book is written not the volume it ends with if a final one is there.
FinalIsOpen(vols, summaries, phase) ==
  /\ IndexesRise(vols)
  /\ summaries \subseteq {vols[v].index : v \in DOMAIN vols}
  /\ summaries # {} => phase \in {"writing", "complete"}
  /\ phase = "writing" /\ vols # <<>> /\ Last(vols).final =>
       \A v \in DOMAIN vols : EndsBook(vols, v) => vols[v].index \notin summaries

FinalStore(s) == FinalIsOpen(s.volumes, s.volumeSummaries, s.progress.phase)

\* The store that a script arrives at from store s.
ArrivesAt(s, w, t) == IsSequence(w) /\ t = IF Len(w) = 0 THEN s ELSE w[Len(w)]

\* A worker that is to summarise a volume finds the book in writing, with no chapter
\* queued, and written to its end if the volume is the one it ends with.
SummaryIsDue(i) ==
  LET p    == store.progress
      vols == store.volumes
  IN  i.kind = "volume_summary" =>
        /\ p.phase = "writing" /\ p.layered /\ p.pending = <<>>
        /\ \E v \in DOMAIN vols :
             /\ i.at[1] = vols[v].index
             /\ EndsBook(vols, v) => NextChapter(p) > FlattenedLength(vols)

\* What the router can ask for.
Kinds == {"plan_start", "fill", "write", "rewrite", "polish", "expand_arc", "new_volume",
          "outline_done", "arc_summary", "volume_summary", "arc_review", "refresh_arc_review",
          "global_review", "refresh_global_review"}

IsDue(i) == i.kind \in Kinds /\ SummaryIsDue(i)

FinalInv ==
  /\ turns \in Nat /\ (pc = "tool" => turns > 0)
  /\ \E t : ArrivesAt(store, script, t) /\ FinalStore(t)
  /\ pc = "route" => next = NoInstruction \/ IsDue(next)
  /\ pc = "work" /\ turns = 0 => IsDue(inst)
  /\ FinalVolumeIsLast

LEMMA ArrivesShort ==
  ASSUME NEW s
  PROVE  /\ ArrivesAt(s, <<>>, s)
         /\ \A t : ArrivesAt(s, <<t>>, t)
         /\ \A a, t : ArrivesAt(s, <<a, t>>, t)
         /\ \A a, b, t : ArrivesAt(s, <<a, b, t>>, t)
<1>1. <<>> \in Seq({}) /\ Len(<<>>) = 0
  OBVIOUS
<1>2. ASSUME NEW t PROVE <<t>> \in Seq({t}) /\ Len(<<t>>) = 1 /\ <<t>>[1] = t
  OBVIOUS
<1>3. ASSUME NEW a, NEW t
      PROVE  <<a, t>> \in Seq({a, t}) /\ Len(<<a, t>>) = 2 /\ <<a, t>>[2] = t
  OBVIOUS
<1>4. ASSUME NEW a, NEW b, NEW t
      PROVE  <<a, b, t>> \in Seq({a, b, t}) /\ Len(<<a, b, t>>) = 3 /\ <<a, b, t>>[3] = t
  OBVIOUS
<1>5. ArrivesAt(s, <<>>, s)
  BY <1>1 DEF ArrivesAt, IsSequence
<1>9. ASSUME NEW S, NEW w \in Seq(S), Len(w) # 0 PROVE ArrivesAt(s, w, w[Len(w)])
  BY <1>9 DEF ArrivesAt, IsSequence
<1>6. ASSUME NEW t PROVE ArrivesAt(s, <<t>>, t)
  <2> DEFINE w == <<t>>
  <2>1. w \in Seq({t}) /\ Len(w) # 0 /\ w[Len(w)] = t
    BY <1>2
  <2> HIDE DEF w
  <2>2. ArrivesAt(s, w, t)
    BY <1>9, <2>1
  <2> QED
    BY <2>2 DEF w
<1>7. ASSUME NEW a, NEW t PROVE ArrivesAt(s, <<a, t>>, t)
  <2> DEFINE w == <<a, t>>
  <2>1. w \in Seq({a, t}) /\ Len(w) # 0 /\ w[Len(w)] = t
    BY <1>3
  <2> HIDE DEF w
  <2>2. ArrivesAt(s, w, t)
    BY <1>9, <2>1
  <2> QED
    BY <2>2 DEF w
<1>8. ASSUME NEW a, NEW b, NEW t PROVE ArrivesAt(s, <<a, b, t>>, t)
  <2> DEFINE w == <<a, b, t>>
  <2>1. w \in Seq({a, b, t}) /\ Len(w) # 0 /\ w[Len(w)] = t
    BY <1>4
  <2> HIDE DEF w
  <2>2. ArrivesAt(s, w, t)
    BY <1>9, <2>1
  <2> QED
    BY <2>2 DEF w
<1> QED
  BY <1>5, <1>6, <1>7, <1>8

LEMMA ArrivesOn ==
  ASSUME NEW s, NEW v, NEW t, NEW w, NEW u, ArrivesAt(s, v, t), ArrivesAt(t, w, u)
  PROVE  ArrivesAt(s, v \o w, u)
<1>1. PICK S, T : v \in Seq(S) /\ w \in Seq(T)
  BY DEF ArrivesAt, IsSequence
<1>2. v \in Seq(S \cup T) /\ w \in Seq(S \cup T)
  BY <1>1
<1> DEFINE both == v \o w
<1>3. /\ both \in Seq(S \cup T) /\ Len(v) \in Nat /\ Len(w) \in Nat /\ Len(both) = Len(v) + Len(w)
      /\ \A n \in 1..Len(v) + Len(w) : both[n] = IF n <= Len(v) THEN v[n] ELSE w[n - Len(v)]
  BY <1>2, ConcatProperties
<1> HIDE DEF both
<1>4. CASE Len(w) = 0
  <2>1. u = t /\ Len(both) = Len(v) /\ (Len(v) # 0 => both[Len(both)] = v[Len(v)])
    BY <1>3, <1>4 DEF ArrivesAt
  <2> QED
    BY <1>3, <2>1 DEF ArrivesAt, IsSequence, both
<1>5. CASE Len(w) # 0
  <2>1. u = w[Len(w)] /\ Len(both) # 0 /\ both[Len(both)] = w[Len(w)]
    BY <1>3, <1>5 DEF ArrivesAt
  <2> QED
    BY <1>3, <2>1 DEF ArrivesAt, IsSequence, both
<1> QED
  BY <1>4, <1>5

\* A call leaves the store, and starts no worker.
LEMMA ReplyIsFinal ==
  ASSUME GoodInv, FinalInv, pc = "work", NEW ok, NEW w, NEW t,
         ArrivesAt(store, w, t), FinalStore(t), Reply(ok, w)
  PROVE  FinalInv'
<1>1. /\ turns' = turns + 1 /\ script' = w /\ store' = store
      /\ pc' \in {"tool", "work", "failed"}
  BY DEF Reply
<1>2. turns' \in Nat /\ turns' > 0
  BY <1>1 DEF FinalInv
<1>3. (\E u : ArrivesAt(store, script, u) /\ FinalStore(u))'
  BY <1>1 DEF ArrivesAt, FinalStore
<1> QED
  BY <1>1, <1>2, <1>3 DEF FinalInv, FinalVolumeIsLast

LEMMA NoWritesAreFinal ==
  ASSUME GoodInv, FinalInv, pc = "work"
  PROVE  FinalStore(store) /\ (\A ok : Reply(ok, <<>>) => FinalInv')
<1>1. script = <<>>
  BY DEF GoodInv
<1>2. PICK t : ArrivesAt(store, script, t) /\ FinalStore(t)
  BY DEF FinalInv
<1>3. t = store
  BY <1>1, <1>2 DEF ArrivesAt
<1> QED
  BY <1>2, <1>3, ArrivesShort, ReplyIsFinal

-----------------------------------------------------------------------------
(* Writes that leave the volumes and their summaries alone. *)

Fields(s) ==
  {"progress", "volumes", "volumeSummaries"} \subseteq DOMAIN s /\ "phase" \in DOMAIN s.progress

\* The phase only moves on, into writing only from planning.
Alike(s, t) ==
  /\ Fields(t)
  /\ t.volumes = s.volumes /\ t.volumeSummaries = s.volumeSummaries
  /\ \/ t.progress.phase = s.progress.phase
     \/ s.progress.phase \in Planning
     \/ t.progress.phase = "complete"

LEMMA AlikeIsFinal ==
  ASSUME NEW s, NEW t, FinalStore(s), Alike(s, t)
  PROVE  FinalStore(t)
<1>1. s.progress.phase \in Planning => s.volumeSummaries = {}
  BY DEF FinalStore, FinalIsOpen, Planning
<1> QED
  BY <1>1 DEF FinalStore, FinalIsOpen, Alike

LEMMA PhaseAdvances ==
  ASSUME NEW s, Fields(s), s.progress.phase \in Phases
  PROVE  \A to \in {"premise", "outline", "writing"} : Alike(s, AdvancePhase(s, to))
<1> SUFFICES ASSUME NEW to \in {"premise", "outline", "writing"}
             PROVE  Alike(s, AdvancePhase(s, to))
  OBVIOUS
<1> DEFINE t == [s EXCEPT !.progress.phase = to]
<1>1. CASE CanTransitionPhase(to, s.progress.phase)
  BY <1>1 DEF AdvancePhase, Alike
<1>2. CASE ~CanTransitionPhase(to, s.progress.phase)
  <2>1. s.progress.phase \in Planning
    BY <1>2 DEF CanTransitionPhase, PhaseRank, Phases, Planning
  <2>2. AdvancePhase(s, to) = t
    BY <1>2 DEF AdvancePhase
  <2>3. Fields(t) /\ t.volumes = s.volumes /\ t.volumeSummaries = s.volumeSummaries
    BY DEF Fields
  <2> QED
    BY <2>1, <2>2, <2>3 DEF Alike
<1> QED
  BY <1>1, <1>2

LEMMA WritesAreAlike ==
  ASSUME NEW s, Fields(s)
  PROVE  /\ \A f : Alike(s, [s EXCEPT !.files = f]) /\ Alike(s, [s EXCEPT !.drafts = f])
         /\ \A f : Alike(s, [s EXCEPT !.finals = f]) /\ Alike(s, [s EXCEPT !.summaries = f])
         /\ \A f : Alike(s, [s EXCEPT !.outlined = f]) /\ Alike(s, [s EXCEPT !.tier = f])
         /\ \A f : Alike(s, [s EXCEPT !.globalReviews = f]) /\ Alike(s, [s EXCEPT !.arcReviews = f])
         /\ \A f : Alike(s, [s EXCEPT !.arcSummaries = f]) /\ Alike(s, [s EXCEPT !.prompt = f])
         /\ \A p : "phase" \in DOMAIN p /\ p.phase = s.progress.phase =>
              Alike(s, [s EXCEPT !.progress = p])
         /\ \A vols : Alike(s, WithCapacity(s, vols))
         /\ Alike(s, Completed(s))
         /\ Alike(s, s)
<1>1. /\ \A f : Alike(s, [s EXCEPT !.files = f]) /\ Alike(s, [s EXCEPT !.drafts = f])
      /\ \A f : Alike(s, [s EXCEPT !.finals = f]) /\ Alike(s, [s EXCEPT !.summaries = f])
  BY DEF Alike, Fields
<1>2. /\ \A f : Alike(s, [s EXCEPT !.outlined = f]) /\ Alike(s, [s EXCEPT !.tier = f])
      /\ \A f : Alike(s, [s EXCEPT !.globalReviews = f]) /\ Alike(s, [s EXCEPT !.arcReviews = f])
  BY DEF Alike, Fields
<1>3. \A f : Alike(s, [s EXCEPT !.arcSummaries = f]) /\ Alike(s, [s EXCEPT !.prompt = f])
  BY DEF Alike, Fields
<1>4. ASSUME NEW p, "phase" \in DOMAIN p, p.phase = s.progress.phase
      PROVE  Alike(s, [s EXCEPT !.progress = p])
  BY <1>4 DEF Alike, Fields
<1>5. ASSUME NEW vols PROVE Alike(s, WithCapacity(s, vols))
  <2> DEFINE n == EstimatedChapterCapacity(vols)
             t == [s EXCEPT !.progress.total = n, !.progress.layered = TRUE]
  <2>1. WithCapacity(s, vols) = t
    BY DEF WithCapacity
  <2> HIDE DEF n
  <2>2. Alike(s, t)
    BY DEF Alike, Fields
  <2> QED
    BY <2>1, <2>2
<1>6. Alike(s, Completed(s)) /\ Alike(s, s)
  BY DEF Completed, Alike, Fields
<1> QED
  BY <1>1, <1>2, <1>3, <1>4, <1>5, <1>6

\* The store a worker's call begins with.
LEMMA StoreHasFields ==
  ASSUME GoodInv
  PROVE  Fields(store) /\ store.progress.phase \in Phases
BY DEF GoodInv, Good, Shape, InOrder, Fields

LEMMA ReplyScaledIsFinal ==
  ASSUME GoodInv, FinalInv, pc = "work", NEW scale, NEW ok, NEW w, NEW t,
         ArrivesAt(Scaled(scale), w, t), FinalStore(t), ReplyScaled(scale, ok, w)
  PROVE  FinalInv'
<1> DEFINE before == IF scale = "" THEN <<>> ELSE <<Scaled(scale)>>
<1>1. ArrivesAt(store, before, Scaled(scale))
  <2>1. scale = "" => Scaled(scale) = store
    BY DEF Scaled
  <2> QED
    BY <2>1, ArrivesShort
<1>2. Reply(ok, before \o w)
  BY DEF ReplyScaled
<1> HIDE DEF before
<1> QED
  BY <1>1, <1>2, ArrivesOn, ReplyIsFinal

\* A scale changes nothing here.
LEMMA ScaledIsAlike ==
  ASSUME GoodInv, FinalInv, pc = "work", NEW scale
  PROVE  /\ Alike(store, Scaled(scale)) /\ FinalStore(Scaled(scale))
         /\ Scaled(scale).progress = store.progress
         /\ \A ok : ReplyScaled(scale, ok, <<>>) => FinalInv'
<1>1. Alike(store, Scaled(scale)) /\ Scaled(scale).progress = store.progress
  BY StoreHasFields, WritesAreAlike, ScaledIsGood DEF Scaled
<1>2. FinalStore(Scaled(scale))
  BY <1>1, AlikeIsFinal, NoWritesAreFinal
<1> QED
  BY <1>1, <1>2, ArrivesShort, ReplyScaledIsFinal

-----------------------------------------------------------------------------
(* The calls that leave the volumes alone. *)

LEMMA OtherFilesAreFinal ==
  ASSUME GoodInv, FinalInv,
         \/ SaveBook
         \/ \E scale : SaveFoundationRefused(scale) \/ SavePremise(scale) \/ CompleteBook(scale)
         \/ \E scale, file : SaveList(scale, file)
         \/ \E current, ready : AuditFoundation(current, ready)
  PROVE  FinalInv'
<1>0. Fields(store) /\ store.progress.phase \in Phases
  BY StoreHasFields
<1>1. CASE SaveBook
  <2> DEFINE t == [store EXCEPT !.files = @ \cup {"book"}]
  <2>1. pc = "work" /\ Reply(TRUE, <<t>>)
    BY <1>1 DEF SaveBook, Calls
  <2>2. Alike(store, t)
    BY <1>0, WritesAreAlike
  <2> HIDE DEF t
  <2>3. FinalStore(t)
    BY <2>1, <2>2, NoWritesAreFinal, AlikeIsFinal
  <2> QED
    BY <2>1, <2>3, ArrivesShort, ReplyIsFinal
<1>2. ASSUME NEW scale, SaveFoundationRefused(scale) PROVE FinalInv'
  BY <1>2, ScaledIsAlike DEF SaveFoundationRefused, Calls
<1>3. ASSUME NEW scale, SavePremise(scale) PROVE FinalInv'
  <2> DEFINE s0 == Scaled(scale)
             s1 == [s0 EXCEPT !.files = @ \cup {"premise"}]
             s2 == AdvancePhase(s1, "premise")
  <2>1. pc = "work" /\ ReplyScaled(scale, TRUE, <<s1, s2>>)
    BY <1>3 DEF SavePremise, Calls
  <2>2. Fields(s0) /\ FinalStore(s0) /\ s0.progress = store.progress
    BY <2>1, ScaledIsAlike DEF Alike
  <2>3. Alike(s0, s1)
    BY <2>2, WritesAreAlike
  <2>4. s1.progress = s0.progress
    BY <2>2 DEF Fields
  <2>5. ArrivesAt(s0, <<s1, s2>>, s2)
    BY ArrivesShort
  <2> HIDE DEF s1
  <2>6. Alike(s1, s2)
    BY <1>0, <2>2, <2>3, <2>4, PhaseAdvances DEF Alike
  <2> HIDE DEF s2
  <2>7. FinalStore(s2)
    BY <2>2, <2>3, <2>6, AlikeIsFinal
  <2> QED
    BY <2>1, <2>5, <2>7, ReplyScaledIsFinal
<1>4. ASSUME NEW scale, CompleteBook(scale) PROVE FinalInv'
  <2> DEFINE s0 == Scaled(scale)
             t == Completed(s0)
  <2>1. pc = "work" /\ (ReplyScaled(scale, TRUE, <<t>>) \/ ReplyScaled(scale, FALSE, <<>>))
    BY <1>4 DEF CompleteBook, Calls
  <2>2. Fields(s0) /\ FinalStore(s0)
    BY <2>1, ScaledIsAlike DEF Alike
  <2>3. FinalStore(t)
    BY <2>2, WritesAreAlike, AlikeIsFinal
  <2> HIDE DEF t
  <2> QED
    BY <2>1, <2>3, ScaledIsAlike, ArrivesShort, ReplyScaledIsFinal
<1>5. ASSUME NEW scale, NEW file, SaveList(scale, file) PROVE FinalInv'
  <2> DEFINE s0 == Scaled(scale)
             t == [s0 EXCEPT !.files = @ \cup {file}]
  <2>1. pc = "work" /\ ReplyScaled(scale, TRUE, <<t>>)
    BY <1>5 DEF SaveList, Calls
  <2>2. Fields(s0) /\ FinalStore(s0)
    BY <2>1, ScaledIsAlike DEF Alike
  <2>4. Alike(s0, t)
    BY <2>2, WritesAreAlike
  <2> HIDE DEF t
  <2>3. FinalStore(t)
    BY <2>2, <2>4, AlikeIsFinal
  <2> QED
    BY <2>1, <2>3, ArrivesShort, ReplyScaledIsFinal
<1>6. ASSUME NEW current, NEW ready, AuditFoundation(current, ready) PROVE FinalInv'
  <2> DEFINE t == AdvancePhase(store, "writing")
  <2>1. pc = "work" /\ ((\E ok : Reply(ok, <<>>)) \/ Reply(TRUE, <<t>>))
    BY <1>6 DEF AuditFoundation, Calls
  <2>2. FinalStore(t)
    BY <1>0, <2>1, PhaseAdvances, NoWritesAreFinal, AlikeIsFinal
  <2> HIDE DEF t
  <2> QED
    BY <2>1, <2>2, ArrivesShort, NoWritesAreFinal, ReplyIsFinal
<1> QED
  BY <1>1, <1>2, <1>3, <1>4, <1>5, <1>6

LEMMA FlatOutlineIsFinal ==
  ASSUME GoodInv, FinalInv, NEW scale, NEW n, SaveOutline(scale, n)
  PROVE  FinalInv'
<1> DEFINE s0 == Scaled(scale)
           s1 == [s0 EXCEPT !.outlined = n]
           s2 == AdvancePhase(s1, "outline")
           s3 == [s2 EXCEPT !.progress.total = n, !.progress.layered = FALSE]
<1>1. pc = "work" /\ (ReplyScaled(scale, FALSE, <<>>) \/ ReplyScaled(scale, TRUE, <<s1, s2, s3>>))
  BY DEF SaveOutline, Calls
<1>2. /\ Fields(s0) /\ FinalStore(s0) /\ s0.progress = store.progress
      /\ store.progress.phase \in Phases
  BY <1>1, ScaledIsAlike, StoreHasFields DEF Alike
<1>3. Alike(s0, s1) /\ s1.progress = s0.progress
  BY <1>2, WritesAreAlike DEF Fields
<1>4. ArrivesAt(s0, <<s1, s2, s3>>, s3)
  BY ArrivesShort
<1> HIDE DEF s1
<1>5. Alike(s1, s2)
  BY <1>2, <1>3, PhaseAdvances DEF Alike
<1> HIDE DEF s2
<1>6. Alike(s2, s3)
  BY <1>5 DEF Alike, Fields
<1> HIDE DEF s3
<1>7. FinalStore(s3)
  BY <1>2, <1>3, <1>5, <1>6, AlikeIsFinal
<1> QED
  BY <1>1, <1>4, <1>7, ScaledIsAlike, ReplyScaledIsFinal

LEMMA WriterIsFinal ==
  ASSUME GoodInv, FinalInv, Writer
  PROVE  FinalInv'
<1>0. Fields(store) /\ store.progress.phase \in Phases /\ DOMAIN store.progress # {}
  BY StoreHasFields DEF Fields
<1>1. PICK ch \in ChapterArgs : DraftChapter(ch) \/ CommitChapter(ch)
  BY DEF Writer
<1> DEFINE t  == [store EXCEPT !.drafts = @ \cup {ch}]
           q  == CommittedProgress(store.progress, ch)
           s1 == [store EXCEPT !.finals = @ \cup {ch}]
           s2 == [s1 EXCEPT !.progress = q]
           s3 == [s2 EXCEPT !.summaries = @ \cup {ch}]
<1>2. /\ pc = "work"
      /\ \/ \E ok : Reply(ok, <<>>)
         \/ \E ok : Reply(ok, <<t>>)
         \/ store.progress.phase = "writing" /\ \E ok : Reply(ok, <<s1, s2, s3>>)
  <2>1. CommitWrites(store, ch) = <<s1, s2, s3>>
    <3>1. s1.progress = store.progress
      BY <1>0 DEF Fields
    <3> HIDE DEF s1
    <3>2. [s1 EXCEPT !.progress = CommittedProgress(@, ch)] = s2
      BY <3>1
    <3> QED
      BY <3>2, Zenon DEF CommitWrites, s1
  <2> HIDE DEF s1, s2, s3, t
  <2>2. DraftChapter(ch) => pc = "work" /\ \E ok : Reply(ok, <<t>>)
    BY Zenon DEF DraftChapter, Calls, t
  <2>3. CommitChapter(ch) =>
          /\ pc = "work"
          /\ \/ \E ok : Reply(ok, <<>>)
             \/ store.progress.phase = "writing" /\ \E ok : Reply(ok, <<s1, s2, s3>>)
    BY <2>1, Zenon DEF CommitChapter, CommitRefused, Calls
  <2> QED
    BY <1>1, <2>2, <2>3
<1>3. FinalStore(store)
  BY <1>2, NoWritesAreFinal
<1>4. FinalStore(t)
  <2>1. Alike(store, t)
    BY <1>0, WritesAreAlike
  <2> HIDE DEF t
  <2> QED
    BY <1>3, <2>1, AlikeIsFinal
<1>5. CASE store.progress.phase = "writing" /\ \E ok : Reply(ok, <<s1, s2, s3>>)
  <2>1. "phase" \in DOMAIN q /\ q.phase = "writing"
    BY <1>0 DEF CommittedProgress, Fields
  <2> HIDE DEF q
  <2>2. Alike(store, s1) /\ s1.progress = store.progress
    BY <1>0, WritesAreAlike DEF Fields
  <2>3. ArrivesAt(store, <<s1, s2, s3>>, s3)
    BY ArrivesShort
  <2> HIDE DEF s1
  <2>4. Alike(s1, s2)
    BY <1>5, <2>1, <2>2, WritesAreAlike DEF Alike
  <2> HIDE DEF s2
  <2>5. Alike(s2, s3)
    BY <2>4, WritesAreAlike DEF Alike
  <2> HIDE DEF s3
  <2>6. FinalStore(s3)
    BY <1>3, <2>2, <2>4, <2>5, AlikeIsFinal
  <2> QED
    BY <1>2, <1>5, <2>3, <2>6, ReplyIsFinal
<1> HIDE DEF t, s1, s2, s3
<1> QED
  BY <1>2, <1>4, <1>5, ArrivesShort, NoWritesAreFinal, ReplyIsFinal

LEMMA ReviewIsFinal ==
  ASSUME GoodInv, FinalInv, NEW scope, NEW ch, NEW issues, NEW desired,
         SaveReview(scope, ch, issues, desired)
  PROVE  FinalInv'
<1> DEFINE s1 == SavedReview(store, scope, ch)
           s2 == [s1 EXCEPT !.progress.pending = issues, !.progress.flow = desired]
<1>1. pc = "work" /\ \E ok : Reply(ok, <<>>) \/ Reply(ok, <<s1>>) \/ Reply(ok, <<s1, s2>>)
  BY DEF SaveReview, Calls
<1>2. FinalStore(store) /\ Alike(store, s1)
  BY <1>1, StoreHasFields, WritesAreAlike, NoWritesAreFinal DEF SavedReview
<1> HIDE DEF s1
<1>3. Alike(s1, s2)
  BY <1>2 DEF Alike, Fields
<1> HIDE DEF s2
<1>4. FinalStore(s1) /\ FinalStore(s2)
  BY <1>2, <1>3, AlikeIsFinal
<1>5. ArrivesAt(store, <<s1>>, s1) /\ ArrivesAt(store, <<s1, s2>>, s2)
  BY ArrivesShort
<1> QED
  BY <1>1, <1>4, <1>5, NoWritesAreFinal, ReplyIsFinal

LEMMA ArcSummaryIsFinal ==
  ASSUME GoodInv, FinalInv, NEW volume, NEW arc, NEW same, SaveArcSummary(volume, arc, same)
  PROVE  FinalInv'
<1> DEFINE t == [store EXCEPT !.arcSummaries = @ \cup {<<volume, arc>>}]
<1>1. pc = "work" /\ \E ok : Reply(ok, <<>>) \/ Reply(ok, <<t>>)
  BY DEF SaveArcSummary, Calls
<1>2. FinalStore(store) /\ Alike(store, t)
  BY <1>1, StoreHasFields, WritesAreAlike, NoWritesAreFinal
<1> HIDE DEF t
<1>3. FinalStore(t)
  BY <1>2, AlikeIsFinal
<1> QED
  BY <1>1, <1>3, ArrivesShort, NoWritesAreFinal, ReplyIsFinal

-----------------------------------------------------------------------------
(* The calls that change the volumes or their summaries. *)

\* saveLayeredViews changes the volumes and nothing else that counts.
LEMMA ViewsArrive ==
  ASSUME NEW s, Fields(s), NEW vols
  PROVE  LET views == LayeredViews(s, vols)
             t     == views[2]
         IN  /\ ArrivesAt(s, views, t) /\ Fields(t)
             /\ t.volumes = RepairMissingLayeredIndexes(vols)
             /\ t.volumeSummaries = s.volumeSummaries /\ t.progress = s.progress
<1> DEFINE saved == RepairMissingLayeredIndexes(vols)
           n  == FlattenedLength(saved)
           s1 == [s EXCEPT !.volumes = saved]
           s2 == [s1 EXCEPT !.outlined = n]
<1>1. LayeredViews(s, vols) = <<s1, s2>> /\ LayeredViews(s, vols)[2] = s2
  BY DEF LayeredViews
<1> HIDE DEF saved, n
<1>2. /\ DOMAIN s1 = DOMAIN s /\ s1.volumes = saved
      /\ s1.volumeSummaries = s.volumeSummaries /\ s1.progress = s.progress
  BY DEF Fields
<1> HIDE DEF s1
<1>3. /\ DOMAIN s2 = DOMAIN s /\ s2.volumes = saved
      /\ s2.volumeSummaries = s.volumeSummaries /\ s2.progress = s.progress
  BY <1>2 DEF Fields
<1> HIDE DEF s2
<1>4. Fields(s2)
  BY <1>3 DEF Fields
<1> QED
  BY <1>1, <1>3, <1>4, ArrivesShort DEF saved

LEMMA LayeredOutlineIsFinal ==
  ASSUME PlansRise, GoodInv, FinalInv, NEW scale, NEW vols \in LayeredPlans,
         SaveLayeredOutline(scale, vols)
  PROVE  FinalInv'
<1> DEFINE s0 == Scaled(scale)
           views == LayeredViews(s0, vols)
           s2 == views[2]
           s3 == AdvancePhase(s2, "outline")
           s4 == WithCapacity(s3, vols)
<1>1. /\ pc = "work"
      /\ \/ ReplyScaled(scale, FALSE, <<>>)
         \/ /\ store.progress.phase \notin {"writing", "complete"}
            /\ ReplyScaled(scale, TRUE, views \o <<s3, s4>>)
  BY DEF SaveLayeredOutline, PhaseIs, Calls
<1>2. CASE ReplyScaled(scale, FALSE, <<>>)
  BY <1>1, <1>2, ScaledIsAlike
<1>3. CASE /\ store.progress.phase \notin {"writing", "complete"}
           /\ ReplyScaled(scale, TRUE, views \o <<s3, s4>>)
  <2>1. /\ Fields(s0) /\ FinalStore(s0) /\ s0.progress = store.progress
        /\ s0.progress.phase \in Planning
    BY <1>1, <1>3, ScaledIsAlike, StoreHasFields DEF Alike, Phases, PhaseRank, Planning
  <2>2. s0.volumeSummaries = {}
    BY <2>1 DEF FinalStore, FinalIsOpen, Planning
  <2> HIDE DEF s0
  <2>3. /\ ArrivesAt(s0, views, s2) /\ Fields(s2)
        /\ s2.volumes = RepairMissingLayeredIndexes(vols)
        /\ s2.volumeSummaries = {} /\ s2.progress = s0.progress
    BY <2>1, <2>2, ViewsArrive
  <2> HIDE DEF views
  <2>4. FinalStore(s2)
    BY <2>3 DEF FinalStore, FinalIsOpen, PlansRise
  <2>5. Alike(s2, s3)
    BY <2>1, <2>3, StoreHasFields, PhaseAdvances DEF Planning, Phases, PhaseRank
  <2> HIDE DEF s3
  <2>6. Alike(s3, s4)
    BY <2>5, WritesAreAlike DEF Alike
  <2> HIDE DEF s4
  <2>7. FinalStore(s4)
    BY <2>4, <2>5, <2>6, AlikeIsFinal
  <2>8. ArrivesAt(s2, <<s3, s4>>, s4)
    BY ArrivesShort
  <2>9. ArrivesAt(s0, views \o <<s3, s4>>, s4)
    BY <2>3, <2>8, ArrivesOn
  <2> QED
    BY <1>1, <1>3, <2>7, <2>9, ReplyScaledIsFinal DEF s0
<1> QED
  BY <1>1, <1>2, <1>3

\* saveLayeredViews and the capacity after it.
LEMMA GrowthArrives ==
  ASSUME NEW s, Fields(s), NEW vols,
         FinalIsOpen(RepairMissingLayeredIndexes(vols), s.volumeSummaries, s.progress.phase)
  PROVE  LET views == LayeredViews(s, vols)
             t     == WithCapacity(views[2], vols)
         IN  ArrivesAt(s, Append(views, t), t) /\ FinalStore(t)
<1> DEFINE views == LayeredViews(s, vols)
           t == WithCapacity(views[2], vols)
<1>1. /\ ArrivesAt(s, views, views[2]) /\ Fields(views[2])
      /\ views[2].volumes = RepairMissingLayeredIndexes(vols)
      /\ views[2].volumeSummaries = s.volumeSummaries /\ views[2].progress = s.progress
  BY ViewsArrive
<1> HIDE DEF views
<1>2. FinalStore(views[2]) /\ Alike(views[2], t)
  BY <1>1, WritesAreAlike DEF FinalStore
<1> HIDE DEF t
<1>3. PICK S : views \in Seq(S)
  BY <1>1 DEF ArrivesAt, IsSequence
<1>4. Append(views, t) = views \o <<t>>
  <2>1. views \in Seq(S \cup {t}) /\ t \in S \cup {t}
    BY <1>3
  <2> QED
    BY <2>1, AppendIsConcat
<1>5. ArrivesAt(views[2], <<t>>, t)
  BY ArrivesShort
<1>6. ArrivesAt(s, Append(views, t), t)
  BY <1>1, <1>4, <1>5, ArrivesOn
<1> QED
  BY <1>2, <1>6, AlikeIsFinal DEF views, t

\* The volume that is appended has a number of its own, and arcs.
LEMMA AppendedIsOpen ==
  ASSUME NEW vols \in Seq(VolumeOutline), Numbered(vols), NEW summaries, NEW phase,
         FinalIsOpen(vols, summaries, phase),
         NEW volume \in VolumeOutline, AppendVolumePlan(vols, volume).ok
  PROVE  FinalIsOpen(RepairMissingLayeredIndexes(AppendVolumePlan(vols, volume).vols),
                     summaries, phase)
<1> DEFINE new == AppendVolumePlan(vols, volume).vols
<1>1. /\ new \in Seq(VolumeOutline) /\ Numbered(new) /\ Len(vols) \in Nat
      /\ \/ new = vols
         \/ /\ Len(new) = Len(vols) + 1
            /\ \A v \in 1..Len(vols) : new[v] = vols[v]
            /\ new[Len(new)].arcs # <<>>
            /\ vols # <<>> => new[Len(new)].index = vols[Len(vols)].index + 1
  BY AppendAdds
<1>2. RepairMissingLayeredIndexes(new) = new
  BY <1>1, RepairOfNumbered
<1> HIDE DEF new
<1>3. ASSUME Len(new) = Len(vols) + 1,
             \A v \in 1..Len(vols) : new[v] = vols[v],
             new[Len(new)].arcs # <<>>,
             vols # <<>> => new[Len(new)].index = vols[Len(vols)].index + 1
      PROVE  FinalIsOpen(new, summaries, phase)
  <2>1. DOMAIN new = 1..Len(vols) + 1 /\ DOMAIN vols = 1..Len(vols)
    BY <1>1, <1>3
  <2>2. \A v \in 1..Len(vols) : vols[v].index \in Int /\ vols[v].index <= vols[Len(vols)].index
    <3> SUFFICES ASSUME NEW v \in 1..Len(vols)
                 PROVE  vols[v].index \in Int /\ vols[v].index <= vols[Len(vols)].index
      OBVIOUS
    <3>1. vols[v].index \in Int /\ vols[Len(vols)].index \in Int
      <4>1. vols[v] \in VolumeOutline /\ vols[Len(vols)] \in VolumeOutline
        BY <1>1
      <4> QED
        BY <4>1 DEF VolumeOutline
    <3>2. v < Len(vols) => vols[v].index < vols[Len(vols)].index
      BY <1>1, <2>1 DEF FinalIsOpen, IndexesRise
    <3> QED
      BY <1>1, <3>1, <3>2
  <2>3. \A v \in 1..Len(vols) : vols[v].index < new[Len(new)].index
    <3> SUFFICES ASSUME NEW v \in 1..Len(vols) PROVE vols[v].index < new[Len(new)].index
      OBVIOUS
    <3>1. vols # <<>> /\ Len(vols) \in 1..Len(vols)
      BY <1>1, EmptySeq
    <3> QED
      BY <1>3, <2>2, <3>1
  <2>4. IndexesRise(new)
    <3> SUFFICES ASSUME NEW v \in 1..Len(vols) + 1, NEW w \in 1..Len(vols) + 1, v < w
                 PROVE  new[v].index < new[w].index
      BY <2>1 DEF IndexesRise
    <3>1. v \in 1..Len(vols) /\ (w \in 1..Len(vols) \/ w = Len(new))
      BY <1>1, <1>3
    <3>2. w \in 1..Len(vols) => vols[v].index < vols[w].index
      BY <2>1, <3>1 DEF FinalIsOpen, IndexesRise
    <3> QED
      BY <1>3, <2>3, <3>1, <3>2
  <2>5. summaries \subseteq {vols[v].index : v \in 1..Len(vols)}
    BY <2>1 DEF FinalIsOpen
  <2>6. summaries \subseteq {new[v].index : v \in DOMAIN new}
    BY <1>1, <1>3, <2>1, <2>5
  <2>7. new[Len(new)].index \notin summaries
    BY <2>2, <2>3, <2>5
  <2>8. \A v \in DOMAIN new : EndsBook(new, v) => v = Len(new)
    <3> SUFFICES ASSUME NEW v \in 1..Len(vols) + 1, EndsBook(new, v), v # Len(new) PROVE FALSE
      BY <2>1
    <3>1. Len(new) \in DOMAIN new /\ Len(new) > v
      BY <1>1, <1>3, <2>1
    <3> QED
      BY <1>3, <3>1 DEF EndsBook
  <2> QED
    BY <2>4, <2>6, <2>7, <2>8 DEF FinalIsOpen
<1>4. FinalIsOpen(new, summaries, phase)
  BY <1>1, <1>3
<1> QED
  BY <1>2, <1>4 DEF new

\* An expansion takes no volume away and moves none.
LEMMA ExpandedIsOpen ==
  ASSUME NEW vols \in Seq(VolumeOutline), Numbered(vols), NEW summaries, NEW phase,
         FinalIsOpen(vols, summaries, phase),
         NEW last, NEW size \in Nat, NEW plan \in STRING
  PROVE  FinalIsOpen(RepairMissingLayeredIndexes(ExpandArcAt(vols, last, size, plan).vols),
                     summaries, phase)
<1> DEFINE new == ExpandArcAt(vols, last, size, plan).vols
<1>1. new \in Seq(VolumeOutline) /\ Numbered(new)
  BY ExpandReplaces
<1>2. RepairMissingLayeredIndexes(new) = new
  BY <1>1, RepairOfNumbered
<1>3. ASSUME NEW z, NEW arc, GrowsAt(vols, last, size, plan, z, arc)
      PROVE  FinalIsOpen(new, summaries, phase)
  <2>1. z \in Arcs(vols) /\ arc \in ArcOutline /\ new = Replaced(vols, z, arc)
    BY <1>3 DEF GrowsAt, FindArc
  <2> HIDE DEF new
  <2>2. /\ Len(new) = Len(vols) /\ DOMAIN new = 1..Len(vols) /\ DOMAIN vols = 1..Len(vols)
        /\ \A v \in 1..Len(vols) : /\ new[v].index = vols[v].index /\ new[v].final = vols[v].final
                                   /\ Len(new[v].arcs) = Len(vols[v].arcs)
    BY <1>1, <2>1, ArcReplaced, ReplacedVolumes
  <2>3. \A v \in 1..Len(vols) : new[v].arcs = <<>> <=> vols[v].arcs = <<>>
    <3> SUFFICES ASSUME NEW v \in 1..Len(vols) PROVE new[v].arcs = <<>> <=> vols[v].arcs = <<>>
      OBVIOUS
    <3>1. new[v].arcs \in Seq(ArcOutline) /\ vols[v].arcs \in Seq(ArcOutline)
      BY <1>1, <2>2, ArcsByPlace
    <3> QED
      BY <2>2, <3>1, EmptySeq
  <2>4. \A v \in 1..Len(vols) : EndsBook(new, v) <=> EndsBook(vols, v)
    BY <2>2, <2>3 DEF EndsBook
  <2>5. IndexesRise(new)
    BY <2>2 DEF FinalIsOpen, IndexesRise
  <2>6. {new[v].index : v \in DOMAIN new} = {vols[v].index : v \in DOMAIN vols}
    BY <2>2
  <2>7. (new # <<>> <=> vols # <<>>) /\ (vols # <<>> => Last(new).final = Last(vols).final)
    <3>1. new # <<>> <=> vols # <<>>
      BY <1>1, <2>2, EmptySeq
    <3>2. vols # <<>> => Len(vols) \in 1..Len(vols)
      BY EmptySeq
    <3> QED
      BY <2>2, <3>1, <3>2 DEF Last
  <2> QED
    BY <2>2, <2>4, <2>5, <2>6, <2>7 DEF FinalIsOpen
<1>4. FinalIsOpen(new, summaries, phase)
  BY <1>3, ExpandInPlace
<1> QED
  BY <1>2, <1>4 DEF new

LEMMA AppendVolumeIsFinal ==
  ASSUME GoodInv, FinalInv, NEW scale, NEW raw \in NewVolumes, AppendVolume(scale, raw)
  PROVE  FinalInv'
<1> DEFINE s0 == Scaled(scale)
           volume == ParseVolumeOutline(raw, Len(s0.volumes) + 1)
           appended == AppendVolumePlan(s0.volumes, volume)
           vols == appended.vols
           views == LayeredViews(s0, vols)
           t == WithCapacity(views[2], vols)
<1>1. /\ pc = "work"
      /\ ReplyScaled(scale, FALSE, <<>>)
         \/ (appended.ok /\ ReplyScaled(scale, TRUE, Append(views, t)))
  BY DEF AppendVolume, Calls
<1>2. /\ Fields(s0) /\ FinalStore(s0) /\ s0.volumes \in Seq(VolumeOutline) /\ Numbered(s0.volumes)
      /\ raw \in VolumeOutline
  BY <1>1, ScaledIsAlike, InputAssumption DEF Alike, GoodInv, Good, Laid
<1> HIDE DEF s0
<1>5. volume \in VolumeOutline
  <2>1. Len(s0.volumes) + 1 \in Nat
    BY <1>2
  <2> QED
    BY <1>2, <2>1, ParsedVolume
<1> HIDE DEF volume
<1>3. appended.ok =>
        FinalIsOpen(RepairMissingLayeredIndexes(vols), s0.volumeSummaries, s0.progress.phase)
  BY <1>2, <1>5, AppendedIsOpen DEF FinalStore
<1> HIDE DEF appended
<1>4. appended.ok => ArrivesAt(s0, Append(views, t), t) /\ FinalStore(t)
  BY <1>2, <1>3, GrowthArrives
<1> HIDE DEF views, t
<1> QED
  BY <1>1, <1>4, ScaledIsAlike, ReplyScaledIsFinal DEF s0

LEMMA ExpandNextArcIsFinal ==
  ASSUME GoodInv, FinalInv, NEW e \in Expansions, ExpandNextArc(e)
  PROVE  FinalInv'
<1> DEFINE vols == ExpandArcAt(store.volumes, LatestCompleted(store.progress), e.size, e.plan).vols
           views == LayeredViews(store, vols)
           t == WithCapacity(views[2], vols)
<1>1. pc = "work" /\ (Reply(FALSE, <<>>) \/ Reply(TRUE, Append(views, t)))
  BY DEF ExpandNextArc, Calls
<1>2. /\ Fields(store) /\ FinalStore(store) /\ store.volumes \in Seq(VolumeOutline)
      /\ Numbered(store.volumes) /\ e.size \in Nat /\ e.plan \in STRING
  BY <1>1, StoreHasFields, NoWritesAreFinal, InputAssumption DEF GoodInv, Good, Laid
<1>3. FinalIsOpen(RepairMissingLayeredIndexes(vols), store.volumeSummaries, store.progress.phase)
  BY <1>2, ExpandedIsOpen DEF FinalStore
<1> HIDE DEF vols
<1>4. ArrivesAt(store, Append(views, t), t) /\ FinalStore(t)
  BY <1>2, <1>3, GrowthArrives
<1> HIDE DEF views, t
<1> QED
  BY <1>1, <1>4, NoWritesAreFinal, ReplyIsFinal

-----------------------------------------------------------------------------
(* The editor of a cooperative model. *)

\* It saves a volume summary when it is asked to, once.
LEMMA SummaryIsAsked ==
  ASSUME Cooperative, FinalInv, Calls({"editor"}, "save_volume_summary")
  PROVE  inst.kind = "volume_summary" /\ turns = 0
<1> DEFINE once == CASE inst.kind = "expand_arc"     -> {"expand_next_arc"}
                     [] inst.kind = "new_volume"     -> {"append_volume", "complete_book"}
                     [] inst.kind = "outline_done"   -> {"complete_book"}
                     [] inst.kind = "arc_summary"    -> {"save_arc_summary"}
                     [] inst.kind = "volume_summary" -> {"save_volume_summary"}
                     [] inst.kind \in {"arc_review", "refresh_arc_review",
                                       "global_review", "refresh_global_review"} -> {"save_review"}
<1>1. "save_volume_summary" \in Asked /\ pc = "work"
  BY DEF Calls
<1>2. \A item \in FoundationMissing(store) : FillTool(item) # "save_volume_summary"
  <2>1. FoundationMissing(store) \subseteq Artifacts \cup {"outline", "foundation_audit"}
    BY DEF FoundationMissing, FoundationGaps
  <2> QED
    BY <2>1 DEF FillTool, Artifacts
<1>3. inst.kind \notin {"plan_start", "fill"}
  BY <1>1, <1>2 DEF Asked
<1>4. inst.kind \notin {"write", "rewrite", "polish"}
  BY <1>1 DEF Asked
<1>5. Asked = IF turns > 0 THEN {"done"} ELSE once
  BY <1>3, <1>4, Zenon DEF Asked
<1>6. ~(turns > 0) /\ "save_volume_summary" \in once
  BY <1>1, <1>5
<1>7. turns = 0
  BY <1>6 DEF FinalInv
<1>8. inst.kind \in Kinds
  BY <1>1, <1>7 DEF FinalInv, IsDue
<1>9. inst.kind \in {"expand_arc", "new_volume", "outline_done", "arc_summary", "volume_summary",
                     "arc_review", "refresh_arc_review", "global_review", "refresh_global_review"}
  BY <1>3, <1>4, <1>8 DEF Kinds
<1>10. /\ inst.kind = "expand_arc" => once = {"expand_next_arc"}
       /\ inst.kind = "new_volume" => once = {"append_volume", "complete_book"}
       /\ inst.kind = "outline_done" => once = {"complete_book"}
       /\ inst.kind = "arc_summary" => once = {"save_arc_summary"}
  OBVIOUS
<1>11. inst.kind \in {"arc_review", "refresh_arc_review",
                      "global_review", "refresh_global_review"} => once = {"save_review"}
  OBVIOUS
<1> HIDE DEF once
<1> QED
  BY <1>6, <1>7, <1>9, <1>10, <1>11

\* What it summarises is left to the end of the final volume, or completes the book.
LEMMA VolumeSummaryIsFinal ==
  ASSUME Cooperative, GoodInv, FinalInv, NEW volume \in VolumeArgs, NEW same,
         SaveVolumeSummary(volume, same)
  PROVE  FinalInv'
<1> DEFINE p == store.progress
           vols == store.volumes
           s1 == [store EXCEPT !.volumeSummaries = @ \cup {volume}]
           known == volume \in store.volumeSummaries
           saved == IF known THEN <<>> ELSE <<s1>>
           final == FinalVolumeIsWritten(s1)
           ended == IF final THEN <<Completed(s1)>> ELSE <<>>
<1>1. /\ Calls({"editor"}, "save_volume_summary")
      /\ Reply(FALSE, <<>>) \/ Reply(TRUE, saved \o ended)
  BY Zenon DEF SaveVolumeSummary
<1>2. pc = "work" /\ inst.kind = "volume_summary" /\ turns = 0
  BY <1>1, SummaryIsAsked DEF Calls
<1>3. volume = inst.at[1]
  BY <1>2 DEF VolumeArgs, NamesArc, Cooperative, Adversary
<1>4. /\ p.phase = "writing" /\ p.layered /\ p.pending = <<>>
      /\ \E v \in DOMAIN vols :
           volume = vols[v].index /\ (EndsBook(vols, v) => NextChapter(p) > FlattenedLength(vols))
  BY <1>2, <1>3 DEF FinalInv, IsDue, SummaryIsDue
<1>5. FinalStore(store) /\ Fields(store)
  BY <1>2, NoWritesAreFinal, StoreHasFields
<1>6. /\ s1.volumes = vols /\ s1.progress = p /\ Fields(s1)
      /\ s1.volumeSummaries = store.volumeSummaries \cup {volume}
  BY <1>5 DEF Fields
<1>7. known => s1.volumeSummaries = store.volumeSummaries
  BY <1>6
<1> HIDE DEF s1, known
<1>8. ASSUME ~final PROVE FinalStore(s1)
  <2>1. ASSUME vols # <<>>, Last(vols).final, NEW w \in DOMAIN vols, EndsBook(vols, w),
               vols[w].index = volume
        PROVE  FALSE
    <3>1. PICK v \in DOMAIN vols :
            volume = vols[v].index /\ (EndsBook(vols, v) => NextChapter(p) > FlattenedLength(vols))
      BY <1>4
    <3>2. ~(NextChapter(p) > FlattenedLength(vols))
      BY <1>4, <1>6, <1>8, <2>1 DEF FinalVolumeIsWritten
    <3>3. v # w
      BY <2>1, <3>1, <3>2
    <3>4. /\ v \in Nat /\ w \in Nat /\ vols[v].index \in Int
          /\ v < w => vols[v].index < vols[w].index
          /\ w < v => vols[w].index < vols[v].index
      <4>1. vols \in Seq(VolumeOutline)
        BY DEF GoodInv, Good, Laid
      <4>2. vols[v] \in VolumeOutline /\ v \in Nat /\ w \in Nat
        BY <4>1
      <4> QED
        BY <1>5, <4>2 DEF FinalStore, FinalIsOpen, IndexesRise, VolumeOutline
    <3> QED
      BY <2>1, <3>1, <3>3, <3>4
  <2> QED
    BY <1>4, <1>5, <1>6, <2>1 DEF FinalStore, FinalIsOpen
<1>9. ASSUME final PROVE FinalStore(Completed(s1))
  <2> DEFINE t == Completed(s1)
  <2>1. /\ t.volumes = vols /\ t.volumeSummaries = s1.volumeSummaries
        /\ t.progress.phase = "complete"
    BY <1>6 DEF Completed, Fields
  <2> HIDE DEF t
  <2>2. FinalStore(t)
    BY <1>4, <1>5, <1>6, <2>1 DEF FinalStore, FinalIsOpen
  <2> QED
    BY <2>2 DEF t
<1>10. \E t : ArrivesAt(store, saved \o ended, t) /\ FinalStore(t)
  <2>1. \E s : ArrivesAt(store, saved, s) /\ (~final => FinalStore(s))
    <3>1. CASE known
      BY <1>5, <3>1, ArrivesShort
    <3>2. CASE ~known
      BY <1>8, <3>2, ArrivesShort
    <3> QED
      BY <3>1, <3>2
  <2>2. PICK s : ArrivesAt(store, saved, s) /\ (~final => FinalStore(s))
    BY <2>1
  <2>3. \E t : ArrivesAt(s, ended, t) /\ FinalStore(t)
    <3>1. CASE final
      BY <1>9, <3>1, ArrivesShort
    <3>2. CASE ~final
      BY <2>2, <3>2, ArrivesShort
    <3> QED
      BY <3>1, <3>2
  <2> HIDE DEF saved, ended
  <2> QED
    BY <2>2, <2>3, ArrivesOn
<1> HIDE DEF saved, ended
<1> QED
  BY <1>1, <1>2, <1>10, NoWritesAreFinal, ReplyIsFinal

LEMMA EditorIsFinal ==
  ASSUME Cooperative, GoodInv, FinalInv, Editor
  PROVE  FinalInv'
BY ReviewIsFinal, ArcSummaryIsFinal, VolumeSummaryIsFinal, Zenon DEF Editor

LEMMA ArchitectIsFinal ==
  ASSUME PlansRise, GoodInv, FinalInv, Architect
  PROVE  FinalInv'
BY OtherFilesAreFinal, FlatOutlineIsFinal, LayeredOutlineIsFinal, AppendVolumeIsFinal,
   ExpandNextArcIsFinal, Zenon DEF Architect

-----------------------------------------------------------------------------
(* What the router asks of the editor and the architect. *)

\* A volume summary is asked for when one is missing at a finished arc, a volume
\* when the arc end has nothing else left.
VolumeIsRouted(f, i) ==
  LET p == f.progress
      b == f.arcBoundary
  IN  /\ i.kind = "volume_summary" =>
           /\ p.phase = "writing" /\ p.pending = <<>>
           /\ \/ f.aggregateRefresh.kind = "volume_summary" /\ i.at[1] = f.aggregateRefresh.volume
              \/ p.layered /\ b.isArcEnd /\ b.isVolumeEnd /\ i.at[1] = b.volume
      /\ i.kind = "new_volume" =>
           /\ p.phase = "writing" /\ p.layered
           /\ b.isArcEnd /\ b.needsNewVolume /\ (b.isVolumeEnd => f.hasVolumeSummary)

LEMMA InstructionIsRouted ==
  ASSUME NEW f, NEW i, i = RouteOf(f), f.immediateFeedbackCount = 0,
         f.aggregateRefresh # NoRefresh =>
           f.aggregateRefresh.kind
             \in {"arc_review", "arc_summary", "volume_summary", "global_review"}
  PROVE  i = NoInstruction \/ (i.kind \in Kinds /\ VolumeIsRouted(f, i))
<1> DEFINE Other == Kinds \ {"volume_summary", "new_volume"}
           p == f.progress
           b == f.arcBoundary
           r == f.aggregateRefresh
<1>1. \A agent, kind, missing, at, chapter :
        /\ Instruction(agent, kind, missing, at, chapter).kind = kind
        /\ Instruction(agent, kind, missing, at, chapter).at = at
  BY DEF Instruction
<1>2. \A j : j.kind \in Other => j.kind \in Kinds /\ VolumeIsRouted(f, j)
  BY DEF VolumeIsRouted
<1>3. {"fill", "write", "polish", "rewrite", "outline_done", "expand_arc", "arc_review",
       "arc_summary", "global_review", "refresh_arc_review", "refresh_global_review"} \subseteq Other
      /\ {"volume_summary", "new_volume"} \subseteq Kinds
  BY DEF Kinds
<1> HIDE DEF Other
<1>4. CASE p.phase # "writing"
  <2>1. i = NoInstruction \/ i = Instruction(PlannerForTier(f.planningTier), "fill",
                                             f.foundationMissing, <<>>, 0)
    BY <1>4 DEF RouteOf
  <2> QED
    BY <1>1, <1>2, <1>3, <2>1
<1>5. CASE p.phase = "writing" /\ p.pending # <<>>
  <2>1. i = Instruction("writer", IF p.flow = "polishing" THEN "polish" ELSE "rewrite",
                        {}, <<>>, p.pending[1])
    BY <1>5 DEF RouteOf, WritingInstruction
  <2> QED
    BY <1>1, <1>2, <1>3, <2>1
<1>6. CASE p.phase = "writing" /\ p.pending = <<>>
  <2>1. \/ i = NoInstruction
        \/ r # NoRefresh /\ i = RefreshInstruction(r)
        \/ /\ p.layered /\ b.isArcEnd /\ i = ArcEndInstruction(f)
        \/ i = Instruction("editor", "global_review", {}, <<f.lastCompleted>>, 0)
        \/ i = NextChapterInstruction(f)
    BY <1>6 DEF RouteOf, WritingInstruction
  <2>2. CASE r # NoRefresh /\ i = RefreshInstruction(r)
    <3>1. r.kind \in {"arc_review", "arc_summary", "volume_summary", "global_review"}
      BY <2>2
    <3>2. r.kind # "volume_summary" => i.kind \in Other
      BY <1>1, <1>3, <2>2, <3>1 DEF RefreshInstruction, RefreshKind
    <3>3. r.kind = "volume_summary" => i.kind = "volume_summary" /\ i.at[1] = r.volume
      <4>1. r.kind = "volume_summary" =>
              i = Instruction("editor", "volume_summary", {}, <<r.volume>>, 0)
        BY <2>2 DEF RefreshInstruction, RefreshKind
      <4> QED
        BY <1>1, <4>1
    <3> QED
      BY <1>2, <1>3, <1>6, <3>2, <3>3 DEF VolumeIsRouted
  <2>3. CASE /\ p.layered /\ b.isArcEnd /\ i = ArcEndInstruction(f)
    <3>1. \/ i = NoInstruction
          \/ i = Instruction("editor", "arc_review", {},
                             <<b.volume, b.arc, b.startChapter, b.endChapter>>, 0)
          \/ i = Instruction("editor", "arc_summary", {}, <<b.volume, b.arc>>, 0)
          \/ i = Instruction("architect_long", "expand_arc", {}, <<b.nextVolume, b.nextArc>>, 0)
          \/ b.isVolumeEnd /\ i = Instruction("editor", "volume_summary", {}, <<b.volume>>, 0)
          \/ /\ b.needsNewVolume /\ (b.isVolumeEnd => f.hasVolumeSummary)
             /\ i = Instruction("architect_long", "new_volume", {}, <<>>, 0)
      BY <2>3, Zenon DEF ArcEndInstruction
    <3>2. i = NoInstruction \/ i.kind \in Other \/ i.kind \in {"volume_summary", "new_volume"}
      BY <1>1, <1>3, <3>1
    <3>3. CASE b.isVolumeEnd /\ i = Instruction("editor", "volume_summary", {}, <<b.volume>>, 0)
      <4>1. i.kind = "volume_summary" /\ i.at[1] = b.volume
        BY <1>1, <3>3
      <4> QED
        BY <1>3, <1>6, <2>3, <3>3, <4>1 DEF VolumeIsRouted
    <3>4. CASE /\ b.needsNewVolume /\ (b.isVolumeEnd => f.hasVolumeSummary)
               /\ i = Instruction("architect_long", "new_volume", {}, <<>>, 0)
      <4>1. i.kind = "new_volume"
        BY <1>1, <3>4
      <4> QED
        BY <1>3, <1>6, <2>3, <3>4, <4>1 DEF VolumeIsRouted
    <3> QED
      BY <1>1, <1>2, <1>3, <3>1, <3>3, <3>4
  <2>4. CASE i = NextChapterInstruction(f)
    <3>1. i.kind \in {"outline_done", "write"}
      BY <1>1, <2>4 DEF NextChapterInstruction
    <3> QED
      BY <1>2, <1>3, <3>1
  <2>5. CASE i = Instruction("editor", "global_review", {}, <<f.lastCompleted>>, 0)
    BY <1>1, <1>2, <1>3, <2>5
  <2> QED
    BY <2>1, <2>2, <2>3, <2>4, <2>5
<1> QED
  BY <1>4, <1>5, <1>6

\* A summary that was missed is that of a volume whose last arc is written.
LEMMA MissedSummary ==
  ASSUME NEW s, Good(s), LayeredRefresh(s).kind = "volume_summary"
  PROVE  \E x \in CompletedArcs(s.volumes, LatestCompleted(s.progress)) :
           EndsVolume(s.volumes, x) /\ LayeredRefresh(s).volume = s.volumes[x[1]].index
<1> DEFINE done == CompletedArcs(s.volumes, LatestCompleted(s.progress))
           gaps == {x \in done : ArcGap(s, x) # NoRefresh}
           First(x) == \A y \in gaps \ {x} : StoryBefore(x, y)
<1>1. gaps \in SUBSET Arcs(s.volumes) /\ \A x \in gaps : IsArcExpanded(ArcAt(s.volumes, x))
  BY DEF CompletedArcs
<1>2. gaps \subseteq done
  OBVIOUS
<1>3. LayeredRefresh(s) = IF gaps = {} THEN NoRefresh ELSE ArcGap(s, CHOOSE x \in gaps : First(x))
  BY DEF LayeredRefresh
<1>4. s.volumes \in Seq(VolumeOutline)
  BY DEF Good, Laid
<1> HIDE DEF gaps
<1>5. gaps # {}
  BY <1>3 DEF NoRefresh
<1>6. \E x \in gaps : First(x)
  BY <1>1, <1>4, <1>5, FirstArc
<1> HIDE DEF First
<1>7. PICK x \in gaps : LayeredRefresh(s) = ArcGap(s, x)
  BY <1>3, <1>5, <1>6
<1> DEFINE b == Boundary(s.volumes, x)
<1>8. b.volume = s.volumes[x[1]].index /\ b.isVolumeEnd = EndsVolume(s.volumes, x)
  BY DEF Boundary
<1>9. \A kind : RefreshFrom(kind, b).kind = kind /\ RefreshFrom(kind, b).volume = b.volume
  BY DEF RefreshFrom
<1>10. NoRefresh.kind = "none"
  BY DEF NoRefresh
<1>11. b.isVolumeEnd /\ ArcGap(s, x).volume = b.volume
  <2> HIDE DEF b
  <2>1. \/ ArcGap(s, x) \in {RefreshFrom("arc_review", b), RefreshFrom("arc_summary", b), NoRefresh}
        \/ b.isVolumeEnd /\ ArcGap(s, x) = RefreshFrom("volume_summary", b)
    BY DEF ArcGap, b
  <2> QED
    BY <1>7, <1>9, <1>10, <2>1
<1> QED
  BY <1>2, <1>7, <1>8, <1>11

\* What is routed in a good store is due, and no volume is asked for after the final one.
LEMMA RoutedIsDue ==
  ASSUME GoodInv, FinalStore(store)
  PROVE  LET i == NextInstruction
         IN  /\ i = NoInstruction \/ IsDue(i)
             /\ i.kind = "new_volume" => ~Last(store.volumes).final
<1> DEFINE i == NextInstruction
           f == AssembleState(store)
           p == store.progress
           vols == store.volumes
           last == LatestCompleted(p)
           b == f.arcBoundary
<1>0. NoInstruction.kind = "none"
  BY DEF NoInstruction, Instruction
<1>1. /\ f.progress = p /\ f.immediateFeedbackCount = 0
      /\ f.hasVolumeSummary = (b.isVolumeEnd /\ b.volume \in store.volumeSummaries)
  BY DEF AssembleState
<1>2. /\ vols \in Seq(VolumeOutline) /\ Good(store) /\ last \in Nat
      /\ FlattenedLength(vols) \in Nat /\ NextChapter(p) = last + 1
  BY Latest, ChaptersAreFinite DEF GoodInv, Good, Laid, NextChapter, FlattenedLength
<1>3. /\ f.aggregateRefresh.kind = "volume_summary" =>
           /\ p.layered /\ vols # <<>>
           /\ \E x \in CompletedArcs(vols, last) :
                EndsVolume(vols, x) /\ f.aggregateRefresh.volume = vols[x[1]].index
  <2>1. \/ HasArcFacts(store) /\ f.aggregateRefresh = LayeredRefresh(store)
        \/ f.aggregateRefresh \in {FlatRefresh(store), NoRefresh}
    BY DEF AssembleState
  <2>2. FlatRefresh(store).kind # "volume_summary" /\ NoRefresh.kind # "volume_summary"
    BY DEF FlatRefresh, NoRefresh
  <2> HIDE DEF f
  <2> QED
    BY <1>2, <2>1, <2>2, MissedSummary DEF HasArcFacts
<1>4. b.isArcEnd =>
        /\ vols # <<>>
        /\ \E x \in Arcs(vols) :
             /\ IsArcExpanded(ArcAt(vols, x)) /\ EndChapter(vols, x) = last
             /\ b.volume = vols[x[1]].index /\ b.isVolumeEnd = EndsVolume(vols, x)
             /\ b.needsNewVolume => FollowingArc(vols, x) = {} /\ EndsVolume(vols, x)
  <2>1. b = (IF HasArcFacts(store) THEN CheckArcBoundary(vols, last) ELSE NoBoundary)
    BY DEF AssembleState
  <2>2. ~NoBoundary.isArcEnd
    BY DEF NoBoundary
  <2> HIDE DEF b
  <2> SUFFICES ASSUME b.isArcEnd
               PROVE  /\ vols # <<>>
                      /\ \E x \in Arcs(vols) :
                           /\ IsArcExpanded(ArcAt(vols, x)) /\ EndChapter(vols, x) = last
                           /\ b.volume = vols[x[1]].index /\ b.isVolumeEnd = EndsVolume(vols, x)
                           /\ b.needsNewVolume => FollowingArc(vols, x) = {} /\ EndsVolume(vols, x)
    OBVIOUS
  <2>3. HasArcFacts(store) /\ b = CheckArcBoundary(vols, last)
    BY <2>1, <2>2
  <2>4. vols # <<>> /\ CheckArcBoundary(vols, last).isArcEnd
    BY <2>3 DEF HasArcFacts
  <2> QED
    BY <1>2, <2>3, <2>4, BoundaryTells
<1>5. i = NoInstruction \/ (i.kind = "plan_start") \/ (i.kind \in Kinds /\ VolumeIsRouted(f, i))
  <2>1. CASE i = RouteOf(f)
    BY <1>1, <2>1, InstructionIsRouted, RefreshIsNamed
  <2>2. CASE i # RouteOf(f)
    <3>1. i = Instruction(PlannerForTier(store.prompt), "plan_start", {}, <<>>, 0)
      BY <2>2, Zenon DEF NextInstruction
    <3> QED
      BY <3>1 DEF Instruction
  <2> QED
    BY <2>1, <2>2
<1> HIDE DEF i, f, b
<1>6. i.kind = "volume_summary" => SummaryIsDue(i)
  <2> SUFFICES ASSUME i.kind = "volume_summary" PROVE SummaryIsDue(i)
    OBVIOUS
  <2>1. VolumeIsRouted(f, i)
    BY <1>0, <1>5
  <2>2. p.phase = "writing" /\ p.pending = <<>>
    BY <1>1, <2>1 DEF VolumeIsRouted
  <2>3. p.layered /\ \E x \in Arcs(vols) :
          /\ IsArcExpanded(ArcAt(vols, x)) /\ EndChapter(vols, x) <= last
          /\ EndsVolume(vols, x) /\ i.at[1] = vols[x[1]].index
    <3>1. CASE f.aggregateRefresh.kind = "volume_summary" /\ i.at[1] = f.aggregateRefresh.volume
      BY <1>3, <3>1 DEF CompletedArcs
    <3>2. CASE p.layered /\ b.isArcEnd /\ b.isVolumeEnd /\ i.at[1] = b.volume
      <4>1. last <= last
        BY <1>2
      <4> QED
        BY <1>4, <3>2, <4>1
    <3> QED
      BY <1>1, <2>1, <3>1, <3>2 DEF VolumeIsRouted, b
  <2>4. PICK x \in Arcs(vols) :
          /\ IsArcExpanded(ArcAt(vols, x)) /\ EndChapter(vols, x) <= last
          /\ EndsVolume(vols, x) /\ i.at[1] = vols[x[1]].index
    BY <2>3
  <2>5. x[1] \in DOMAIN vols
    BY <1>2, ArcsByPlace
  <2>6. EndsBook(vols, x[1]) => NextChapter(p) > FlattenedLength(vols)
    <3>1. EndsBook(vols, x[1]) => EndChapter(vols, x) = FlattenedLength(vols)
      BY <1>2, <2>4, BookEnds
    <3> QED
      BY <1>2, <2>4, <3>1
  <2> QED
    BY <2>2, <2>3, <2>4, <2>5, <2>6 DEF SummaryIsDue
<1>7. i.kind = "new_volume" => ~Last(vols).final
  <2> SUFFICES ASSUME i.kind = "new_volume", Last(vols).final PROVE FALSE
    OBVIOUS
  <2>1. VolumeIsRouted(f, i)
    BY <1>0, <1>5
  <2>2. /\ p.phase = "writing" /\ p.layered
        /\ b.isArcEnd /\ b.needsNewVolume /\ (b.isVolumeEnd => f.hasVolumeSummary)
    BY <1>1, <2>1 DEF VolumeIsRouted, b
  <2>3. PICK x \in Arcs(vols) :
          /\ b.volume = vols[x[1]].index /\ b.isVolumeEnd = EndsVolume(vols, x)
          /\ FollowingArc(vols, x) = {} /\ EndsVolume(vols, x)
    BY <1>4, <2>2
  <2>4. vols[x[1]].index \in store.volumeSummaries
    BY <1>1, <2>2, <2>3
  <2>5. x[1] \in DOMAIN vols /\ EndsBook(vols, x[1])
    BY <1>2, <2>3, ArcsByPlace, NothingFollows
  <2> QED
    BY <1>4, <2>2, <2>4, <2>5 DEF FinalStore, FinalIsOpen
<1>8. i = NoInstruction \/ i.kind \in Kinds
  BY <1>5 DEF Kinds
<1> QED
  BY <1>6, <1>7, <1>8 DEF IsDue, SummaryIsDue, i

-----------------------------------------------------------------------------
(* The steps of the loop. *)

LEMMA WriteIsFinal ==
  ASSUME GoodInv, FinalInv, WriteNext
  PROVE  FinalInv'
<1>1. /\ pc = "tool" /\ store' = Head(script) /\ script' = Tail(script) /\ script # <<>>
      /\ pc' \in {"tool", "failed", "work"} /\ turns' = turns /\ next' = next /\ inst' = inst
  BY DEF WriteNext, GoodInv
<1>2. turns' \in Nat /\ turns' > 0
  BY <1>1 DEF FinalInv
<1>3. PICK t : ArrivesAt(store, script, t) /\ FinalStore(t)
  BY DEF FinalInv
<1>4. ArrivesAt(Head(script), Tail(script), t)
  <2>1. PICK S : script \in Seq(S)
    BY <1>3 DEF ArrivesAt, IsSequence
  <2> DEFINE rest == Tail(script)
  <2>2. /\ Len(script) \in Nat \ {0} /\ Head(script) = script[1]
        /\ rest \in Seq(S) /\ Len(rest) = Len(script) - 1
        /\ \A n \in 1..Len(rest) : rest[n] = script[n + 1]
    BY <1>1, <2>1, EmptySeq, HeadTailProperties
  <2> HIDE DEF rest
  <2>3. t = script[Len(script)]
    BY <1>3, <2>2 DEF ArrivesAt
  <2>4. t = IF Len(rest) = 0 THEN Head(script) ELSE rest[Len(rest)]
    BY <2>2, <2>3
  <2> QED
    BY <2>2, <2>4 DEF ArrivesAt, IsSequence, rest
<1>5. (\E u : ArrivesAt(store, script, u) /\ FinalStore(u))'
  BY <1>1, <1>3, <1>4 DEF ArrivesAt, FinalStore
<1> QED
  BY <1>1, <1>2, <1>5 DEF FinalInv, FinalVolumeIsLast

\* While no tool is writing, the store on disk is the one that counts.
LEMMA StoreIsFinal ==
  ASSUME GoodInv, FinalInv, pc # "tool"
  PROVE  FinalStore(store) /\ script = <<>>
<1>1. script = <<>>
  BY DEF GoodInv
<1> QED
  BY <1>1 DEF FinalInv, ArrivesAt

\* A step that writes nothing, or something that does not count, and starts no worker.
LEMMA StepIsFinal ==
  ASSUME GoodInv, FinalInv, pc # "tool", Alike(store, store'), script' = <<>>,
         turns' \in Nat, pc' \in {"idle", "loop", "failed"}
  PROVE  FinalInv'
<1>1. FinalStore(store')
  BY StoreIsFinal, AlikeIsFinal
<1>2. ArrivesAt(store', <<>>, store')
  BY ArrivesShort
<1>3. (\E u : ArrivesAt(store, script, u) /\ FinalStore(u))'
  BY <1>1, <1>2 DEF ArrivesAt, FinalStore
<1> QED
  BY <1>3 DEF FinalInv, FinalVolumeIsLast

LEMMA LoadIsFinal ==
  ASSUME GoodInv, FinalInv, LoadState
  PROVE  FinalInv'
<1>1. /\ pc = "loop" /\ pc' = "route" /\ next' = NextInstruction
      /\ UNCHANGED <<store, script, turns>>
  BY DEF LoadState
<1>2. FinalStore(store)
  BY <1>1, StoreIsFinal
<1> DEFINE i == NextInstruction
<1>3. (i = NoInstruction \/ IsDue(i)) /\ (i.kind = "new_volume" => ~Last(store.volumes).final)
  BY <1>2, RoutedIsDue
<1> HIDE DEF i
<1>4. (next = NoInstruction \/ IsDue(next))' /\ FinalVolumeIsLast'
  BY <1>1, <1>3 DEF IsDue, SummaryIsDue, FinalVolumeIsLast, i
<1>5. (\E u : ArrivesAt(store, script, u) /\ FinalStore(u))'
  BY <1>1 DEF FinalInv, ArrivesAt, FinalStore
<1> QED
  BY <1>1, <1>4, <1>5 DEF FinalInv

LEMMA DispatchIsFinal ==
  ASSUME GoodInv, FinalInv, Dispatch
  PROVE  FinalInv'
<1> DEFINE q == DispatchedProgress(store.progress, next.chapter)
           s1 == [store EXCEPT !.progress = q]
           s2 == [store EXCEPT !.tier = store.prompt]
<1>1. /\ pc = "route" /\ pc' = "work" /\ inst' = next /\ next # NoInstruction
      /\ script' = script /\ turns' = turns /\ store' \in {store, s1, s2}
  BY Zenon DEF Dispatch, NothingToDispatch
<1>2. FinalStore(store) /\ script' = <<>> /\ Fields(store)
  BY <1>1, StoreIsFinal, StoreHasFields
<1>3. /\ "phase" \in DOMAIN q /\ q.phase = store.progress.phase
      /\ q.layered = store.progress.layered
      /\ q.pending = store.progress.pending /\ q.completed = store.progress.completed
  BY DEF DispatchedProgress, GoodInv, Good, Shape
<1> HIDE DEF q
<1>4. Alike(store, s1) /\ s1.progress = q
  BY <1>2, <1>3, WritesAreAlike DEF Fields
<1>5. Alike(store, s2) /\ s2.progress = store.progress
  BY <1>2, WritesAreAlike DEF Fields, Alike
<1>6. Alike(store, store)
  BY <1>2, WritesAreAlike
<1> HIDE DEF s1, s2
<1>7. /\ Alike(store, store') /\ store'.progress.phase = store.progress.phase
      /\ store'.progress.layered = store.progress.layered
      /\ store'.progress.pending = store.progress.pending
      /\ store'.progress.completed = store.progress.completed
  BY <1>1, <1>3, <1>4, <1>5, <1>6
<1>8. FinalStore(store')
  BY <1>2, <1>7, AlikeIsFinal
<1>9. ArrivesAt(store', <<>>, store')
  BY ArrivesShort
<1>10. (\E u : ArrivesAt(store, script, u) /\ FinalStore(u))'
  BY <1>2, <1>8, <1>9 DEF ArrivesAt, FinalStore
<1>11. IsDue(inst)'
  <2>1. IsDue(next)
    BY <1>1 DEF FinalInv
  <2>2. NextChapter(store'.progress) = NextChapter(store.progress)
    BY <1>7 DEF NextChapter, LatestCompleted
  <2>3. store'.volumes = store.volumes
    BY <1>7 DEF Alike
  <2> QED
    BY <1>1, <1>7, <2>1, <2>2, <2>3 DEF IsDue, SummaryIsDue
<1> QED
  BY <1>1, <1>10, <1>11 DEF FinalInv, FinalVolumeIsLast

LEMMA LoopIsFinal ==
  ASSUME Cooperative, ~Crashes, GoodInv, FinalInv,
         \/ FinishRun \/ WorkerFailed \/ EndTurn \/ WorkerThrows
         \/ Consult \/ Crash \/ Runs \/ UNCHANGED vars
  PROVE  FinalInv'
<1>0. Fields(store) /\ Alike(store, store)
  BY StoreHasFields, WritesAreAlike
<1>1. CASE UNCHANGED vars
  BY <1>1 DEF vars, FinalInv, FinalVolumeIsLast, IsDue, SummaryIsDue, ArrivesAt, FinalStore
<1>2. ~Consult /\ ~Crash
  BY DEF Consult, Crash
<1>3. CASE EndTurn \/ WorkerThrows
  <2>1. /\ pc = "work" /\ UNCHANGED <<store, script>> /\ turns' \in {0, turns}
        /\ pc' \in {"loop", "failed"}
    BY <1>3 DEF EndTurn, WorkerThrows, WorkerDone
  <2>2. script = <<>> /\ turns' \in Nat
    BY <2>1, StoreIsFinal DEF FinalInv
  <2> QED
    BY <1>0, <2>1, <2>2, StepIsFinal
<1>4. CASE FinishRun \/ WorkerFailed
  <2>1. /\ pc # "tool" /\ UNCHANGED store /\ script' \in {<<>>, script} /\ turns' = 0
        /\ pc' \in {"idle", "loop"}
    BY <1>4 DEF FinishRun, WorkerFailed, Stop
  <2>2. script = <<>>
    BY <2>1, StoreIsFinal
  <2> QED
    BY <1>0, <2>1, <2>2, StepIsFinal
<1>5. CASE Runs
  <2>1. PICK tier \in PlanTiers : StartRun(tier)
    BY <1>5 DEF Runs
  <2> DEFINE t == [store EXCEPT !.prompt = tier]
  <2>2. pc = "idle" /\ pc' = "loop" /\ store' = t /\ script' = script /\ turns' = turns
    BY <2>1 DEF StartRun
  <2>3. Alike(store, t)
    BY <1>0, WritesAreAlike
  <2> HIDE DEF t
  <2>4. script' = <<>> /\ turns' \in Nat
    BY <2>2, StoreIsFinal DEF FinalInv
  <2> QED
    BY <2>2, <2>3, <2>4, StepIsFinal
<1> QED
  BY <1>1, <1>2, <1>3, <1>4, <1>5

LEMMA FinalInvHolds == Cooperative /\ ~Crashes /\ PlansRise => (Spec => []FinalInv)
<1> SUFFICES ASSUME Cooperative, ~Crashes, PlansRise PROVE Spec => []FinalInv
  OBVIOUS
<1>1. Init => FinalInv
  <2> SUFFICES ASSUME Init PROVE FinalInv
    OBVIOUS
  <2>1. store = EmptyStore /\ script = <<>> /\ turns = 0 /\ pc = "idle"
    BY DEF Init
  <2>2. store.volumes = <<>> /\ store.volumeSummaries = {}
    BY <2>1 DEF EmptyStore
  <2>3. FinalStore(store)
    BY <2>2 DEF FinalStore, FinalIsOpen, IndexesRise
  <2> QED
    BY <2>1, <2>3, ArrivesShort DEF FinalInv, FinalVolumeIsLast
<1>2. GoodInv /\ FinalInv /\ [Next]_vars => FinalInv'
  BY ArchitectIsFinal, EditorIsFinal, WriterIsFinal, WriteIsFinal, LoadIsFinal, DispatchIsFinal,
     LoopIsFinal DEF Next, EngineStep
<1> QED
  BY <1>1, <1>2, GoodInvHolds, PTL DEF Spec

\* Nobody is asked for a volume after the final one, while the process lives and the
\* model does what its instruction says, if no two volumes of an outline share an index:
\* the volume the book ends with is summarised only when the book is written to its end,
\* and that call completes the book (maybeCompleteFinalVolume), so that the router never
\* finds the summary there and the book unfinished.
THEOREM NothingIsAskedAfterTheFinalVolume ==
  Cooperative /\ ~Crashes /\ PlansRise => (Spec => []FinalVolumeIsLast)
<1> SUFFICES ASSUME Cooperative, ~Crashes, PlansRise PROVE Spec => []FinalVolumeIsLast
  OBVIOUS
<1>1. FinalInv => FinalVolumeIsLast
  BY DEF FinalInv
<1> QED
  BY <1>1, FinalInvHolds, PTL
=============================================================================
