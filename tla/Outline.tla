------------------------------ MODULE Outline -------------------------------
(***************************************************************************)
(* The layered outline: volumes hold arcs, an arc is expanded once it has  *)
(* chapters and is a skeleton before.  Chapters are numbered through the   *)
(* whole book in story order.  Translated from src/src/store/layered.ts.   *)
(*                                                                         *)
(* A volume is [index, title, plan, final, arcs] and an arc [index, size,  *)
(* est, plan]: `size` is the number of detailed chapters, `est` the        *)
(* estimate a skeleton carries, `plan` stands for all of its text.  The    *)
(* title of a volume is kept apart where it reads "volume n": it is n      *)
(* then, OwnTitle where it is part of the plan, and NoTitle where the      *)
(* language model gave none.  Indexes are those the model supplied; only   *)
(* positions are sure to be unique.                                        *)
(***************************************************************************)
EXTENDS Integers, Sequences, FiniteSetsExt, SequencesExt

ArcOutline == [index : Int, size : Nat, est : Nat, plan : STRING]

VolumeOutline ==
  [index : Int, title : Int, plan : STRING, final : BOOLEAN, arcs : Seq(ArcOutline)]

OwnTitle == 0
NoTitle == -1

\* parseVolumeOutline: a volume without a title gets one from the number the
\* caller has for it.
ParseVolumeOutline(raw, fallback) ==
  [raw EXCEPT !.title = IF @ = NoTitle THEN fallback ELSE @]

\* Slip: a skeleton with an estimate counts as expanded.
IsArcExpanded_Estimate(arc) == arc.size + arc.est > 0

IsArcExpanded(arc) == arc.size > 0

\* The arcs of the book by position, and the order of the story over them.
Arcs(vols) == UNION {{<<v, a>> : a \in DOMAIN vols[v].arcs} : v \in DOMAIN vols}

ArcAt(vols, x) == vols[x[1]].arcs[x[2]]

StoryBefore(x, y) == x[1] < y[1] \/ (x[1] = y[1] /\ x[2] < y[2])

\* The detailed chapters of some arcs, each as its arc and its place there.
Detailed(vols, A) == UNION {{x} \X (1..ArcAt(vols, x).size) : x \in A}

ChapterCount(vols, A) == Cardinality(Detailed(vols, A))

\* flattenOutline: only its length matters to the program.
FlattenedLength(vols) == ChapterCount(vols, Arcs(vols))

\* The same with what the skeletons expect.
Expected(arc) == IF IsArcExpanded(arc) THEN arc.size ELSE arc.est

EstimatedChapterCapacity(vols) ==
  Cardinality(UNION {{x} \X (1..Expected(ArcAt(vols, x))) : x \in Arcs(vols)})

\* An index that is missing or not positive becomes the position.
RepairedIndex(index, position) == IF index > 0 THEN index ELSE position

RepairedArc(arc, position) == [arc EXCEPT !.index = RepairedIndex(@, position)]

RepairedVolume(volume, position) ==
  [volume EXCEPT !.index = RepairedIndex(@, position),
                 !.arcs = [a \in DOMAIN @ |-> RepairedArc(@[a], a)]]

RepairMissingLayeredIndexes(vols) == [v \in DOMAIN vols |-> RepairedVolume(vols[v], v)]

NumberArc(arc, index) == [arc EXCEPT !.index = index]

NumberVolume(volume, index) ==
  [volume EXCEPT !.index = index, !.arcs = [a \in DOMAIN @ |-> NumberArc(@[a], a)]]

-----------------------------------------------------------------------------
(* Where an arc begins and ends in the numbering of the book. *)

StartChapter(vols, x) == 1 + ChapterCount(vols, {y \in Arcs(vols) : StoryBefore(y, x)})

EndChapter(vols, x) == StartChapter(vols, x) + ArcAt(vols, x).size - 1

EndsVolume(vols, x) == x[2] = Len(vols[x[1]].arcs)

\* Slip: the search stops at the end of the volume.
FollowingArc_SameVolume(vols, x) ==
  {y \in Arcs(vols) : y[1] = x[1] /\ y[2] = x[2] + 1}

\* The arc that directly follows x, as a set of at most one position.
FollowingArc(vols, x) ==
  {y \in Arcs(vols) : /\ StoryBefore(x, y)
                      /\ \A z \in Arcs(vols) : StoryBefore(x, z) => ~StoryBefore(z, y)}

Boundary(vols, x) ==
  [ isArcEnd |-> TRUE, isVolumeEnd |-> EndsVolume(vols, x),
    volume |-> vols[x[1]].index, arc |-> ArcAt(vols, x).index,
    startChapter |-> StartChapter(vols, x), endChapter |-> EndChapter(vols, x),
    nextVolume |-> 0, nextArc |-> 0, needsExpansion |-> FALSE, needsNewVolume |-> FALSE ]

NoBoundary ==
  [ isArcEnd |-> FALSE, isVolumeEnd |-> FALSE, volume |-> 0, arc |-> 0,
    startChapter |-> 0, endChapter |-> 0,
    nextVolume |-> 0, nextArc |-> 0, needsExpansion |-> FALSE, needsNewVolume |-> FALSE ]

\* checkArcBoundary.  NoBoundary stands for null; every caller treats null
\* and a boundary that is not an arc end alike, so both have isArcEnd FALSE.
CheckArcBoundary(vols, chapter) ==
  LET ending == {x \in Arcs(vols) : IsArcExpanded(ArcAt(vols, x))
                                    /\ EndChapter(vols, x) = chapter}
  IN  IF ending = {} THEN NoBoundary
      ELSE LET x     == CHOOSE y \in ending : TRUE
               after == FollowingArc(vols, x)
           IN  IF after = {}
               THEN [Boundary(vols, x) EXCEPT !.needsNewVolume = EndsVolume(vols, x)]
               ELSE LET y == CHOOSE z \in after : TRUE
                    IN  [Boundary(vols, x) EXCEPT
                           !.nextVolume = vols[y[1]].index,
                           !.nextArc = ArcAt(vols, y).index,
                           !.needsExpansion = ~IsArcExpanded(ArcAt(vols, y))]

\* completedArcBoundaries: the expanded arcs, in story order, that are written
\* to their end.
CompletedArcs(vols, lastCompleted) ==
  {x \in Arcs(vols) : IsArcExpanded(ArcAt(vols, x)) /\ EndChapter(vols, x) <= lastCompleted}

-----------------------------------------------------------------------------
(* The two operations that grow the outline.  Each returns [ok, vols]. *)

Refused(vols) == [ok |-> FALSE, vols |-> vols]

\* findArc looks an arc up by its *indexes* and takes the first that matches.
FindArc(vols, volume, arc) ==
  {x \in Arcs(vols) :
     /\ vols[x[1]].index = volume /\ ArcAt(vols, x).index = arc
     /\ \A y \in Arcs(vols) :
          vols[y[1]].index = volume /\ ArcAt(vols, y).index = arc => ~StoryBefore(y, x)}

\* Slip: an arc that has chapters can be replaced.
Replaceable_Any(arc) == TRUE

Replaceable(arc) == ~IsArcExpanded(arc)

\* An arc already expanded with the same content is a retry: nothing changes.
ExpandArcAt(given, lastCompleted, size, plan) ==
  LET vols     == RepairMissingLayeredIndexes(given)
      boundary == CheckArcBoundary(vols, lastCompleted)
      located  == FindArc(vols, boundary.nextVolume, boundary.nextArc)
  IN  IF size = 0 \/ ~boundary.isArcEnd \/ boundary.nextArc <= 0 \/ located = {}
      THEN Refused(vols)
      ELSE LET x == CHOOSE y \in located : TRUE
           IN  IF ~Replaceable(ArcAt(vols, x))
               THEN [ok |-> ArcAt(vols, x).size = size /\ ArcAt(vols, x).plan = plan,
                     vols |-> vols]
               ELSE [ok |-> TRUE,
                     vols |-> [vols EXCEPT ![x[1]].arcs[x[2]] =
                                 [ArcAt(vols, x) EXCEPT !.size = size, !.est = 0, !.plan = plan]]]

\* Slip: the new number makes every incoming volume a different one.
SameVolumePlan_Index(left, right) == left = right

SameVolumePlan(left, right) == NumberVolume(left, 1) = NumberVolume(right, 1)

\* Appending the volume that is already last is a retry: nothing changes.
AppendVolumePlan(given, incoming) ==
  LET vols     == RepairMissingLayeredIndexes(given)
      numbered == NumberVolume(incoming, IF vols = <<>> THEN 1 ELSE Last(vols).index + 1)
  IN  IF incoming.arcs = <<>> \/ ~IsArcExpanded(incoming.arcs[1])
      THEN Refused(vols)
      ELSE [ok |-> TRUE,
            vols |-> IF vols # <<>> /\ SameVolumePlan(Last(vols), numbered)
                     THEN vols ELSE Append(vols, numbered)]
=============================================================================
