----------------------------- MODULE AtomicFile ------------------------------
(***************************************************************************)
(* What a StorePort promises of one path: a write takes effect at one       *)
(* moment between its call and its answer, or not at all when it fails or   *)
(* the process dies.  Only a file that did not exist may be seen empty      *)
(* before its first content is there.                                       *)
(***************************************************************************)
CONSTANTS Slots, Contents, Absent, Empty

VARIABLES
  value,    \* what a read of the path gets
  stage,    \* of the write in each slot: "idle", "pending" or "written"
  data,     \* its content, Absent for a removal
  result    \* its answer: "none", "ok" or "failed"

vars == <<value, stage, data, result>>

Init ==
  /\ value \in Contents \cup {Absent}
  /\ stage = [s \in Slots |-> "idle"]
  /\ data = [s \in Slots |-> Absent]
  /\ result = [s \in Slots |-> "none"]

Begin(s) ==
  /\ stage[s] = "idle"
  /\ \E d \in Contents \cup {Absent} : data' = [data EXCEPT ![s] = d]
  /\ stage' = [stage EXCEPT ![s] = "pending"]
  /\ result' = [result EXCEPT ![s] = "none"]
  /\ UNCHANGED value

\* The file comes into being without its content.
Create(s) ==
  /\ stage[s] = "pending" /\ data[s] # Absent
  /\ value = Absent /\ value' = Empty
  /\ UNCHANGED <<stage, data, result>>

Commit(s) ==
  /\ stage[s] = "pending"
  /\ value' = data[s]
  /\ stage' = [stage EXCEPT ![s] = "written"]
  /\ UNCHANGED <<data, result>>

Answers(s, how) ==
  /\ stage' = [stage EXCEPT ![s] = "idle"]
  /\ result' = [result EXCEPT ![s] = how]
  /\ UNCHANGED data

\* Only a write that has taken effect resolves.
Return(s) ==
  \/ stage[s] = "pending" /\ value' = data[s] /\ Answers(s, "ok")
  \/ stage[s] = "written" /\ UNCHANGED value /\ Answers(s, "ok")

Fail(s) == stage[s] # "idle" /\ Answers(s, "failed") /\ UNCHANGED value

Crash ==
  /\ stage' = [s \in Slots |-> "idle"]
  /\ UNCHANGED <<value, data, result>>

Next == Crash \/ \E s \in Slots : Begin(s) \/ Create(s) \/ Commit(s) \/ Return(s) \/ Fail(s)

Spec == Init /\ [][Next]_vars
=============================================================================
