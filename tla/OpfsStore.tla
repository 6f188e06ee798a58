------------------------------ MODULE OpfsStore ------------------------------
(***************************************************************************)
(* Writing and removing one path of src/src/store/opfs.ts: a temporary      *)
(* file beside it is filled and renamed over it, or copied onto it where    *)
(* renaming fails or is missing.  Every access to the browser's file system *)
(* is an await; the process may die at any of them.  All writes of a path   *)
(* share the name of their temporary file.                                  *)
(*                                                                         *)
(* The file system is not part of the repository.  As the code uses it, and *)
(* as the File System Standard has it: a stream fills a buffer of its own    *)
(* that becomes the content on close; a file with an open stream is neither *)
(* renamed nor removed; a handle is a name, and what it names may be gone.   *)
(* A read is one look at `file`.                                            *)
(***************************************************************************)
EXTENDS Naturals

CONSTANTS
  Slots,      \* bound: calls in flight at once
  Contents,   \* what files may contain
  Absent,     \* there is no such file
  Empty,      \* the file has no content yet
  Overlap,    \* TRUE: a path is written or removed while another call does so
  Crashes     \* TRUE: the process may die at any moment

ASSUME ContentAssumption == Absent \notin Contents /\ Empty \notin Contents /\ Absent # Empty
ASSUME ModeAssumption == Overlap \in BOOLEAN /\ Crashes \in BOOLEAN

VARIABLES
  file,       \* the path
  tmp,        \* the temporary file beside it
  at,         \* where the call in each slot is
  data,       \* what it is to write, Absent for a removal
  seen,       \* what it has read from the temporary file
  result      \* "ok" when it resolved, "failed" when it threw

vars == <<file, tmp, at, data, seen, result>>

Files == Contents \cup {Absent, Empty}

\* Places of a write that has its temporary file to itself, then of the copy.
TempPlaces == {"handle", "stream", "write", "close", "abandon", "discard", "move", "dest", "source"}
CopyPlaces == {"destStream", "destWrite", "destClose"}

Places == TempPlaces \cup CopyPlaces \cup {"idle", "unlink", "remove"}

\* Streams that are open.
TempLocked == \E s \in Slots : at[s] \in {"write", "close", "abandon"}
FileLocked == \E s \in Slots : at[s] \in {"destWrite", "destClose"}

Init ==
  /\ file \in Contents \cup {Absent} /\ tmp \in Files
  /\ at = [s \in Slots |-> "idle"] /\ data = [s \in Slots |-> Absent]
  /\ seen = [s \in Slots |-> Absent] /\ result = [s \in Slots |-> "none"]

-----------------------------------------------------------------------------
Goes(s, place) == at' = [at EXCEPT ![s] = place] /\ UNCHANGED <<data, result>>

Ends(s, how) ==
  /\ at' = [at EXCEPT ![s] = "idle"]
  /\ result' = [result EXCEPT ![s] = how]
  /\ UNCHANGED <<data, seen>>

\* write(path, d), remove(path) if d is Absent.
Begin(s, d) ==
  /\ at[s] = "idle"
  /\ Overlap \/ \A t \in Slots : at[t] = "idle"
  /\ at' = [at EXCEPT ![s] = IF d = Absent THEN "remove" ELSE "handle"]
  /\ data' = [data EXCEPT ![s] = d]
  /\ seen' = [seen EXCEPT ![s] = Absent]
  /\ result' = [result EXCEPT ![s] = "none"]
  /\ UNCHANGED <<file, tmp>>

\* getFileHandle(tmpName, { create: true })
Handle(s) ==
  /\ at[s] = "handle"
  /\ \/ tmp' = (IF tmp = Absent THEN Empty ELSE tmp) /\ Goes(s, "stream") /\ UNCHANGED seen
     \/ UNCHANGED tmp /\ Ends(s, "failed")
  /\ UNCHANGED file

\* createWritable
Stream(s) ==
  /\ at[s] = "stream"
  /\ \/ tmp # Absent /\ Goes(s, "write") /\ UNCHANGED seen
     \/ Ends(s, "failed")
  /\ UNCHANGED <<file, tmp>>

WriteTemp(s) ==
  /\ at[s] = "write"
  /\ Goes(s, "close") \/ Goes(s, "abandon")
  /\ UNCHANGED <<file, tmp, seen>>

\* Slip: the stream keeps what an earlier write has left.
CloseTemp_Keeps(s) ==
  /\ at[s] = "close"
  /\ \/ tmp' = (IF tmp \in Contents THEN tmp ELSE data[s]) /\ Goes(s, "move")
     \/ UNCHANGED tmp /\ Goes(s, "abandon")
  /\ UNCHANGED <<file, seen>>

\* The buffer becomes the content.
CloseTemp(s) ==
  /\ at[s] = "close"
  /\ \/ tmp' = data[s] /\ Goes(s, "move")
     \/ UNCHANGED tmp /\ Goes(s, "abandon")
  /\ UNCHANGED <<file, seen>>

\* After a failure the stream is closed once more, with nothing in its buffer if
\* the failure has left it open.
Abandon(s) ==
  /\ at[s] = "abandon"
  /\ tmp' \in {tmp, Empty}
  /\ Goes(s, "discard")
  /\ UNCHANGED <<file, seen>>

Discard(s) ==
  /\ at[s] = "discard"
  /\ tmp' = (IF TempLocked THEN tmp ELSE Absent)
  /\ Ends(s, "failed")
  /\ UNCHANGED file

\* Renamed, or copied where that fails for whatever reason.
Move(s) ==
  /\ at[s] = "move"
  /\ \/ /\ tmp # Absent /\ ~TempLocked /\ ~FileLocked
        /\ file' = tmp /\ tmp' = Absent
        /\ Ends(s, "ok")
     \/ Goes(s, "dest") /\ UNCHANGED <<file, tmp, seen>>

-----------------------------------------------------------------------------
(* The copy. *)

\* getFileHandle(name, { create: true })
Dest(s) ==
  /\ at[s] = "dest"
  /\ \/ file' = (IF file = Absent THEN Empty ELSE file) /\ Goes(s, "source") /\ UNCHANGED seen
     \/ UNCHANGED file /\ Ends(s, "failed")
  /\ UNCHANGED tmp

\* tmp.getFile()
Source(s) ==
  /\ at[s] = "source"
  /\ \/ tmp # Absent /\ seen' = [seen EXCEPT ![s] = tmp] /\ Goes(s, "destStream")
     \/ Ends(s, "failed")
  /\ UNCHANGED <<file, tmp>>

DestStream(s) ==
  /\ at[s] = "destStream"
  /\ \/ file # Absent /\ Goes(s, "destWrite") /\ UNCHANGED seen
     \/ Ends(s, "failed")
  /\ UNCHANGED <<file, tmp>>

DestWrite(s) ==
  /\ at[s] = "destWrite"
  /\ (Goes(s, "destClose") /\ UNCHANGED seen) \/ Ends(s, "failed")
  /\ UNCHANGED <<file, tmp>>

DestClose(s) ==
  /\ at[s] = "destClose"
  /\ \/ file' = seen[s] /\ Goes(s, "unlink") /\ UNCHANGED seen
     \/ UNCHANGED file /\ Ends(s, "failed")
  /\ UNCHANGED tmp

\* The path is written when this fails.
Unlink(s) ==
  /\ at[s] = "unlink"
  /\ \/ tmp # Absent /\ ~TempLocked /\ tmp' = Absent /\ Ends(s, "ok")
     \/ UNCHANGED tmp /\ Ends(s, "failed")
  /\ UNCHANGED file

\* removeEntry(name); a path that is not there is no failure.
Remove(s) ==
  /\ at[s] = "remove"
  /\ \/ (FileLocked => file = Absent) /\ file' = Absent /\ Ends(s, "ok")
     \/ UNCHANGED file /\ Ends(s, "failed")
  /\ UNCHANGED tmp

Crash ==
  /\ Crashes
  /\ at' = [s \in Slots |-> "idle"]
  /\ UNCHANGED <<file, tmp, data, seen, result>>

CallStep(s) ==
  \/ Handle(s) \/ Stream(s) \/ WriteTemp(s) \/ CloseTemp(s) \/ Abandon(s) \/ Discard(s) \/ Move(s)
  \/ Dest(s) \/ Source(s) \/ DestStream(s) \/ DestWrite(s) \/ DestClose(s) \/ Unlink(s)
  \/ Remove(s)

Next == Crash \/ \E s \in Slots : CallStep(s) \/ \E d \in Contents \cup {Absent} : Begin(s, d)

Spec == Init /\ [][Next]_vars

-----------------------------------------------------------------------------
TypeOK ==
  /\ file \in Files /\ tmp \in Files
  /\ at \in [Slots -> Places]
  /\ data \in [Slots -> Contents \cup {Absent}] /\ seen \in [Slots -> Files]
  /\ \A s \in Slots : /\ at[s] \in TempPlaces \cup CopyPlaces => data[s] # Absent
                      /\ at[s] \in CopyPlaces => seen[s] # Absent
  /\ result \in [Slots -> {"none", "ok", "failed"}]

\* "A crash mid-write does not truncate the previous artifact": a file that has a
\* content is never seen empty again, whatever fails and whenever the process dies.
NeverTruncated == [][file' = Empty => file \in {Absent, Empty}]_vars

\* A path is an atomic file: its content changes by the write of a call in flight
\* and to what that call was given, and a call that resolves has written it.
Stage(s) ==
  IF at[s] = "idle" THEN "idle" ELSE IF at[s] = "unlink" THEN "written" ELSE "pending"

File == INSTANCE AtomicFile WITH value <- file, stage <- [s \in Slots |-> Stage(s)]

ImplementsFile == File!Spec
=============================================================================
