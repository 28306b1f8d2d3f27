----------------------------- MODULE LocalFiles -----------------------------
(***************************************************************************)
(* verify_local_file, quarantine and run_deduplicate on the stored files   *)
(* and their rows in local_files.  Two processes verify: acquire, the file *)
(* it has just recorded or, when an exception had put its job back in the  *)
(* queue, the one it finds already stored; and the command `verify`, which *)
(* works on rows it selected when it started and ends with the             *)
(* deduplication.  Looking at a file, moving it, committing the outcome    *)
(* and logging it are separate steps, so the two can meet on one file, and *)
(* a death or an exception can come between.                               *)
(***************************************************************************)
EXTENDS Integers, FiniteSetsExt

CONSTANTS
    Files,    \* resource ids: numbers, in the order of the file ids
    Contents, \* what a file may hold
    Length,   \* size of each content
    Expected, \* expected_bytes of the job of each file; NoSize is NULL
    Suspect,  \* contents a check may reject: executable, archive, Defender
    Rots,     \* what a stored content may turn into on the disk
    Crashes   \* may a process die, or a step of it raise?

Nothing == "nothing"   \* no file, or no hash
NoFile  == 0           \* no link
NoSize  == -1

ASSUME LocalFilesAssumption ==
    /\ Files \subseteq Nat \ {NoFile}
    /\ IsFiniteSet(Files)
    /\ Nothing \notin Contents
    /\ Expected \in [Files -> Int]
    /\ \A f \in Files : Expected[f] >= NoSize
    /\ Length \in [Contents -> Nat]
    /\ Suspect \subseteq Contents
    /\ Rots \subseteq Contents \X Contents
    /\ Crashes \in BOOLEAN

Procs  == {"acquire", "verify"}
Points == {"idle", "next", "look", "commit", "move", "record", "event", "dedupe"}

VARIABLES
    originals,  \* the files under originals/
    aside,      \* the files under quarantine/
    status,     \* resources.status; "absent" is any before the download
    row,        \* "none", "good", or "bad": with a quarantine_reason
    sha,        \* sha256 of the row
    link,       \* duplicate_of_file_id of the row
    pc,         \* where each process is
    cur,        \* the file it is at
    known,      \* its precomputed_sha256 (for verify, the row's size goes with it)
    digest,     \* the hash it will commit
    todo,       \* rows and pending resources selected by verify
    noted,      \* the hash of each when it was selected
    open,       \* files whose job an exception has put back in the queue
    rehashed    \* history: files acquire found changed since their good row

store == <<originals, aside>>
cat   == <<status, row, sha, link>>
proc  == <<pc, cur, known, digest>>
run   == <<todo, noted>>
jobs  == <<open, rehashed>>
vars  == <<originals, aside, status, row, sha, link, pc, cur, known, digest,
           todo, noted, open, rehashed>>

Held == Contents \cup {Nothing}

TypeOK ==
    /\ originals \in [Files -> Held]
    /\ aside \in [Files -> Held]
    /\ status \in [Files -> {"absent", "downloaded", "verified", "quarantined", "indexed"}]
    /\ row \in [Files -> {"none", "good", "bad"}]
    /\ sha \in [Files -> Held]
    /\ link \in [Files -> Files \cup {NoFile}]
    /\ pc \in [Procs -> Points]
    /\ cur \in [Procs -> Files]
    /\ known \in [Procs -> Held]
    /\ digest \in [Procs -> Held]
    /\ todo \subseteq Files
    /\ noted \in [Files -> Held]
    /\ open \subseteq Files
    /\ rehashed \subseteq Files

Init ==
    /\ originals = [f \in Files |-> Nothing]
    /\ aside = [f \in Files |-> Nothing]
    /\ status = [f \in Files |-> "absent"]
    /\ row = [f \in Files |-> "none"]
    /\ sha = [f \in Files |-> Nothing]
    /\ link = [f \in Files |-> NoFile]
    /\ pc = [p \in Procs |-> "idle"]
    /\ cur \in {[p \in Procs |-> f] : f \in Files}
    /\ known = [p \in Procs |-> Nothing]
    /\ digest = [p \in Procs |-> Nothing]
    /\ todo = {}
    /\ noted = [f \in Files |-> Nothing]
    /\ open = {}
    /\ rehashed = {}

Goto(p, point) == pc' = [pc EXCEPT ![p] = point]

\* Process p goes on to verify f; h is the hash it was given, if any.
LookAt(p, f, h) ==
    /\ pc' = [pc EXCEPT ![p] = "look"]
    /\ cur' = [cur EXCEPT ![p] = f]
    /\ known' = [known EXCEPT ![p] = h]
    /\ digest' = [digest EXCEPT ![p] = Nothing]

\* verify_local_file has returned or has been cut short: its locals are gone.
Leave(p, point) ==
    /\ Goto(p, point)
    /\ known' = [known EXCEPT ![p] = Nothing]
    /\ digest' = [digest EXCEPT ![p] = Nothing]

\* acquire is done, verify goes on to its next.
After(p) == IF p = "verify" THEN "next" ELSE "idle"

-----------------------------------------------------------------------------
(* What the two processes verify.                                          *)

\* acquire has renamed, hashed and recorded a download of the right length.
Store(f, c) ==
    /\ pc["acquire"] = "idle"
    /\ status[f] = "absent"
    /\ Expected[f] > 0 => Length[c] = Expected[f]
    /\ originals' = [originals EXCEPT ![f] = c]
    /\ status' = [status EXCEPT ![f] = "downloaded"]
    /\ LookAt("acquire", f, c)
    /\ UNCHANGED <<aside, row, sha, link, run, jobs>>

\* "Skip existing": the job is open and the file is there.  It is recorded
\* again and verified by what it holds now: no hash is passed on.
Recheck(f) ==
    /\ pc["acquire"] = "idle"
    /\ f \in open
    /\ originals[f] # Nothing
    /\ status' = [status EXCEPT ![f] = "downloaded"]
    /\ open' = open \ {f}
    /\ rehashed' = IF row[f] = "good" /\ sha[f] # originals[f]
                   THEN rehashed \cup {f} ELSE rehashed
    /\ LookAt("acquire", f, Nothing)
    /\ UNCHANGED <<store, row, sha, link, run>>

Pending == {f \in Files : status[f] = "downloaded" /\ row[f] = "none"}

Selectable(full) ==
    {f \in Files : row[f] = "good" /\ (full \/ status[f] \in {"downloaded", "verified"})}

Select(full) ==
    /\ pc["verify"] = "idle"
    /\ todo' = Selectable(full) \cup Pending
    /\ noted' = sha
    /\ Goto("verify", "next")
    /\ UNCHANGED <<store, cat, cur, known, digest, jobs>>

NextFile(f) ==
    /\ pc["verify"] = "next"
    /\ f \in todo
    /\ todo' = todo \ {f}
    /\ LookAt("verify", f, noted[f])
    /\ UNCHANGED <<store, cat, noted, jobs>>

EndLoop ==
    /\ pc["verify"] = "next"
    /\ todo = {}
    /\ Goto("verify", "dedupe")
    /\ UNCHANGED <<store, cat, cur, known, digest, run, jobs>>

-----------------------------------------------------------------------------
(* verify_local_file.                                                      *)

Missing(p) ==
    /\ pc[p] = "look"
    /\ originals[cur[p]] = Nothing
    /\ Leave(p, After(p))
    /\ UNCHANGED <<store, cat, cur, run, jobs>>

\* acquire compares with the job, verify with the row if there is one.
SizeOK(p) ==
    LET size == Length[originals[cur[p]]]
    IN  IF p = "acquire"
        THEN Expected[cur[p]] \in {NoSize, size}
        ELSE known[p] # Nothing => size = Length[known[p]]

Reject(p) ==
    LET c == originals[cur[p]]
    IN  /\ pc[p] = "look"
        /\ c # Nothing
        /\ SizeOK(p) => c \in Suspect
        /\ Goto(p, "move")
        /\ UNCHANGED <<store, cat, cur, known, digest, run, jobs>>

Hash(c, h)     == IF h = Nothing THEN c ELSE h

\* Defender is asked each time, so what was passed once may be rejected later.
Accept(p) ==
    LET c == originals[cur[p]]
    IN  /\ pc[p] = "look"
        /\ c # Nothing
        /\ SizeOK(p)
        /\ digest' = [digest EXCEPT ![p] = Hash(c, known[p])]
        /\ Goto(p, "commit")
        /\ UNCHANGED <<store, cat, cur, known, run, jobs>>

Twins(f, h) == {g \in Files \ {f} : row[g] = "good" /\ sha[g] = h}

LinkTo(f, g) == link' = [link EXCEPT ![f] = g]

\* The row and the status, in one session.
Commit(p) ==
    LET f == cur[p]
        h == digest[p]
    IN  /\ pc[p] = "commit"
        /\ row' = [row EXCEPT ![f] = "good"]
        /\ sha' = [sha EXCEPT ![f] = h]
        /\ \E g \in IF Twins(f, h) = {} THEN {NoFile} ELSE Twins(f, h) : LinkTo(f, g)
        /\ status' = [status EXCEPT ![f] = "verified"]
        /\ Goto(p, "event")
        /\ UNCHANGED <<store, cur, known, digest, run, jobs>>

\* quarantine: first the file ...
\* Variant: it is deleted.
DeleteFile(f) == UNCHANGED aside
MoveFile(f)   == aside' = [aside EXCEPT ![f] = originals[f]]

Move(p) ==
    LET f == cur[p]
    IN  /\ pc[p] = "move"
        /\ originals' = [originals EXCEPT ![f] = Nothing]
        /\ IF originals[f] # Nothing THEN MoveFile(f) ELSE UNCHANGED aside
        /\ Goto(p, "record")
        /\ UNCHANGED <<cat, cur, known, digest, run, jobs>>

HashAside(p)    == aside[cur[p]]

Record(p) ==
    LET f == cur[p]
    IN  /\ pc[p] = "record"
        /\ row' = [row EXCEPT ![f] = "bad"]
        /\ sha' = [sha EXCEPT ![f] = HashAside(p)]
        /\ link' = [link EXCEPT ![f] = NoFile]
        /\ status' = [status EXCEPT ![f] = "quarantined"]
        /\ Goto(p, "event")
        /\ UNCHANGED <<store, cur, known, digest, run, jobs>>

\* The event log, in a session of its own.
AddEvent(p) ==
    /\ pc[p] = "event"
    /\ Leave(p, After(p))
    /\ UNCHANGED <<store, cat, cur, run, jobs>>

\* A step of acquire raises, at the latest in the event log: _run_one puts
\* the job back.  The command verify just ends, as if it had died.
Raise ==
    /\ Crashes
    /\ pc["acquire"] # "idle"
    /\ open' = open \cup {cur["acquire"]}
    /\ Leave("acquire", "idle")
    /\ UNCHANGED <<store, cat, cur, run, rehashed>>

-----------------------------------------------------------------------------
(* run_deduplicate: in each group of good rows the first file id is the    *)
(* canonical one; every other row with the hash is linked to it.           *)
Group(h) == {f \in Files : row[f] = "good" /\ sha[f] = h}

Canonical(h) == Min(Group(h))

Deduplicate ==
    /\ pc["verify"] = "dedupe"
    /\ link' = [f \in Files |->
                   IF /\ row[f] # "none"
                      /\ sha[f] # Nothing
                      /\ Cardinality(Group(sha[f])) > 1
                      /\ f # Canonical(sha[f])
                   THEN Canonical(sha[f]) ELSE link[f]]
    /\ Goto("verify", "idle")
    /\ UNCHANGED <<store, status, row, sha, cur, known, digest, run, jobs>>

-----------------------------------------------------------------------------
(* The others.                                                             *)

Index ==
    /\ status' = [f \in Files |-> IF status[f] \in {"downloaded", "verified"}
                                  THEN "indexed" ELSE status[f]]
    /\ UNCHANGED <<store, row, sha, link, proc, run, jobs>>

\* A process dies; files and rows stay.
Die(p) ==
    /\ Crashes
    /\ pc[p] # "idle"
    /\ Leave(p, "idle")
    /\ UNCHANGED <<store, cat, cur, run, jobs>>

\* External: the disk returns something else; not while a file is verified.
Rot(f, c) ==
    /\ \A p \in Procs : pc[p] = "idle"
    /\ <<originals[f], c>> \in Rots
    /\ originals' = [originals EXCEPT ![f] = c]
    /\ UNCHANGED <<aside, cat, proc, run, jobs>>

-----------------------------------------------------------------------------
VerifyFile(p) ==
    \/ Missing(p)
    \/ Reject(p)
    \/ Accept(p)
    \/ Commit(p)
    \/ Move(p)
    \/ Record(p)
    \/ AddEvent(p)

Next ==
    \/ \E f \in Files, c \in Contents : Store(f, c) \/ Rot(f, c)
    \/ \E full \in BOOLEAN : Select(full)
    \/ \E f \in Files : NextFile(f) \/ Recheck(f)
    \/ EndLoop
    \/ \E p \in Procs : VerifyFile(p) \/ Die(p)
    \/ Raise
    \/ Deduplicate
    \/ Index

Spec == Init /\ [][Next]_vars
=============================================================================
