--------------------------- MODULE DownloadProofs ---------------------------
(***************************************************************************)
(* Proofs about the downloader, for every set of jobs, every expected and  *)
(* remote size, every number of remote versions and every combination of   *)
(* faults.                                                                 *)
(***************************************************************************)
EXTENDS DownloadProperties, SequenceTheorems, TLAPS

LEMMA Bounds == CheckEvery \in Nat \ {0} /\ MaxVersion \in Nat \ {0}
  BY DownloadAssumption DEF DownloadAssumption

-----------------------------------------------------------------------------
(* Bodies.                                                                 *)

LEMMA JunkIsChunk == Junk \in Chunk
  BY DEF Chunk

LEMMA WholeIsBody ==
  ASSUME NEW v \in Versions
  PROVE  /\ Whole(v) \in Seq(Chunk)
         /\ Len(Whole(v)) = Size[v]
         /\ Size[v] \in Nat
<1>1. Size[v] \in Nat
  BY DownloadAssumption DEF DownloadAssumption, Versions
<1>2. \A i \in 1..Size[v] : <<v, i>> \in Chunk
  BY <1>1 DEF Chunk
<1>3. Whole(v) \in [1..Size[v] -> Chunk]
  BY <1>2 DEF Whole
<1>4. Whole(v) \in Seq(Chunk)
  BY <1>1, <1>3, SeqDef
<1>5. QED
  BY <1>1, <1>3, <1>4, LenProperties

LEMMA RestIsBody ==
  ASSUME NEW v \in Versions, NEW n \in Nat
  PROVE  SubSeq(Whole(v), n + 1, Size[v]) \in Seq(Chunk)
<1>1. /\ Size[v] \in Nat
      /\ \A i \in 1..Size[v] : Whole(v)[i] \in Chunk
  BY WholeIsBody, ElementOfSeq
<1>2. \A i \in n + 1 .. Size[v] : Whole(v)[i] \in Chunk
  BY <1>1
<1>3. QED
  BY <1>1, <1>2, SubSeqProperties

LEMMA ETagIsTag ==
  ASSUME NEW v \in Versions
  PROVE  ETag(v) \in Versions \cup {NoTag}
  BY DEF ETag

LEMMA ButLastIsBody ==
  ASSUME NEW s \in Seq(Chunk), s # <<>>
  PROVE  SubSeq(s, 1, Len(s) - 1) \in Seq(Chunk)
<1>1. Len(s) \in Nat /\ \A i \in 1 .. Len(s) : s[i] \in Chunk
  BY ElementOfSeq
<1>2. \A i \in 1 .. Len(s) - 1 : s[i] \in Chunk
  BY <1>1
<1>3. QED
  BY <1>1, <1>2, SubSeqProperties

-----------------------------------------------------------------------------
(* Type correctness: whatever the faults, the files hold chunks, the tables *)
(* legal values and since_check stays below the disk-check interval.        *)

\* since_check reaches the interval only between a chunk and its sidecar.
SinceBelow == pc # "written" => since < CheckEvery

TypeInv == TypeOK /\ SinceBelow

LEMMA TypeInit == Init => TypeInv
  BY Bounds
  DEF Init, TypeInv, SinceBelow, TypeOK, Versions, NoTag, JobStates, Statuses,
      Rows, Points, Exits

LEMMA TypeStep == TypeInv /\ [Next]_vars => TypeInv'
<1> SUFFICES ASSUME TypeInv, [Next]_vars
             PROVE  TypeInv'
  OBVIOUS
<1> USE Bounds DEF TypeInv, SinceBelow, TypeOK, JobStates, Statuses,
        Rows, Points, Tokens, Exits, disk, cat, net
<1>1. CASE Start
  BY <1>1 DEF Start, Open
<1>2. CASE StartRefused
  BY <1>2 DEF StartRefused
<1>3. CASE Finish
  BY <1>3 DEF Finish, Leave, ForgetTransfer, ExitCode, NoTag
<1>4. ASSUME NEW j \in Jobs, Prelude(j)
      PROVE  TypeInv'
  <2>1. CASE SkipNoUrl(j)
    BY <2>1 DEF SkipNoUrl, Eligible, Take, Return, ForgetTransfer, NoTag
  <2>2. CASE SkipExisting(j)
    BY <2>2 DEF SkipExisting, Eligible, Take, CompleteJob, SetJob, SetStatus
  <2>3. CASE RefuseTooLarge(j)
    BY <2>3 DEF RefuseTooLarge, Wanted, Eligible, Take, SetJob, Return,
                ForgetTransfer, NoTag
  <2>7. CASE UnreadableSidecar(j)
    BY <2>7 DEF UnreadableSidecar, Eligible, Take, SetJob, Return,
                ForgetTransfer, NoTag
  <2>8. CASE FailBefore(j)
    BY <2>8 DEF FailBefore, Eligible, Take, SetJob, Return, ForgetTransfer, NoTag
  <2>4. CASE PauseForDisk(j)
    BY <2>4 DEF PauseForDisk, PauseJob, SetJob, SetStatus, Leave,
                ForgetTransfer, NoTag
  <2>5. CASE Begin(j)
    <3>1. sidecar[j] \in Versions \cup {NoTag}
      BY <2>5 DEF Begin, Wanted
    <3>2. QED
      BY <2>5, <3>1 DEF Begin, Wanted, Eligible, Take, StoredTag, SetJob, SetStatus
  <2>6. QED
    BY <1>4, <2>1, <2>2, <2>3, <2>4, <2>5, <2>7, <2>8 DEF Prelude
<1>5. CASE Answer
  <2>1. CASE Refused
    BY <1>5, <2>1 DEF Refused, Raise, SetJob, Return, ForgetTransfer, NoTag
  <2>2. CASE Gone \/ ErrorPage
    <3>1. pc = "request" /\ FailTerminally
      BY <2>2 DEF Gone, ErrorPage, ErrorAnswer
    <3>2. QED
      BY <3>1 DEF FailTerminally, SetJob, SetStatus, Return, ForgetTransfer, NoTag
  <2>3. CASE FullBody
    <3>1. Whole(remote[cur]) \in Seq(Chunk) /\ ETag(remote[cur]) \in Versions \cup {NoTag}
      BY WholeIsBody, ETagIsTag
    <3>2. QED
      BY <2>3, <3>1 DEF FullBody, Truncate
  <2>4. CASE PartialBody
    <3>1. /\ SubSeq(Whole(remote[cur]), have + 1, Size[remote[cur]]) \in Seq(Chunk)
          /\ ETag(remote[cur]) \in Versions \cup {NoTag}
      BY RestIsBody, ETagIsTag
    <3>2. QED
      BY <2>4, <3>1 DEF PartialBody, AppendPart
  <2>5. CASE ErrorBody
    <3>1. <<Junk>> \in Seq(Chunk) /\ <<>> \in Seq(Chunk)
      BY JunkIsChunk
    <3>2. PICK b \in ErrorBodies : rest' = IF b = "text" THEN <<Junk>> ELSE <<>>
      BY <2>5 DEF ErrorBody
    <3>3. rest' \in Seq(Chunk)
      BY <3>1, <3>2
    <3>4. pc = "request" /\ Truncate /\ tag' = NoTag /\ pc' = "body"
          /\ UNCHANGED <<remote, sidecar, final, qfile, cat, cur, todo, since,
                         results, shutdown, exit>>
      BY <2>5 DEF ErrorBody, ErrorAnswer
    <3>5. QED
      BY <3>3, <3>4 DEF Truncate, NoTag
  <2>6. QED
    BY <1>5, <2>1, <2>2, <2>3, <2>4, <2>5 DEF Answer
<1>6. CASE Transfer
  <2>1. CASE WriteChunk
    <3>1. Append(part[cur], Head(rest)) \in Seq(Chunk) /\ Tail(rest) \in Seq(Chunk)
      BY <2>1, HeadTailProperties DEF WriteChunk
    <3>2. QED
      BY <2>1, <3>1 DEF WriteChunk
  <2>2. CASE WriteSidecar
    BY <2>2 DEF WriteSidecar, SinceCheck
  <2>3. CASE DiskLow
    BY <2>3 DEF DiskLow, Leave, ForgetTransfer, NoTag
  <2>4. CASE Drop
    BY <2>4 DEF Drop, Raise, SetJob, Return, ForgetTransfer, NoTag
  <2>5. CASE Interrupt
    BY <2>5 DEF Interrupt, PauseJob, SetJob, SetStatus, Return, ForgetTransfer, NoTag
  <2>6. QED
    BY <1>6, <2>1, <2>2, <2>3, <2>4, <2>5 DEF Transfer
<1>7. CASE Conclude
  <2>1. CASE EmptyBody
    BY <2>1 DEF EmptyBody, BodyEnds, SetJob, SetStatus
  <2>2. CASE DiscardEmpty
    BY <2>2 DEF DiscardEmpty, Return, ForgetTransfer, NoTag
  <2>3. CASE LengthMismatch
    BY <2>3 DEF LengthMismatch, Raise, SetJob, Return, ForgetTransfer, NoTag
  <2>4. CASE Finalize
    BY <2>4 DEF Finalize, BodyEnds
  <2>5. CASE DropSidecar
    BY <2>5 DEF DropSidecar, NoTag
  <2>6. CASE Record
    BY <2>6 DEF Record, CompleteJob, SetJob, SetStatus
  <2>7. QED
    BY <1>7, <2>1, <2>2, <2>3, <2>4, <2>5, <2>6 DEF Conclude
<1>8. CASE Check
  <2>1. CASE Verify
    BY <2>1 DEF Verify, SetStatus
  <2>2. CASE QuarantineMove
    BY <2>2 DEF QuarantineMove, MoveFile
  <2>3. CASE QuarantineRecord
    BY <2>3 DEF QuarantineRecord, SetStatus
  <2>7. CASE AddEvent
    BY <2>7 DEF AddEvent, Return, ForgetTransfer, NoTag
  <2>4. CASE IOError
    BY <2>4 DEF IOError, Raise, SetJob, Return, ForgetTransfer, NoTag
  <2>6. CASE IOErrorTorn
    BY <2>6 DEF IOErrorTorn, SetJob, Return, ForgetTransfer, NoTag
  <2>5. QED
    BY <1>8, <2>1, <2>2, <2>3, <2>4, <2>6, <2>7 DEF Check
<1>9. CASE Environment
  <2>1. CASE Signal
    BY <2>1 DEF Signal
  <2>2. CASE Crash
    BY <2>2 DEF Crash, Leave, ForgetTransfer, NoTag
  <2>6. CASE CrashTorn
    BY <2>6 DEF CrashTorn, Leave, ForgetTransfer, NoTag
  <2>3. CASE CrashUnflushed
    <3>1. SubSeq(part[cur], 1, Len(part[cur]) - 1) \in Seq(Chunk)
      BY <2>3, ButLastIsBody DEF CrashUnflushed
    <3>2. QED
      BY <2>3, <3>1 DEF CrashUnflushed, Leave, ForgetTransfer, NoTag
  <2>4. ASSUME NEW j \in Jobs, RemoteChange(j)
        PROVE  TypeInv'
    BY <2>4 DEF RemoteChange, Versions
  <2>5. QED
    BY <1>9, <2>1, <2>2, <2>3, <2>4, <2>6 DEF Environment
<1>10. CASE UNCHANGED vars
  BY <1>10 DEF vars
<1>11. QED
  BY <1>1, <1>2, <1>3, <1>4, <1>5, <1>6, <1>7, <1>8, <1>9, <1>10 DEF Next, Work

(* Every reachable state of the downloader is well typed. *)
THEOREM TypeCorrect == Spec => []TypeOK
<1>1. TypeInv => TypeOK
  BY DEF TypeInv
<1>2. QED
  BY <1>1, TypeInit, TypeStep, PTL DEF Spec

-----------------------------------------------------------------------------
(* Safety.  StepInv is inductive together with the types.                   *)

LEMMA StepInit == Init => StepInv
  BY DEF Init, StepInv, CompleteIsStored, StoredIsSized, CounterIsPartSize,
         FailedHoldsNothing, CatalogueMatchesDisk, AtPoint, TodoIsOpen, Open

LEMMA StepStep == TypeOK /\ StepInv /\ [Next]_vars => StepInv'
<1> SUFFICES ASSUME TypeOK, StepInv, [Next]_vars
             PROVE  StepInv'
  OBVIOUS
<1> USE DEF StepInv, CompleteIsStored, StoredIsSized, CounterIsPartSize,
        FailedHoldsNothing, CatalogueMatchesDisk, AtPoint, TodoIsOpen,
        TypeOK, disk, cat, net, Sized
<1>1. CASE Start
  BY <1>1 DEF Start
<1>2. CASE StartRefused
  BY <1>2 DEF StartRefused
<1>3. CASE Finish
  BY <1>3 DEF Finish, Leave, ForgetTransfer
<1>4. ASSUME NEW j \in Jobs, Prelude(j)
      PROVE  StepInv'
  <2>1. CASE SkipNoUrl(j)
    BY <2>1 DEF SkipNoUrl, Eligible, Take, Return, ForgetTransfer
  <2>2. CASE SkipExisting(j)
    <3>1. /\ job[j] \in Open /\ final[j] # <<>>
          /\ pc' = "recorded" /\ cur' = j /\ todo' = todo \ {j}
          /\ job' = [job EXCEPT ![j] = "complete"]
          /\ status' = [status EXCEPT ![j] = "downloaded"]
          /\ UNCHANGED <<disk, row>>
      BY <2>2 DEF SkipExisting, Eligible, Take, CompleteJob, SetJob, SetStatus, Open
    <3>2. CompleteIsStored' /\ StoredIsSized' /\ CounterIsPartSize'
      BY <3>1
    <3>3. FailedHoldsNothing' /\ CatalogueMatchesDisk'
      BY <3>1
    <3>4. AtPoint' /\ TodoIsOpen'
      BY <3>1 DEF Open
    <3>5. QED
      BY <3>2, <3>3, <3>4
  <2>3. CASE RefuseTooLarge(j) \/ UnreadableSidecar(j)
    <3>1. /\ job[j] \in Open /\ final[j] = <<>>
          /\ pc' = "pick" /\ cur' = j /\ todo' = todo \ {j}
          /\ \E k \in {"terminal", "retryable"} : job' = [job EXCEPT ![j] = k]
          /\ UNCHANGED <<disk, status, row>>
      BY <2>3 DEF RefuseTooLarge, UnreadableSidecar, Wanted, Eligible, Take,
                  SetJob, Return, Open
    <3>2. CompleteIsStored' /\ StoredIsSized' /\ CounterIsPartSize'
      BY <3>1
    <3>3. FailedHoldsNothing' /\ CatalogueMatchesDisk'
      BY <3>1 DEF Open
    <3>4. AtPoint' /\ TodoIsOpen'
      BY <3>1 DEF Open
    <3>5. QED
      BY <3>2, <3>3, <3>4
  <2>4. CASE PauseForDisk(j)
    BY <2>4 DEF PauseForDisk, Wanted, Eligible, PauseJob, SetJob, SetStatus,
                Leave, ForgetTransfer, Open
  <2>5. CASE Begin(j)
    BY <2>5 DEF Begin, Wanted, Eligible, Take, SetJob, SetStatus, Open
  <2>6. CASE FailBefore(j)
    <3>1. /\ job[j] \in Open
          /\ pc' = "pick" /\ cur' = j /\ todo' = todo \ {j}
          /\ job' = [job EXCEPT ![j] = "retryable"]
          /\ UNCHANGED <<disk, status, row>>
      BY <2>6 DEF FailBefore, Eligible, Take, SetJob, Return, Open
    <3>2. QED
      BY <3>1 DEF Open
  <2>7. QED
    BY <1>4, <2>1, <2>2, <2>3, <2>4, <2>5, <2>6 DEF Prelude
<1>5. CASE Answer
  <2>1. CASE Refused
    BY <2>1 DEF Refused, Raise, SetJob, Return, ForgetTransfer, Open
  <2>2. CASE Gone \/ ErrorPage
    <3>1. pc = "request" /\ FailTerminally
      BY <2>2 DEF Gone, ErrorPage, ErrorAnswer
    <3>2. QED
      BY <3>1 DEF FailTerminally, SetJob, SetStatus, Return, ForgetTransfer
  <2>3. CASE FullBody \/ ErrorBody
    <3>1. /\ pc = "request" /\ Truncate /\ pc' = "body"
          /\ UNCHANGED <<final, qfile, cat, cur, todo>>
      BY <2>3 DEF FullBody, ErrorBody, ErrorAnswer
    <3>2. QED
      BY <3>1 DEF Truncate
  <2>4. CASE PartialBody
    BY <2>4 DEF PartialBody, AppendPart
  <2>5. QED
    BY <1>5, <2>1, <2>2, <2>3, <2>4 DEF Answer
<1>6. CASE Transfer
  <2>1. CASE WriteChunk
    <3>1. Head(rest) \in Chunk
      BY <2>1, HeadTailProperties DEF WriteChunk
    <3>2. Len(Append(part[cur], Head(rest))) = Len(part[cur]) + 1
      BY <3>1
    <3>3. QED
      BY <2>1, <3>2 DEF WriteChunk
  <2>2. CASE WriteSidecar
    BY <2>2 DEF WriteSidecar
  <2>3. CASE DiskLow
    BY <2>3 DEF DiskLow, Leave, ForgetTransfer
  <2>4. CASE Drop
    BY <2>4 DEF Drop, Raise, SetJob, Return, ForgetTransfer
  <2>5. CASE Interrupt
    BY <2>5 DEF Interrupt, PauseJob, SetJob, SetStatus, Return, ForgetTransfer
  <2>6. QED
    BY <1>6, <2>1, <2>2, <2>3, <2>4, <2>5 DEF Transfer
<1>7. CASE Conclude
  <2>1. CASE EmptyBody
    <3>1. Len(part[cur]) = 0
      BY <2>1 DEF EmptyBody, BodyEnds
    <3>2. part[cur] = <<>>
      BY <3>1, EmptySeq
    <3>3. QED
      BY <2>1, <3>2 DEF EmptyBody, BodyEnds, SetJob, SetStatus
  <2>2. CASE DiscardEmpty
    BY <2>2 DEF DiscardEmpty, Return, ForgetTransfer
  <2>3. CASE LengthMismatch
    BY <2>3 DEF LengthMismatch, BodyEnds, Raise, SetJob, Return, ForgetTransfer
  <2>4. CASE Finalize
    <3>1. part[cur] # <<>>
      BY <2>4 DEF Finalize, BodyEnds
    <3>2. QED
      BY <2>4, <3>1 DEF Finalize, BodyEnds, LengthOK
  <2>5. CASE DropSidecar
    BY <2>5 DEF DropSidecar
  <2>6. CASE Record
    BY <2>6 DEF Record, CompleteJob, SetJob, SetStatus
  <2>7. QED
    BY <1>7, <2>1, <2>2, <2>3, <2>4, <2>5, <2>6 DEF Conclude
<1>8. CASE Check
  <2>1. CASE Verify
    BY <2>1 DEF Verify, SetStatus
  <2>2. CASE QuarantineMove
    BY <2>2 DEF QuarantineMove, MoveFile
  <2>3. CASE QuarantineRecord
    BY <2>3 DEF QuarantineRecord, SetStatus
  <2>4. CASE IOError \/ IOErrorTorn
    <3>1. /\ pc # "idle" /\ pc # "pick" /\ pc' = "pick"
          /\ job' = [job EXCEPT ![cur] = "retryable"]
          /\ UNCHANGED <<part, final, qfile, status, row, cur, todo>>
      BY <2>4 DEF IOError, IOErrorTorn, Raise, SetJob, Return
    <3>2. QED
      BY <3>1 DEF Open
  <2>5. CASE AddEvent
    BY <2>5 DEF AddEvent, Return, ForgetTransfer
  <2>6. QED
    BY <1>8, <2>1, <2>2, <2>3, <2>4, <2>5 DEF Check
<1>9. CASE Environment
  <2>1. CASE Signal
    BY <2>1 DEF Signal
  <2>2. CASE Crash \/ CrashTorn
    BY <2>2 DEF Crash, CrashTorn, Leave, ForgetTransfer
  <2>3. CASE CrashUnflushed
    BY <2>3 DEF CrashUnflushed, Leave, ForgetTransfer
  <2>4. ASSUME NEW j \in Jobs, RemoteChange(j)
        PROVE  StepInv'
    BY <2>4 DEF RemoteChange
  <2>5. QED
    BY <1>9, <2>1, <2>2, <2>3, <2>4 DEF Environment
<1>10. CASE UNCHANGED vars
  BY <1>10 DEF vars
<1>11. QED
  BY <1>1, <1>2, <1>3, <1>4, <1>5, <1>6, <1>7, <1>8, <1>9, <1>10 DEF Next, Work

(* The facts about every point of the process hold in every state. *)
THEOREM StepInvariant == Spec => []StepInv
<1>1. Spec => []TypeOK
  BY TypeCorrect
<1>2. QED
  BY <1>1, StepInit, StepStep, PTL DEF Spec

(* A complete job has its file stored or in quarantine, through every crash *)
(* between the rename, the two commits and the quarantine move.             *)
THEOREM CompleteIsAlwaysStored == Spec => []CompleteIsStored
<1>1. StepInv => CompleteIsStored
  BY DEF StepInv
<1>2. QED
  BY <1>1, StepInvariant, PTL

(* No original has a length other than the expected one. *)
THEOREM StoredIsAlwaysSized == Spec => []StoredIsSized
<1>1. StepInv => StoredIsSized
  BY DEF StepInv
<1>2. QED
  BY <1>1, StepInvariant, PTL

(* bytes_have never drifts from the size of the .part being written. *)
THEOREM CounterIsAlwaysPartSize == Spec => []CounterIsPartSize
<1>1. StepInv => CounterIsPartSize
  BY DEF StepInv
<1>2. QED
  BY <1>1, StepInvariant, PTL

(* No job is given up for good over a stored original. *)
THEOREM FailedNeverHolds == Spec => []FailedHoldsNothing
<1>1. StepInv => FailedHoldsNothing
  BY DEF StepInv
<1>2. QED
  BY <1>1, StepInvariant, PTL

(* The catalogue never claims more than the disk holds. *)
THEOREM CatalogueAlwaysMatchesDisk == Spec => []CatalogueMatchesDisk
<1>1. StepInv => CatalogueMatchesDisk
  BY DEF StepInv
<1>2. QED
  BY <1>1, StepInvariant, PTL

-----------------------------------------------------------------------------
(* Pausing.  An exception before the request reopens a paused job without   *)
(* its resource; the next run takes it up, so RefuseTooLarge, which leaves  *)
(* the resource alone too, must never meet it.                              *)

LEMMA PauseStep == TypeOK /\ StepInv /\ PauseInv /\ [Next]_vars => PauseInv'
<1> SUFFICES ASSUME TypeOK, StepInv, PauseInv, [Next]_vars
             PROVE  PauseInv'
  OBVIOUS
<1> USE DEF PauseInv, PausedIsResumed, TypeOK, StepInv, AtPoint, disk, cat, net,
        SetJob, SetStatus
<1>1. CASE Start \/ StartRefused \/ Finish \/ UNCHANGED vars
  BY <1>1 DEF Start, StartRefused, Finish, Leave, vars
<1>2. ASSUME NEW j \in Jobs, Prelude(j)
      PROVE  PauseInv'
  <2>1. CASE SkipNoUrl(j)
    BY <2>1 DEF SkipNoUrl, Return
  <2>2. CASE SkipExisting(j)
    BY <2>2 DEF SkipExisting, CompleteJob, Take
  <2>3. CASE RefuseTooLarge(j)
    <3>1. Expected[j] \in Int /\ MaxFile \in Int
      BY DownloadAssumption DEF DownloadAssumption
    <3>2. status[j] # "paused"
      BY <2>3, <3>1 DEF RefuseTooLarge
    <3>3. /\ job' = [job EXCEPT ![j] = "terminal"] /\ pc' = "pick"
          /\ UNCHANGED status
      BY <2>3 DEF RefuseTooLarge, Return
    <3>4. QED
      BY <2>3, <3>2, <3>3 DEF RefuseTooLarge
  <2>4. CASE PauseForDisk(j)
    BY <2>4 DEF PauseForDisk, Wanted, PauseJob, Leave
  <2>5. CASE Begin(j)
    BY <2>5 DEF Begin, Wanted, Take
  <2>6. CASE UnreadableSidecar(j) \/ FailBefore(j)
    BY <2>6 DEF UnreadableSidecar, FailBefore, Return
  <2>7. QED
    BY <1>2, <2>1, <2>2, <2>3, <2>4, <2>5, <2>6 DEF Prelude
<1>3. ASSUME pc \notin {"idle", "pick"}, Raise
      PROVE  PauseInv'
  BY <1>3 DEF Raise, Return
<1>4. CASE Answer
  <2>1. CASE Refused
    BY <2>1, <1>3 DEF Refused
  <2>2. CASE Gone \/ ErrorPage
    <3>1. FailTerminally /\ pc = "request"
      BY <2>2 DEF Gone, ErrorPage, ErrorAnswer
    <3>2. QED
      BY <3>1 DEF FailTerminally, Return
  <2>3. CASE FullBody \/ PartialBody \/ ErrorBody
    <3>1. pc = "request" /\ UNCHANGED <<sidecar, cat, cur>>
      BY <2>3 DEF FullBody, PartialBody, ErrorBody, ErrorAnswer
    <3>2. QED
      BY <3>1
  <2>4. QED
    BY <1>4, <2>1, <2>2, <2>3 DEF Answer
<1>5. CASE Transfer
  <2>1. CASE WriteChunk \/ WriteSidecar \/ DiskLow
    BY <2>1 DEF WriteChunk, WriteSidecar, DiskLow, Leave
  <2>2. CASE Drop
    BY <2>2, <1>3 DEF Drop
  <2>3. CASE Interrupt
    BY <2>3 DEF Interrupt, PauseJob, Return
  <2>4. QED
    BY <1>5, <2>1, <2>2, <2>3 DEF Transfer
<1>6. CASE Conclude
  <2>1. CASE EmptyBody
    BY <2>1 DEF EmptyBody, BodyEnds
  <2>2. CASE LengthMismatch
    BY <2>2, <1>3 DEF LengthMismatch, BodyEnds
  <2>3. CASE DiscardEmpty \/ Finalize \/ DropSidecar
    BY <2>3 DEF DiscardEmpty, Finalize, BodyEnds, DropSidecar, Return
  <2>4. CASE Record
    BY <2>4 DEF Record, CompleteJob
  <2>5. QED
    BY <1>6, <2>1, <2>2, <2>3, <2>4 DEF Conclude
<1>7. CASE Check
  <2>1. CASE Verify
    BY <2>1 DEF Verify
  <2>2. CASE QuarantineMove
    BY <2>2 DEF QuarantineMove
  <2>3. CASE QuarantineRecord
    BY <2>3 DEF QuarantineRecord
  <2>4. CASE IOError
    BY <2>4, <1>3 DEF IOError
  <2>5. CASE IOErrorTorn \/ AddEvent
    BY <2>5 DEF IOErrorTorn, AddEvent, Return
  <2>6. QED
    BY <1>7, <2>1, <2>2, <2>3, <2>4, <2>5 DEF Check
<1>8. CASE Environment
  BY <1>8 DEF Environment, Signal, Crash, CrashUnflushed, CrashTorn,
              RemoteChange, Leave
<1>9. QED
  BY <1>1, <1>2, <1>4, <1>5, <1>6, <1>7, <1>8 DEF Next, Work

(* No pause is ever forgotten, whatever fails before the next request.      *)
THEOREM PausedIsAlwaysResumed == Spec => []PausedIsResumed
<1>1. Init => PauseInv
  BY DEF Init, PauseInv, PausedIsResumed
<1>2. PauseInv => PausedIsResumed
  BY DEF PauseInv
<1>3. QED
  BY <1>1, <1>2, PauseStep, TypeCorrect, StepInvariant, PTL DEF Spec

-----------------------------------------------------------------------------
(* What a step may never do.                                               *)

\* Where a stored file can change at all.
LEMMA FinalMoves ==
  ASSUME TypeOK, StepInv, [Next]_vars
  PROVE  \/ UNCHANGED final
         \/ final[cur] = <<>> /\ \E s : final' = [final EXCEPT ![cur] = s]
         \/ MoveFile
<1> USE DEF disk
<1>1. CASE Start \/ StartRefused \/ Finish \/ UNCHANGED vars
  BY <1>1 DEF Start, StartRefused, Finish, vars
<1>2. ASSUME NEW j \in Jobs, Prelude(j)
      PROVE  UNCHANGED final
  BY <1>2 DEF Prelude, SkipNoUrl, SkipExisting, FailBefore, UnreadableSidecar,
              RefuseTooLarge, PauseForDisk, Begin
<1>3. CASE Answer
  BY <1>3 DEF Answer, Refused, Raise, Gone, FailTerminally, FullBody, PartialBody,
              ErrorPage, ErrorBody
<1>4. CASE Transfer
  BY <1>4 DEF Transfer, WriteChunk, WriteSidecar, DiskLow, Drop, Raise, Interrupt
<1>5. CASE Conclude
  BY <1>5 DEF Conclude, EmptyBody, DiscardEmpty, LengthMismatch, Raise, Finalize,
              DropSidecar, Record
<1>6. CASE Check
  BY <1>6 DEF Check, Verify, QuarantineMove, QuarantineRecord, AddEvent, IOError,
              IOErrorTorn, Raise
<1>7. CASE Environment
  BY <1>7 DEF Environment, Signal, Crash, CrashUnflushed, CrashTorn, RemoteChange
<1>8. QED
  BY <1>1, <1>2, <1>3, <1>4, <1>5, <1>6, <1>7 DEF Next, Work

(* No download, resume, retry or recovery overwrites or loses an original. *)
THEOREM OriginalsAreKept == Spec => NeverOverwritten
<1>1. TypeOK /\ StepInv /\ [Next]_vars =>
        [\A j \in Jobs :
            final[j] # <<>> /\ final'[j] # final[j] =>
                final'[j] = <<>> /\ qfile'[j] = final[j]]_vars
  <2> SUFFICES ASSUME TypeOK, StepInv, [Next]_vars,
                      NEW j \in Jobs, final[j] # <<>>, final'[j] # final[j]
               PROVE  final'[j] = <<>> /\ qfile'[j] = final[j]
    OBVIOUS
  <2>1. CASE UNCHANGED final
    BY <2>1
  <2>2. CASE final[cur] = <<>> /\ \E s : final' = [final EXCEPT ![cur] = s]
    BY <2>2 DEF TypeOK
  <2>3. CASE MoveFile
    BY <2>3 DEF MoveFile, TypeOK
  <2>4. QED
    BY <2>1, <2>2, <2>3, FinalMoves
<1>2. QED
  BY <1>1, TypeCorrect, StepInvariant, PTL DEF Spec, NeverOverwritten

\* Where a job the ledger has closed can change at all.
LEMMA ClosedMoves ==
  ASSUME TypeOK, StepInv, [Next]_vars,
         NEW j \in Jobs, job[j] \in {"complete", "terminal"}, job'[j] # job[j]
  PROVE  /\ j = cur
         /\ job'[j] = "retryable"
         /\ pc \in {"discard", "recorded", "moved", "event"}
<1> DEFINE Goal == /\ j = cur
                   /\ job'[j] = "retryable"
                   /\ pc \in {"discard", "recorded", "moved", "event"}
<1> USE DEF TypeOK, StepInv, AtPoint, TodoIsOpen, Open, cat, SetJob
<1>1. CASE Start \/ StartRefused \/ Finish \/ UNCHANGED vars
  BY <1>1 DEF Start, StartRefused, Finish, vars
<1>2. ASSUME NEW k \in Jobs, Prelude(k)
      PROVE  FALSE
  <2>1. UNCHANGED job \/ \E s : job' = [job EXCEPT ![k] = s]
    BY <1>2 DEF Prelude, SkipNoUrl, SkipExisting, FailBefore, UnreadableSidecar,
                RefuseTooLarge, PauseForDisk, Begin, CompleteJob, PauseJob
  <2>2. k \in todo
    BY <1>2 DEF Prelude, SkipNoUrl, SkipExisting, FailBefore, UnreadableSidecar,
                RefuseTooLarge, PauseForDisk, Begin, Wanted, Eligible
  <2>3. QED
    BY <2>1, <2>2
<1>3. ASSUME Raise, pc # "idle", pc # "pick"
      PROVE  Goal
  <2>1. j = cur /\ job'[j] = "retryable" /\ pc \in Points
    BY <1>3 DEF Raise
  <2>2. QED
    BY <2>1, <1>3 DEF Points
<1>4. ASSUME pc \in {"request", "body"}, \E s : job' = [job EXCEPT ![cur] = s]
      PROVE  FALSE
  BY <1>4
<1>5. CASE Answer
  BY <1>5, <1>4 DEF Answer, Refused, Raise, Gone, FailTerminally, FullBody,
                    PartialBody, ErrorPage, ErrorBody, ErrorAnswer
<1>6. CASE Transfer
  BY <1>6, <1>4 DEF Transfer, WriteChunk, WriteSidecar, DiskLow, Drop, Raise,
                    Interrupt, PauseJob
<1>7. CASE Conclude
  <2>1. CASE EmptyBody \/ LengthMismatch
    BY <2>1, <1>4 DEF EmptyBody, LengthMismatch, BodyEnds, Raise
  <2>2. CASE DiscardEmpty \/ Finalize \/ DropSidecar
    BY <2>2 DEF DiscardEmpty, Finalize, DropSidecar
  <2>3. CASE Record
    BY <2>3 DEF Record, CompleteJob
  <2>4. QED
    BY <1>7, <2>1, <2>2, <2>3 DEF Conclude
<1>8. CASE Check
  <2>1. CASE Verify \/ QuarantineMove \/ QuarantineRecord \/ AddEvent
    BY <2>1 DEF Verify, QuarantineMove, QuarantineRecord, AddEvent
  <2>2. CASE IOError
    BY <2>2, <1>3 DEF IOError
  <2>3. CASE IOErrorTorn
    BY <2>3 DEF IOErrorTorn
  <2>4. QED
    BY <1>8, <2>1, <2>2, <2>3 DEF Check
<1>9. CASE Environment
  BY <1>9 DEF Environment, Signal, Crash, CrashUnflushed, CrashTorn, RemoteChange
<1>10. QED
  BY <1>1, <1>2, <1>5, <1>6, <1>7, <1>8, <1>9 DEF Next, Work

(* Only an exception of the run that closed a job reopens it.               *)
THEOREM ClosedJobsStayClosed == Spec => ClosedStaysClosed
<1>1. TypeOK /\ StepInv /\ [Next]_vars =>
        [\A j \in Jobs :
            job[j] \in {"complete", "terminal"} /\ job'[j] # job[j] =>
                /\ j = cur
                /\ job'[j] = "retryable"
                /\ pc \in {"discard", "recorded", "moved", "event"}]_vars
  BY ClosedMoves
<1>2. QED
  BY <1>1, TypeCorrect, StepInvariant, PTL DEF Spec, ClosedStaysClosed

-----------------------------------------------------------------------------
\* How a step of the downloader can change a job and its resource.
LEMMA JobMoves ==
  ASSUME TypeOK, StepInv, [Next]_vars,
         NEW j \in Jobs, <<job[j], status[j]>> # <<job'[j], status'[j]>>
  PROVE  Steps!JobMove(job[j], status[j], job'[j], status'[j], Expected[j] > MaxFile)
<1> DEFINE Goal == Steps!JobMove(job[j], status[j], job'[j], status'[j],
                                 Expected[j] > MaxFile)
<1>0. /\ cur \in Jobs
      /\ \A k \in todo : job[k] \in Steps!OpenJob
      /\ pc \in {"request", "body", "written", "renamed", "hashed"} => job[cur] = "active"
      /\ pc \in {"recorded", "moved"} => job[cur] = "complete"
  BY DEF TypeOK, StepInv, AtPoint, TodoIsOpen, Open, Steps!OpenJob
<1>1. ASSUME UNCHANGED <<job, status>> PROVE FALSE
  BY <1>1
<1>2. ASSUME Raise PROVE Goal
  BY <1>0, <1>2 DEF TypeOK, Raise, SetJob, Steps!JobMove, Steps!OpenJob
<1>3. ASSUME FailTerminally, pc = "request" PROVE Goal
  BY <1>0, <1>3
  DEF TypeOK, FailTerminally, SetJob, SetStatus, Steps!JobMove, Steps!OpenJob
<1>4. ASSUME NEW k \in Jobs, Prelude(k) PROVE Goal
  <2>1. k \in todo /\ job[k] \in Steps!OpenJob
    BY <1>0, <1>4 DEF Prelude, SkipNoUrl, SkipExisting, UnreadableSidecar,
                RefuseTooLarge, PauseForDisk, Begin, FailBefore, Wanted, Eligible
  <2>2. CASE SkipNoUrl(k)
    BY <1>1, <2>2 DEF SkipNoUrl, cat
  <2>3. CASE SkipExisting(k)
    BY <2>1, <2>3
    DEF TypeOK, SkipExisting, CompleteJob, SetJob, SetStatus, Steps!JobMove, Steps!OpenJob
  <2>4. CASE UnreadableSidecar(k) \/ FailBefore(k)
    BY <2>4 DEF TypeOK, UnreadableSidecar, FailBefore, SetJob, Steps!JobMove,
                Steps!OpenJob
  <2>5. CASE RefuseTooLarge(k)
    BY <2>1, <2>5 DEF TypeOK, RefuseTooLarge, SetJob, Steps!JobMove, Steps!OpenJob
  <2>6. CASE PauseForDisk(k)
    BY <2>1, <2>6
    DEF TypeOK, PauseForDisk, PauseJob, SetJob, SetStatus, Steps!JobMove, Steps!OpenJob
  <2>7. CASE Begin(k)
    BY <2>1, <2>7 DEF TypeOK, Begin, SetJob, SetStatus, Steps!JobMove, Steps!OpenJob
  <2> QED
    BY <1>4, <2>2, <2>3, <2>4, <2>5, <2>6, <2>7 DEF Prelude
<1>5. CASE Answer
  BY <1>1, <1>2, <1>3, <1>5 DEF Answer, Refused, Gone, FullBody, PartialBody,
                                ErrorPage, ErrorBody, ErrorAnswer, cat
<1>6. CASE Transfer
  <2>1. CASE Interrupt
    BY <1>0, <2>1
    DEF TypeOK, Interrupt, PauseJob, SetJob, SetStatus, Steps!JobMove, Steps!OpenJob
  <2> QED
    BY <1>1, <1>2, <1>6, <2>1
    DEF Transfer, WriteChunk, WriteSidecar, DiskLow, Drop, cat
<1>7. CASE Conclude
  <2>1. CASE EmptyBody
    BY <1>0, <2>1
    DEF TypeOK, EmptyBody, BodyEnds, SetJob, SetStatus, Steps!JobMove, Steps!OpenJob
  <2>2. CASE Record
    BY <1>0, <2>2
    DEF TypeOK, Record, CompleteJob, SetJob, SetStatus, Steps!JobMove, Steps!OpenJob
  <2> QED
    BY <1>1, <1>2, <1>7, <2>1, <2>2
    DEF Conclude, DiscardEmpty, LengthMismatch, Finalize, DropSidecar, cat
<1>8. CASE Check
  <2>1. CASE Verify
    BY <1>0, <2>1 DEF TypeOK, Verify, SetStatus, Steps!JobMove, Steps!OpenJob
  <2>2. CASE QuarantineMove
    BY <1>1, <2>2 DEF QuarantineMove, cat
  <2>5. CASE AddEvent
    BY <1>1, <2>5 DEF AddEvent, cat
  <2>3. CASE QuarantineRecord
    BY <1>0, <2>3
    DEF TypeOK, QuarantineRecord, SetStatus, Steps!JobMove, Steps!OpenJob
  <2>4. CASE IOErrorTorn
    BY <1>0, <2>4 DEF TypeOK, IOErrorTorn, SetJob, Steps!JobMove, Steps!OpenJob
  <2> QED
    BY <1>2, <1>8, <2>1, <2>2, <2>3, <2>4, <2>5 DEF Check, IOError
<1>9. CASE Environment
  BY <1>1, <1>9
  DEF Environment, Signal, Crash, CrashUnflushed, CrashTorn, RemoteChange, cat
<1>10. CASE Start \/ StartRefused \/ Finish \/ UNCHANGED vars
  BY <1>1, <1>10 DEF Start, StartRefused, Finish, vars, cat
<1> QED
  BY <1>4, <1>5, <1>6, <1>7, <1>8, <1>9, <1>10 DEF Next, Work

(* The downloader makes no other moves than those Catalog relies on.        *)
THEOREM OnlyJobMovesAreMade == Spec => OnlyJobMoves
<1>1. TypeOK /\ StepInv /\ [Next]_vars =>
        [\A j \in Jobs :
            <<job[j], status[j]>> # <<job'[j], status'[j]>> =>
                Steps!JobMove(job[j], status[j], job'[j], status'[j],
                              Expected[j] > MaxFile)]_vars
  BY JobMoves
<1>2. QED
  BY <1>1, TypeCorrect, StepInvariant, PTL DEF Spec, OnlyJobMoves

-----------------------------------------------------------------------------
(* Refinement: the downloader implements Acquisition.  Every action touches *)
(* one job; what it does to that job is either invisible in Acquisition or  *)
(* one of its steps.                                                       *)

Elsewhere(c) ==
    \A j \in Jobs \ {c} :
        /\ part'[j] = part[j] /\ final'[j] = final[j] /\ qfile'[j] = qfile[j]
        /\ job'[j] = job[j] /\ row'[j] = row[j]

Invisible(c) ==
    /\ Place'[c] = Place[c]
    /\ Ledger'[c] = Ledger[c]
    /\ row'[c] = "good" <=> row[c] = "good"

LEMMA Local ==
  ASSUME NEW c \in Jobs, Elsewhere(c)
  PROVE  /\ Place' = [Place EXCEPT ![c] = Place'[c]]
         /\ Place'[c] = Place[c] => Place' = Place
         /\ Ledger' = [Ledger EXCEPT ![c] = Ledger'[c]]
         /\ Ledger'[c] = Ledger[c] => Ledger' = Ledger
         /\ row'[c] = "good" /\ row[c] # "good" => Admitted' = Admitted \cup {c}
         /\ row'[c] # "good" /\ row[c] = "good" => Admitted' = Admitted \ {c}
         /\ (row'[c] = "good" <=> row[c] = "good") => Admitted' = Admitted
<1>1. \A j \in Jobs : j # c => Place'[j] = Place[j] /\ Ledger'[j] = Ledger[j]
  BY DEF Elsewhere, Place, Ledger
<1>2. /\ Place' = [Place EXCEPT ![c] = Place'[c]]
      /\ Place'[c] = Place[c] => Place' = Place
  <2> DEFINE P == [j \in Jobs |-> Place[j]]
             Q == [j \in Jobs |-> Place'[j]]
  <2>1. Place = P /\ Place' = Q
    BY DEF Place
  <2>2. Q = [P EXCEPT ![c] = Q[c]] /\ (Q[c] = P[c] => Q = P)
    BY <1>1
  <2>3. QED
    BY <2>1, <2>2
<1>3. /\ Ledger' = [Ledger EXCEPT ![c] = Ledger'[c]]
      /\ Ledger'[c] = Ledger[c] => Ledger' = Ledger
  <2> DEFINE P == [j \in Jobs |-> Ledger[j]]
             Q == [j \in Jobs |-> Ledger'[j]]
  <2>1. Ledger = P /\ Ledger' = Q
    BY DEF Ledger
  <2>2. Q = [P EXCEPT ![c] = Q[c]] /\ (Q[c] = P[c] => Q = P)
    BY <1>1
  <2>3. QED
    BY <2>1, <2>2
<1>4. \A j \in Jobs : j # c => (j \in Admitted' <=> j \in Admitted)
  BY DEF Elsewhere, Admitted
<1>5. /\ c \in Admitted <=> row[c] = "good"
      /\ c \in Admitted' <=> row'[c] = "good"
      /\ Admitted \subseteq Jobs /\ Admitted' \subseteq Jobs
  BY DEF Admitted
<1>6. QED
  BY <1>2, <1>3, <1>4, <1>5

LEMMA InvisibleStep ==
  ASSUME NEW c \in Jobs, Elsewhere(c), Invisible(c)
  PROVE  UNCHANGED Promise!avars
<1>1. Place' = Place /\ Ledger' = Ledger
  BY Local DEF Invisible
<1>2. Admitted' = Admitted
  BY Local DEF Invisible
<1>3. QED
  BY <1>1, <1>2 DEF Promise!avars

\* The value of each mapped variable at one job.
LEMMA Mapped ==
  ASSUME NEW c \in Jobs
  PROVE  /\ Place[c] = IF final[c] # <<>> THEN "stored"
                       ELSE IF qfile[c] # <<>> THEN "aside"
                       ELSE IF part[c] # <<>> THEN "staged" ELSE "remote"
         /\ Ledger[c] = IF job[c] = "complete" THEN "done"
                        ELSE IF job[c] = "terminal" THEN "failed" ELSE "open"
         /\ c \in Admitted <=> row[c] = "good"
  BY DEF Place, Ledger, Admitted

LEMMA MappedNext ==
  ASSUME NEW c \in Jobs
  PROVE  /\ Place'[c] = IF final'[c] # <<>> THEN "stored"
                        ELSE IF qfile'[c] # <<>> THEN "aside"
                        ELSE IF part'[c] # <<>> THEN "staged" ELSE "remote"
         /\ Ledger'[c] = IF job'[c] = "complete" THEN "done"
                         ELSE IF job'[c] = "terminal" THEN "failed" ELSE "open"
  BY DEF Place, Ledger

\* Only the ledger moves: the job is closed, failed or reopened.
LEMMA LedgerStep ==
  ASSUME NEW c \in Jobs, Elsewhere(c), StepInv,
         part'[c] = part[c], final'[c] = final[c], qfile'[c] = qfile[c],
         row'[c] = row[c],
         \/ job[c] \notin {"complete", "terminal"} /\ job'[c] = "complete" /\ final[c] # <<>>
         \/ job[c] \notin {"complete", "terminal"} /\ job'[c] = "terminal" /\ final[c] = <<>>
         \/ job'[c] \notin {"complete", "terminal"}
  PROVE  [Promise!Next]_(Promise!avars)
<1>1. Place' = Place /\ Admitted' = Admitted
  BY Local, Mapped, MappedNext
<1>2. Ledger' = [Ledger EXCEPT ![c] = Ledger'[c]]
  BY Local
<1>3. CASE job[c] \notin {"complete", "terminal"} /\ job'[c] = "complete" /\ final[c] # <<>>
  <2>1. Promise!Close(c)
    BY <1>1, <1>2, <1>3, Mapped, MappedNext DEF Promise!Close
  <2>2. QED
    BY <2>1 DEF Promise!Next
<1>4. CASE job[c] \notin {"complete", "terminal"} /\ job'[c] = "terminal" /\ final[c] = <<>>
  <2>1. Promise!Fail(c)
    BY <1>1, <1>2, <1>4, Mapped, MappedNext DEF Promise!Fail
  <2>2. QED
    BY <2>1 DEF Promise!Next
<1>5. CASE job'[c] \notin {"complete", "terminal"}
  <2>1. CASE job[c] \in {"complete", "terminal"}
    <3>1. Promise!Reopen(c)
      BY <1>1, <1>2, <1>5, <2>1, Mapped, MappedNext DEF Promise!Reopen
    <3>2. QED
      BY <3>1 DEF Promise!Next
  <2>2. CASE job[c] \notin {"complete", "terminal"}
    <3>1. Invisible(c)
      BY <1>1, <1>5, <2>2, Mapped, MappedNext DEF Invisible
    <3>2. QED
      BY <3>1, InvisibleStep
  <2>3. QED
    BY <2>1, <2>2
<1>6. QED
  BY <1>3, <1>4, <1>5

\* Only the .part of an open job moves.
LEMMA PartStep ==
  ASSUME NEW c \in Jobs, Elsewhere(c),
         job[c] = "active", final[c] = <<>>,
         job'[c] = job[c], final'[c] = final[c], qfile'[c] = qfile[c],
         row'[c] = row[c]
  PROVE  [Promise!Next]_(Promise!avars)
<1>1. /\ Place' = [Place EXCEPT ![c] = Place'[c]]
      /\ Ledger' = Ledger /\ Admitted' = Admitted
  BY Local, Mapped, MappedNext
<1>2. CASE qfile[c] # <<>>
  <2>1. Invisible(c)
    BY <1>1, <1>2, Mapped, MappedNext DEF Invisible
  <2>2. QED
    BY <2>1, InvisibleStep
<1>3. CASE qfile[c] = <<>>
  <2>1. Promise!Stage(c)
    BY <1>1, <1>3, Mapped, MappedNext DEF Promise!Stage
  <2>2. QED
    BY <2>1 DEF Promise!Next
<1>4. QED
  BY <1>2, <1>3

\* Nothing Acquisition sees moves.
LEMMA QuietStep ==
  ASSUME UNCHANGED <<part, final, qfile, job, row>>
  PROVE  UNCHANGED Promise!avars
  BY DEF Promise!avars, Place, Ledger, Admitted

LEMMA PromiseInit == Init => Promise!Init
  BY DEF Init, Promise!Init, Place, Ledger, Admitted

LEMMA PromiseStep ==
  ASSUME TypeOK, StepInv, [Next]_vars
  PROVE  [Promise!Next]_(Promise!avars)
<1> USE DEF TypeOK, StepInv, AtPoint, TodoIsOpen, Open, disk, cat,
            Elsewhere, SetJob, SetStatus
<1>1. CASE Start \/ StartRefused \/ Finish \/ UNCHANGED vars
  BY <1>1, QuietStep DEF Start, StartRefused, Finish, vars
<1>2. ASSUME NEW j \in Jobs, Prelude(j)
      PROVE  [Promise!Next]_(Promise!avars)
  <2>1. CASE SkipNoUrl(j)
    BY <2>1, QuietStep DEF SkipNoUrl
  <2>2. CASE SkipExisting(j)
    <3>1. /\ job[j] \notin {"complete", "terminal"} /\ final[j] # <<>>
          /\ job' = [job EXCEPT ![j] = "complete"] /\ UNCHANGED <<disk, row>>
      BY <2>2 DEF SkipExisting, Eligible, CompleteJob
    <3>2. QED
      BY <3>1, LedgerStep
  <2>3. CASE RefuseTooLarge(j)
    <3>1. /\ job[j] \notin {"complete", "terminal"} /\ final[j] = <<>>
          /\ job' = [job EXCEPT ![j] = "terminal"] /\ UNCHANGED <<disk, row>>
      BY <2>3 DEF RefuseTooLarge, Wanted, Eligible
    <3>2. QED
      BY <3>1, LedgerStep
  <2>4. CASE FailBefore(j) \/ UnreadableSidecar(j) \/ PauseForDisk(j) \/ Begin(j)
    <3>1. \E s \in {"paused", "active", "retryable"} : job' = [job EXCEPT ![j] = s]
      BY <2>4 DEF FailBefore, UnreadableSidecar, PauseForDisk, Begin, PauseJob
    <3>2. UNCHANGED <<part, final, qfile, row>>
      BY <2>4 DEF FailBefore, UnreadableSidecar, PauseForDisk, Begin
    <3>3. QED
      BY <3>1, <3>2, LedgerStep
  <2>5. QED
    BY <1>2, <2>1, <2>2, <2>3, <2>4 DEF Prelude
<1>3. ASSUME Raise
      PROVE  [Promise!Next]_(Promise!avars)
  BY <1>3, LedgerStep DEF Raise
<1>4. CASE Answer
  <2>1. pc = "request" /\ job[cur] = "active" /\ final[cur] = <<>>
    BY <1>4 DEF Answer, Refused, Gone, FullBody, PartialBody, ErrorPage, ErrorBody,
                ErrorAnswer
  <2>2. CASE Refused
    BY <2>1, <2>2, <1>3 DEF Refused
  <2>3. CASE Gone \/ ErrorPage
    <3>1. FailTerminally
      BY <2>3 DEF Gone, ErrorPage
    <3>2. QED
      BY <2>1, <3>1, LedgerStep DEF FailTerminally
  <2>4. CASE FullBody \/ ErrorBody
    BY <2>1, <2>4, PartStep DEF FullBody, ErrorBody, Truncate
  <2>5. CASE PartialBody
    BY <2>5, QuietStep DEF PartialBody, AppendPart
  <2>6. QED
    BY <1>4, <2>2, <2>3, <2>4, <2>5 DEF Answer
<1>5. CASE Transfer
  <2>1. CASE WriteChunk
    BY <2>1, PartStep DEF WriteChunk
  <2>2. CASE WriteSidecar \/ DiskLow
    BY <2>2, QuietStep DEF WriteSidecar, DiskLow
  <2>3. CASE Drop
    BY <2>3, <1>3 DEF Drop
  <2>4. CASE Interrupt
    <3>1. UNCHANGED <<disk, row>> /\ job' = [job EXCEPT ![cur] = "paused"]
      BY <2>4 DEF Interrupt, PauseJob
    <3>2. QED
      BY <3>1, LedgerStep
  <2>5. QED
    BY <1>5, <2>1, <2>2, <2>3, <2>4 DEF Transfer
<1>6. CASE Conclude
  <2>1. CASE EmptyBody
    BY <2>1, LedgerStep DEF EmptyBody, BodyEnds
  <2>2. CASE DiscardEmpty
    <3>1. UNCHANGED <<part, final, qfile, job, row>>
      BY <2>2 DEF DiscardEmpty
    <3>2. QED
      BY <3>1, QuietStep
  <2>3. CASE LengthMismatch
    BY <2>3, <1>3 DEF LengthMismatch, BodyEnds
  <2>4. CASE Finalize
    <3>1. /\ part[cur] # <<>> /\ final[cur] = <<>> /\ job[cur] = "active"
          /\ final' = [final EXCEPT ![cur] = part[cur]]
          /\ part' = [part EXCEPT ![cur] = <<>>]
          /\ UNCHANGED <<qfile, job, row>>
      BY <2>4 DEF Finalize, BodyEnds, CounterIsPartSize
    <3>2. Elsewhere(cur)
      BY <3>1
    <3>3. /\ Place[cur] \in {"staged", "aside"} /\ Ledger[cur] = "open"
          /\ Place'[cur] = "stored" /\ Ledger'[cur] = Ledger[cur]
      BY <3>1, Mapped, MappedNext
    <3>4. /\ Place' = [Place EXCEPT ![cur] = "stored"]
          /\ Ledger' = Ledger /\ Admitted' = Admitted
      BY <3>1, <3>2, <3>3, Local
    <3>5. Promise!Store(cur)
      BY <3>3, <3>4 DEF Promise!Store
    <3>6. QED
      BY <3>5 DEF Promise!Next
  <2>5. CASE DropSidecar
    BY <2>5, QuietStep DEF DropSidecar
  <2>6. CASE Record
    BY <2>6, LedgerStep DEF Record, CompleteJob
  <2>7. QED
    BY <1>6, <2>1, <2>2, <2>3, <2>4, <2>5, <2>6 DEF Conclude
<1>7. CASE Check
  <2>1. CASE Verify
    <3>1. /\ job[cur] = "complete" /\ final[cur] # <<>>
          /\ row' = [row EXCEPT ![cur] = "good"] /\ UNCHANGED <<disk, job>>
      BY <2>1 DEF Verify
    <3>2. CASE row[cur] = "good"
      <4>1. Invisible(cur)
        BY <3>1, <3>2, Mapped, MappedNext DEF Invisible
      <4>2. QED
        BY <3>1, <4>1, InvisibleStep
    <3>3. CASE row[cur] # "good"
      <4>1. Promise!Admit(cur)
        BY <3>1, <3>3, Local, Mapped, MappedNext DEF Promise!Admit
      <4>2. QED
        BY <4>1 DEF Promise!Next
    <3>4. QED
      BY <3>2, <3>3
  <2>2. CASE QuarantineMove
    <3>1. /\ job[cur] = "complete" /\ final[cur] # <<>>
          /\ final' = [final EXCEPT ![cur] = <<>>]
          /\ qfile' = [qfile EXCEPT ![cur] = final[cur]]
          /\ UNCHANGED <<part, job, row>>
      BY <2>2 DEF QuarantineMove, MoveFile
    <3>2. Promise!SetAside(cur)
      BY <3>1, Local, Mapped, MappedNext DEF Promise!SetAside
    <3>3. QED
      BY <3>2 DEF Promise!Next
  <2>3. CASE QuarantineRecord
    <3>1. /\ job[cur] = "complete" /\ final[cur] = <<>> /\ qfile[cur] # <<>>
          /\ row' = [row EXCEPT ![cur] = "bad"] /\ UNCHANGED <<disk, job>>
      BY <2>3 DEF QuarantineRecord
    <3>2. CASE row[cur] # "good"
      <4>1. Invisible(cur)
        BY <3>1, <3>2, Mapped, MappedNext DEF Invisible
      <4>2. QED
        BY <3>1, <4>1, InvisibleStep
    <3>3. CASE row[cur] = "good"
      <4>1. Promise!Withdraw(cur)
        BY <3>1, <3>3, Local, Mapped, MappedNext DEF Promise!Withdraw
      <4>2. QED
        BY <4>1 DEF Promise!Next
    <3>4. QED
      BY <3>2, <3>3
  <2>4. CASE IOError
    BY <2>4, <1>3 DEF IOError
  <2>5. CASE IOErrorTorn
    <3>1. /\ UNCHANGED <<part, final, qfile, row>>
          /\ job' = [job EXCEPT ![cur] = "retryable"]
      BY <2>5 DEF IOErrorTorn
    <3>2. QED
      BY <3>1, LedgerStep
  <2>6. CASE AddEvent
    BY <2>6, QuietStep DEF AddEvent
  <2>7. QED
    BY <1>7, <2>1, <2>2, <2>3, <2>4, <2>5, <2>6 DEF Check
<1>8. CASE Environment
  <2>1. CASE Signal \/ Crash \/ CrashTorn \/ \E j \in Jobs : RemoteChange(j)
    BY <2>1, QuietStep DEF Signal, Crash, CrashTorn, RemoteChange
  <2>2. CASE CrashUnflushed
    BY <2>2, PartStep DEF CrashUnflushed
  <2>3. QED
    BY <1>8, <2>1, <2>2 DEF Environment
<1>9. QED
  BY <1>1, <1>2, <1>4, <1>5, <1>6, <1>7, <1>8 DEF Next, Work

(* Crashes, retries, pauses and I/O errors included, the downloader does    *)
(* nothing to a file, the ledger or local_files that Acquisition forbids.   *)
THEOREM DownloadImplementsAcquisition == Spec => KeepsPromise
<1>1. TypeOK /\ StepInv /\ [Next]_vars => [Promise!Next]_(Promise!avars)
  BY PromiseStep
<1>2. QED
  BY <1>1, PromiseInit, TypeCorrect, StepInvariant, PTL
  DEF Spec, KeepsPromise, Promise!Spec

-----------------------------------------------------------------------------
(* Range with If-Range: a file is never made of two remote versions.       *)
(* The invariant says what the code relies on without saying so: a .part   *)
(* that is not empty is of the version whose ETag its sidecar holds, with  *)
(* the one exception of the first chunk before its sidecar is written.     *)

\* All chunks of s are of version v.
OfVersion(s, v) == \A i \in 1..Len(s) : s[i][1] = v

SidecarTellsVersion ==
    \A j \in Jobs :
        part[j] # <<>> /\ ~(pc = "written" /\ cur = j) =>
            sidecar[j] \in Versions /\ OfVersion(part[j], sidecar[j])

TransferOfVersion ==
    /\ pc \in {"idle", "pick", "request"} => since = 0
    /\ pc = "request" => tag = sidecar[cur]
    /\ pc \in {"body", "written"} => OfVersion(rest, tag)
    /\ pc \in {"body", "written"} /\ rest # <<>> => tag \in Versions
    /\ pc = "body" /\ part[cur] # <<>> => sidecar[cur] = tag
    /\ pc = "body" /\ since > 0 => part[cur] # <<>>
    /\ pc = "written" =>
          /\ tag \in Versions
          /\ OfVersion(part[cur], tag)
          /\ part[cur] # <<>>
          /\ since > 1 => sidecar[cur] = tag
    /\ pc = "renamed" => part[cur] = <<>>

VersionInv ==
    /\ SidecarTellsVersion
    /\ TransferOfVersion
    /\ \A j \in Jobs : \E v \in Versions : OfVersion(final[j], v)

-----------------------------------------------------------------------------
LEMMA WholeOfVersion ==
  ASSUME NEW v \in Versions
  PROVE  OfVersion(Whole(v), v)
<1>1. Len(Whole(v)) = Size[v] /\ Size[v] \in Nat
  BY WholeIsBody
<1>2. QED
  BY <1>1 DEF OfVersion, Whole

LEMMA RestOfVersion ==
  ASSUME NEW v \in Versions, NEW n \in Nat
  PROVE  OfVersion(SubSeq(Whole(v), n + 1, Size[v]), v)
<1> DEFINE s == SubSeq(Whole(v), n + 1, Size[v])
<1>1. /\ Size[v] \in Nat /\ Len(Whole(v)) = Size[v]
      /\ Whole(v) \in Seq(Chunk)
  BY WholeIsBody
<1>2. \A i \in n + 1 .. Size[v] : Whole(v)[i] \in Chunk
  BY <1>1, ElementOfSeq
<1>3. /\ Len(s) = IF n + 1 <= Size[v] THEN Size[v] - (n + 1) + 1 ELSE 0
      /\ \A i \in 1 .. Size[v] - (n + 1) + 1 : s[i] = Whole(v)[n + 1 + i - 1]
  BY <1>1, <1>2, SubSeqProperties
<1> HIDE DEF s
<1>4. \A i \in 1..Len(s) : s[i] = Whole(v)[n + 1 + i - 1] /\ n + 1 + i - 1 \in 1..Size[v]
  BY <1>1, <1>3
<1>5. \A k \in 1..Size[v] : Whole(v)[k][1] = v
  BY DEF Whole
<1>6. \A i \in 1..Len(s) : s[i][1] = v
  BY <1>4, <1>5
<1>7. QED
  BY <1>6 DEF OfVersion, s

LEMMA AppendOfVersion ==
  ASSUME NEW s \in Seq(Chunk), NEW c \in Chunk, NEW v, OfVersion(s, v), c[1] = v
  PROVE  OfVersion(Append(s, c), v)
<1>1. /\ Len(Append(s, c)) = Len(s) + 1 /\ Len(s) \in Nat
      /\ \A i \in 1..Len(s) : Append(s, c)[i] = s[i]
      /\ Append(s, c)[Len(s) + 1] = c
  BY AppendProperties
<1>2. QED
  BY <1>1 DEF OfVersion

LEMMA HeadTailOfVersion ==
  ASSUME NEW s \in Seq(Chunk), s # <<>>, NEW v, OfVersion(s, v)
  PROVE  Head(s) \in Chunk /\ Head(s)[1] = v /\ OfVersion(Tail(s), v)
<1>1. /\ Len(s) \in Nat /\ Len(s) # 0 /\ Head(s) = s[1] /\ Head(s) \in Chunk
      /\ Len(Tail(s)) = Len(s) - 1
      /\ \A i \in 1..Len(Tail(s)) : Tail(s)[i] = s[i + 1]
  BY HeadTailProperties, EmptySeq, LenProperties
<1>2. QED
  BY <1>1 DEF OfVersion

LEMMA EmptyOfVersion ==
  ASSUME NEW v
  PROVE  OfVersion(<<>>, v)
  BY DEF OfVersion

-----------------------------------------------------------------------------
LEMMA VersionInit == Init => VersionInv
<1>1. 1 \in Versions
  BY Bounds DEF Versions
<1>2. QED
  BY <1>1, EmptyOfVersion
  DEF Init, VersionInv, SidecarTellsVersion, TransferOfVersion

\* A step that leaves the files and the transfer alone, or ends it.
LEMMA VersionKept ==
  ASSUME VersionInv,
         UNCHANGED <<part, sidecar, final>>,
         pc # "written" \/ since > 1,
         pc' \notin {"request", "body", "written", "renamed"},
         pc' \in {"idle", "pick"} => since' = 0
  PROVE  VersionInv'
  BY DEF VersionInv, SidecarTellsVersion, TransferOfVersion, OfVersion

LEMMA VersionStep ==
  ASSUME CleanServer, TypeInv, StepInv, VersionInv, [Next]_vars
  PROVE  VersionInv'
<1> USE DEF CleanServer, disk, cat, net
<1>0. TypeOK
  BY DEF TypeInv
<1>1. CASE Start \/ StartRefused \/ Finish
  <2>1. /\ pc \in {"idle", "pick"} /\ pc' \in {"idle", "pick"}
        /\ since' = 0 /\ UNCHANGED <<part, sidecar, final>>
    BY <1>1 DEF Start, StartRefused, Finish, Leave, ForgetTransfer, VersionInv,
                TransferOfVersion
  <2>2. QED
    BY <2>1, VersionKept
<1>2. ASSUME NEW j \in Jobs, Prelude(j)
      PROVE  VersionInv'
  <2>1. pc = "pick" /\ UNCHANGED <<part, sidecar, final>>
    BY <1>2 DEF Prelude, SkipNoUrl, SkipExisting, UnreadableSidecar,
                RefuseTooLarge, PauseForDisk, Begin, FailBefore, Wanted, Eligible
  <2>2. CASE Begin(j)
    <3>1. pc' = "request" /\ cur' = j /\ tag' = sidecar[j] /\ UNCHANGED <<rest, since>>
      BY <2>2 DEF Begin, Take, StoredTag
    <3>2. QED
      BY <2>1, <3>1 DEF VersionInv, SidecarTellsVersion, TransferOfVersion, OfVersion
  <2>3. CASE ~Begin(j)
    <3>1. /\ pc' \in {"pick", "idle", "recorded"}
          /\ pc' # "recorded" => since' = 0
      BY <1>2, <2>3 DEF Prelude, SkipNoUrl, SkipExisting, UnreadableSidecar, FailBefore,
                        RefuseTooLarge, PauseForDisk, Return, Leave, ForgetTransfer
    <3>2. QED
      BY <2>1, <3>1, VersionKept
  <2>4. QED
    BY <2>2, <2>3
<1>3. CASE Answer
  <2>1. pc = "request"
    BY <1>3 DEF Answer, Refused, Gone, FullBody, PartialBody, ErrorPage, ErrorBody,
                ErrorAnswer
  <2>2. CASE Refused \/ Gone \/ ErrorPage
    <3>1. pc' = "pick" /\ since' = 0 /\ UNCHANGED <<part, sidecar, final>>
      BY <2>2 DEF Refused, Gone, ErrorPage, Raise, FailTerminally, Return,
                  ForgetTransfer
    <3>2. QED
      BY <2>1, <3>1, VersionKept
  <2>3. CASE FullBody
    <3> DEFINE v == remote[cur]
    <3>1. v \in Versions
      BY <1>0 DEF TypeOK
    <3>2. /\ part' = [part EXCEPT ![cur] = <<>>] /\ pc' = "body"
          /\ rest' = Whole(v) /\ tag' = v /\ since' = since
          /\ UNCHANGED <<sidecar, final, cur>>
      BY <2>3 DEF FullBody, Truncate, ETag
    <3>3. OfVersion(rest', tag') /\ tag' \in Versions
      BY <3>1, <3>2, WholeOfVersion
    <3>4. since = 0
      BY <2>1 DEF VersionInv, TransferOfVersion
    <3>5. part'[cur] = <<>> /\ \A j \in Jobs : j # cur => part'[j] = part[j]
      BY <1>0, <3>2 DEF TypeOK
    <3>6. SidecarTellsVersion'
      BY <3>2, <3>5 DEF VersionInv, SidecarTellsVersion, OfVersion
    <3>7. TransferOfVersion'
      <4> HIDE DEF v
      <4>1. pc' = "body" /\ since' = 0 /\ part'[cur'] = <<>>
        BY <3>2, <3>4, <3>5
      <4>2. QED
        BY <3>3, <4>1 DEF TransferOfVersion, OfVersion
    <3>8. QED
      BY <3>2, <3>6, <3>7 DEF VersionInv, OfVersion
  <2>4. CASE PartialBody
    <3> DEFINE v == remote[cur]
    <3>1. v \in Versions /\ have \in Nat
      BY <1>0 DEF TypeOK
    <3>2. /\ part' = part /\ pc' = "body" /\ tag' = v /\ since' = since
          /\ rest' = SubSeq(Whole(v), have + 1, Size[v])
          /\ UNCHANGED <<sidecar, final, cur>>
      BY <2>4 DEF PartialBody, AppendPart, ETag
    <3>3. OfVersion(rest', tag') /\ tag' \in Versions
      BY <3>1, <3>2, RestOfVersion
    <3>4. since = 0 /\ tag = sidecar[cur]
      BY <2>1 DEF VersionInv, TransferOfVersion
    <3>5. part[cur] # <<>> => sidecar[cur] \in Versions
      BY <1>0, <2>1 DEF VersionInv, SidecarTellsVersion, TypeOK
    <3>6. part[cur] # <<>> => tag = v
      BY <2>4, <3>4, <3>5 DEF PartialBody, RangeApplies, ETag, Versions, NoTag
    <3>7. SidecarTellsVersion'
      BY <2>1, <3>2 DEF VersionInv, SidecarTellsVersion, OfVersion
    <3>8. TransferOfVersion'
      <4> HIDE DEF v
      <4>1. part'[cur'] # <<>> => sidecar'[cur'] = tag'
        BY <3>2, <3>4, <3>6
      <4>2. pc' = "body" /\ since' = 0
        BY <3>2, <3>4
      <4>3. QED
        BY <3>3, <4>1, <4>2 DEF TransferOfVersion, OfVersion
    <3>9. QED
      BY <3>2, <3>7, <3>8 DEF VersionInv, OfVersion
  <2>5. CASE ErrorBody
    <3>1. /\ part' = [part EXCEPT ![cur] = <<>>] /\ pc' = "body"
          /\ rest' = <<>> /\ since' = since /\ UNCHANGED <<sidecar, final, cur>>
      BY <2>5 DEF ErrorBody, Truncate
    <3>2. since = 0
      BY <2>1 DEF VersionInv, TransferOfVersion
    <3>3. OfVersion(rest', tag')
      BY <3>1, EmptyOfVersion
    <3>4. part'[cur] = <<>> /\ \A j \in Jobs : j # cur => part'[j] = part[j]
      BY <1>0, <3>1 DEF TypeOK
    <3>5. SidecarTellsVersion'
      BY <3>1, <3>4 DEF VersionInv, SidecarTellsVersion, OfVersion
    <3>6. TransferOfVersion'
      BY <3>1, <3>2, <3>3, <3>4 DEF TransferOfVersion, OfVersion
    <3>7. QED
      BY <3>1, <3>5, <3>6 DEF VersionInv, OfVersion
  <2>6. QED
    BY <1>3, <2>2, <2>3, <2>4, <2>5 DEF Answer
<1>4. CASE Transfer
  <2>1. CASE WriteChunk
    <3>1. /\ pc = "body" /\ rest # <<>> /\ rest \in Seq(Chunk)
          /\ part[cur] \in Seq(Chunk) /\ OfVersion(rest, tag) /\ tag \in Versions
          /\ cur \in Jobs
      BY <1>0, <2>1 DEF WriteChunk, TypeOK, VersionInv, TransferOfVersion
    <3>2. Head(rest) \in Chunk /\ Head(rest)[1] = tag /\ OfVersion(Tail(rest), tag)
      BY <3>1, HeadTailOfVersion
    <3>3. OfVersion(part[cur], tag)
      <4>1. CASE part[cur] = <<>>
        BY <4>1, EmptyOfVersion
      <4>2. CASE part[cur] # <<>>
        BY <3>1, <4>2 DEF VersionInv, SidecarTellsVersion, TransferOfVersion
      <4>3. QED
        BY <4>1, <4>2
    <3>4. OfVersion(Append(part[cur], Head(rest)), tag)
      BY <3>1, <3>2, <3>3, AppendOfVersion
    <3>5. /\ part' = [part EXCEPT ![cur] = Append(part[cur], Head(rest))]
          /\ rest' = Tail(rest) /\ since' = since + 1 /\ pc' = "written"
          /\ UNCHANGED <<sidecar, final, cur, tag>>
      BY <2>1 DEF WriteChunk
    <3>6. OfVersion(part'[cur], tag) /\ OfVersion(rest', tag)
      BY <1>0, <3>1, <3>2, <3>4, <3>5 DEF TypeOK
    <3>7. since' > 1 => sidecar[cur] = tag
      BY <1>0, <3>1, <3>5 DEF VersionInv, TransferOfVersion, TypeOK
    <3>8. \A j \in Jobs : j # cur => part'[j] = part[j]
      BY <1>0, <3>5 DEF TypeOK
    <3>9. part'[cur] # <<>>
      <4>1. Append(part[cur], Head(rest)) # <<>>
        BY <3>1, <3>2, AppendProperties
      <4>2. part'[cur] = Append(part[cur], Head(rest))
        BY <1>0, <3>1, <3>5 DEF TypeOK
      <4>3. QED
        BY <4>1, <4>2
    <3>10. SidecarTellsVersion'
      BY <3>1, <3>5, <3>8 DEF VersionInv, SidecarTellsVersion, OfVersion
    <3>11. TransferOfVersion'
      BY <3>1, <3>5, <3>6, <3>7, <3>9 DEF TransferOfVersion, OfVersion
    <3>12. QED
      BY <3>5, <3>10, <3>11 DEF VersionInv, OfVersion
  <2>2. CASE WriteSidecar
    <3>1. /\ pc = "written" /\ pc' = "body" /\ cur \in Jobs
          /\ sidecar' = [sidecar EXCEPT ![cur] = tag]
          /\ UNCHANGED <<part, rest, final, cur, tag>>
      BY <1>0, <2>2 DEF WriteSidecar, TypeOK
    <3>2. part[cur] # <<>>
      BY <3>1 DEF VersionInv, TransferOfVersion
    <3>3. sidecar'[cur] = tag /\ \A j \in Jobs : j # cur => sidecar'[j] = sidecar[j]
      BY <1>0, <3>1 DEF TypeOK
    <3>4. QED
      BY <3>1, <3>2, <3>3
      DEF VersionInv, SidecarTellsVersion, TransferOfVersion, OfVersion
  <2>3. CASE DiskLow
    <3>1. /\ pc = "written" /\ since = CheckEvery /\ pc' = "idle" /\ since' = 0
          /\ UNCHANGED <<part, sidecar, final>>
      BY <2>3 DEF DiskLow, Leave, ForgetTransfer
    <3>2. QED
      BY <3>1, VersionKept
  <2>4. CASE Drop \/ Interrupt
    <3>1. /\ pc = "body" /\ pc' = "pick" /\ since' = 0
          /\ UNCHANGED <<part, sidecar, final>>
      BY <2>4 DEF Drop, Interrupt, Raise, Return, ForgetTransfer
    <3>2. QED
      BY <3>1, VersionKept
  <2>5. QED
    BY <1>4, <2>1, <2>2, <2>3, <2>4 DEF Transfer
<1>5. CASE Conclude
  <2>1. CASE EmptyBody \/ LengthMismatch \/ Record
    <3>1. /\ pc \in {"body", "hashed"} /\ pc' \in {"discard", "pick", "recorded"}
          /\ pc' = "pick" => since' = 0
          /\ UNCHANGED <<part, sidecar, final>>
      BY <2>1 DEF EmptyBody, LengthMismatch, Record, BodyEnds, Raise, Return,
                  ForgetTransfer
    <3>2. QED
      BY <3>1, VersionKept
  <2>2. CASE DiscardEmpty
    BY <1>0, <2>2
    DEF DiscardEmpty, Return, ForgetTransfer, TypeOK, VersionInv,
        SidecarTellsVersion, TransferOfVersion, OfVersion
  <2>3. CASE Finalize
    <3>1. /\ pc = "body" /\ pc' = "renamed" /\ part[cur] # <<>> /\ cur \in Jobs
          /\ final' = [final EXCEPT ![cur] = part[cur]]
          /\ part' = [part EXCEPT ![cur] = <<>>]
          /\ UNCHANGED <<sidecar, cur>>
      BY <1>0, <2>3 DEF Finalize, BodyEnds, StepInv, CounterIsPartSize, TypeOK
    <3>2. sidecar[cur] \in Versions /\ OfVersion(part[cur], sidecar[cur])
      BY <3>1 DEF VersionInv, SidecarTellsVersion
    <3>3. /\ final'[cur] = part[cur] /\ part'[cur] = <<>>
          /\ \A j \in Jobs : j # cur => final'[j] = final[j] /\ part'[j] = part[j]
      BY <1>0, <3>1 DEF TypeOK
    <3>4. QED
      BY <3>1, <3>2, <3>3
      DEF VersionInv, SidecarTellsVersion, TransferOfVersion, OfVersion
  <2>4. CASE DropSidecar
    <3>1. /\ pc = "renamed" /\ pc' = "hashed" /\ cur \in Jobs
          /\ sidecar' = [sidecar EXCEPT ![cur] = NoTag]
          /\ UNCHANGED <<part, final, cur>>
      BY <1>0, <2>4 DEF DropSidecar, TypeOK
    <3>2. part[cur] = <<>>
      BY <3>1 DEF VersionInv, TransferOfVersion
    <3>3. \A j \in Jobs : j # cur => sidecar'[j] = sidecar[j]
      BY <1>0, <3>1 DEF TypeOK
    <3>4. QED
      BY <3>1, <3>2, <3>3
      DEF VersionInv, SidecarTellsVersion, TransferOfVersion, OfVersion
  <2>5. QED
    BY <1>5, <2>1, <2>2, <2>3, <2>4 DEF Conclude
<1>6. CASE Check
  <2>1. CASE Verify \/ QuarantineRecord \/ AddEvent
    <3>1. /\ pc \in {"recorded", "moved", "event"} /\ pc' \in {"event", "pick"}
          /\ pc' = "pick" => since' = 0
          /\ UNCHANGED <<part, sidecar, final>>
      BY <2>1 DEF Verify, QuarantineRecord, AddEvent, Return, ForgetTransfer
    <3>2. QED
      BY <3>1, VersionKept
  <2>2. CASE QuarantineMove
    <3>1. /\ pc = "recorded" /\ pc' = "moved"
          /\ final' = [final EXCEPT ![cur] = <<>>]
          /\ UNCHANGED <<part, sidecar, cur>>
      BY <2>2 DEF QuarantineMove, MoveFile
    <3>2. \A j \in Jobs : final'[j] = final[j] \/ final'[j] = <<>>
      BY <1>0, <3>1 DEF TypeOK
    <3>3. 1 \in Versions
      BY Bounds DEF Versions
    <3>4. \A j \in Jobs : \E v \in Versions : OfVersion(final'[j], v)
      BY <3>2, <3>3, EmptyOfVersion DEF VersionInv
    <3>5. QED
      BY <3>1, <3>4
      DEF VersionInv, SidecarTellsVersion, TransferOfVersion, OfVersion
  <2>3. QED
    BY <1>6, <2>1, <2>2 DEF Check, IOError, IOErrorTorn
<1>7. CASE Environment
  <2>1. CASE Signal \/ \E j \in Jobs : RemoteChange(j)
    BY <2>1 DEF Signal, RemoteChange, VersionInv, SidecarTellsVersion,
                TransferOfVersion, OfVersion
  <2>2. QED
    BY <1>7, <2>1 DEF Environment, Crash, CrashUnflushed, CrashTorn
<1>8. CASE UNCHANGED vars
  BY <1>8 DEF vars, VersionInv, SidecarTellsVersion, TransferOfVersion, OfVersion
<1>9. QED
  BY <1>1, <1>2, <1>3, <1>4, <1>5, <1>6, <1>7, <1>8 DEF Next, Work

(* With a server that sends ETags and honours If-Range, and no crash or I/O *)
(* error, no stored file mixes two versions of the remote file.             *)
THEOREM VersionsNeverMix ==
  ASSUME CleanServer
  PROVE  Spec => []OneVersion
<1>1. Init => VersionInv
  BY VersionInit
<1>2. TypeInv /\ StepInv /\ VersionInv /\ [Next]_vars => VersionInv'
  BY VersionStep
<1>3. VersionInv => OneVersion
  BY DEF VersionInv, OfVersion, OneVersion
<1>4. QED
  BY <1>1, <1>2, <1>3, TypeInit, TypeStep, StepInvariant, PTL DEF Spec

-----------------------------------------------------------------------------
(* The exit code.                                                          *)

LEMMA TriedStep == TypeOK /\ StepInv /\ TriedInv /\ [Next]_vars => TriedInv'
<1> SUFFICES ASSUME TypeOK, StepInv, TriedInv, [Next]_vars
             PROVE  TriedInv'
  OBVIOUS
<1> USE DEF TypeOK, TriedInv, Outcomes, cat, disk, net
<1>1. CASE Start
  BY <1>1 DEF Start, Open, JobStates
<1>2. CASE StartRefused
  BY <1>2 DEF StartRefused
<1>3. CASE Finish
  <2>1. exit' = ExitCode /\ pc' = "idle" /\ UNCHANGED job /\ pc = "pick"
    BY <1>3 DEF Finish, Leave
  <2>2. ExitCode = "success" => shutdown # "set" /\ "paused" \notin results
    BY DEF ExitCode
  <2>3. QED
    BY <1>3, <2>1, <2>2 DEF Finish
<1>4. ASSUME NEW j \in Jobs, Prelude(j)
      PROVE  TriedInv'
  <2>1. pc = "pick" /\ exit # "success" /\ j \in todo
    BY <1>4 DEF Prelude, SkipNoUrl, SkipExisting, FailBefore, UnreadableSidecar,
                RefuseTooLarge, PauseForDisk, Begin, Wanted, Eligible
  <2>2. CASE SkipNoUrl(j)
    BY <2>1, <2>2 DEF SkipNoUrl, Take, Return
  <2>3. CASE SkipExisting(j)
    BY <2>1, <2>3 DEF SkipExisting, Take, CompleteJob, SetJob
  <2>4. CASE UnreadableSidecar(j) \/ FailBefore(j)
    BY <2>1, <2>4 DEF UnreadableSidecar, FailBefore, Take, SetJob, Return
  <2>5. CASE RefuseTooLarge(j)
    BY <2>1, <2>5 DEF RefuseTooLarge, Take, SetJob, Return
  <2>6. CASE PauseForDisk(j)
    BY <2>1, <2>6 DEF PauseForDisk, Leave
  <2>7. CASE Begin(j)
    BY <2>1, <2>7 DEF Begin, Take, SetJob
  <2>8. QED
    BY <1>4, <2>2, <2>3, <2>4, <2>5, <2>6, <2>7 DEF Prelude
<1>5. ASSUME pc \notin {"idle", "pick"}, exit' = exit, cur' = cur, todo' = todo,
             results \subseteq results',
             \A j \in Jobs : j # cur => job'[j] = job[j],
             \/ pc' \notin {"idle", "pick"}
             \/ job'[cur] \in Outcomes
             \/ job'[cur] = "paused" /\ "paused" \in results'
      PROVE  TriedInv'
  BY <1>5
<1>6. ASSUME pc \notin {"idle", "pick"}, exit' # "success", pc' = "idle"
      PROVE  TriedInv'
  BY <1>6
<1>7. CASE Answer
  BY <1>5, <1>7 DEF Answer, Refused, Raise, Gone, FailTerminally, FullBody, PartialBody,
              ErrorAnswer, ErrorPage, ErrorBody, SetJob, Return
<1>8. CASE Transfer
  <2>1. CASE DiskLow
    BY <1>6, <2>1 DEF DiskLow, Leave
  <2>2. CASE ~DiskLow
    BY <1>5, <1>8, <2>2 DEF Transfer, WriteChunk, WriteSidecar, Drop, Raise,
                Interrupt, PauseJob, SetJob, Return
  <2>3. QED
    BY <2>1, <2>2
<1>9. CASE Conclude
  BY <1>5, <1>9 DEF Conclude, EmptyBody, BodyEnds, DiscardEmpty, LengthMismatch, Raise,
              Finalize, DropSidecar, Record, CompleteJob, SetJob, Return, StepInv, AtPoint
<1>10. CASE Check
  BY <1>5, <1>10 DEF Check, Verify, QuarantineMove, QuarantineRecord, AddEvent, IOError,
               IOErrorTorn, Raise, SetJob, Return, StepInv, AtPoint
<1>11. CASE Signal \/ \E j \in Jobs : RemoteChange(j)
  BY <1>11 DEF Signal, RemoteChange
<1>12. CASE Crash \/ CrashUnflushed \/ CrashTorn
  BY <1>12 DEF Crash, CrashUnflushed, CrashTorn, Leave
<1>13. CASE UNCHANGED vars
  BY <1>13 DEF vars
<1>14. QED
  BY <1>1, <1>2, <1>3, <1>4, <1>7, <1>8, <1>9, <1>10, <1>11, <1>12, <1>13
  DEF Next, Work, Environment

(* Exit code 0 is never given while a job with a URL was left half way.    *)
THEOREM SuccessAlwaysMeansTried == Spec => []SuccessMeansAllTried
<1>1. Init => TriedInv
  BY DEF Init, TriedInv
<1>2. TriedInv => SuccessMeansAllTried
  BY DEF TriedInv, SuccessMeansAllTried, Outcomes
<1>3. QED
  BY <1>1, <1>2, TriedStep, TypeCorrect, StepInvariant, PTL DEF Spec

-----------------------------------------------------------------------------
(* Faithfulness.                                                           *)

LEMMA WholeContinues ==
  ASSUME NEW v \in Versions
  PROVE  Continues(<<>>, Whole(v), v) /\ Begins(<<>>, v)
<1>1. Len(Whole(v)) = Size[v] /\ Size[v] \in Nat
  BY WholeIsBody
<1>2. QED
  BY <1>1 DEF Continues, Begins, Whole

LEMMA RestContinues ==
  ASSUME NEW v \in Versions, NEW s \in Seq(Chunk), Begins(s, v)
  PROVE  Continues(s, SubSeq(Whole(v), Len(s) + 1, Size[v]), v)
<1> DEFINE n == Len(s)
           r == SubSeq(Whole(v), n + 1, Size[v])
<1>1. /\ Size[v] \in Nat /\ Len(Whole(v)) = Size[v]
      /\ Whole(v) \in Seq(Chunk) /\ n \in Nat /\ n <= Size[v]
  BY WholeIsBody DEF Begins
<1>2. \A i \in n + 1 .. Size[v] : Whole(v)[i] \in Chunk
  BY <1>1, ElementOfSeq
<1>3. /\ Len(r) = IF n + 1 <= Size[v] THEN Size[v] - (n + 1) + 1 ELSE 0
      /\ \A i \in 1 .. Size[v] - (n + 1) + 1 : r[i] = Whole(v)[n + 1 + i - 1]
  BY <1>1, <1>2, SubSeqProperties
<1> HIDE DEF r
<1>4. Len(r) = Size[v] - n
  BY <1>1, <1>3
<1>5. \A i \in 1..Len(r) : r[i] = Whole(v)[n + i] /\ n + i \in 1..Size[v]
  BY <1>1, <1>3, <1>4
<1>6. \A k \in 1..Size[v] : Whole(v)[k] = <<v, k>>
  BY DEF Whole
<1>7. Len(s) + Len(r) = Size[v]
  BY <1>1, <1>4
<1>8. ASSUME NEW i \in 1..Len(r) PROVE r[i] = <<v, Len(s) + i>>
  <2>1. r[i] = Whole(v)[n + i] /\ n + i \in 1..Size[v]
    BY <1>5
  <2> QED BY <1>6, <2>1
<1> QED BY <1>7, <1>8 DEF Continues, r

LEMMA OneMore ==
  ASSUME NEW v \in Versions, NEW s \in Seq(Chunk), NEW r \in Seq(Chunk), r # <<>>,
         Begins(s, v), Continues(s, r, v)
  PROVE  Begins(Append(s, Head(r)), v) /\ Continues(Append(s, Head(r)), Tail(r), v)
<1>1. /\ Len(r) \in Nat \ {0} /\ Len(s) \in Nat /\ Size[v] \in Nat
      /\ Head(r) = r[1] /\ Head(r) \in Chunk
      /\ Len(Tail(r)) = Len(r) - 1
      /\ \A i \in 1..Len(Tail(r)) : Tail(r)[i] = r[i + 1]
  BY HeadTailProperties, EmptySeq, LenProperties, WholeIsBody
<1>2. /\ Len(Append(s, Head(r))) = Len(s) + 1
      /\ \A i \in 1..Len(s) : Append(s, Head(r))[i] = s[i]
      /\ Append(s, Head(r))[Len(s) + 1] = Head(r)
  BY <1>1, AppendProperties
<1>3. r[1] = <<v, Len(s) + 1>>
  BY <1>1 DEF Continues
<1>4. Begins(Append(s, Head(r)), v)
  BY <1>1, <1>2, <1>3 DEF Begins, Continues
<1>5. \A i \in 1..Len(Tail(r)) : i + 1 \in 1..Len(r) /\ Len(s) + (i + 1) = Len(s) + 1 + i
  BY <1>1
<1>6. Continues(Append(s, Head(r)), Tail(r), v)
  BY <1>1, <1>2, <1>5 DEF Continues
<1>7. QED
  BY <1>4, <1>6

LEMMA AllOfIt ==
  ASSUME NEW v \in Versions, NEW s \in Seq(Chunk), Begins(s, v), Continues(s, <<>>, v)
  PROVE  s = Whole(v)
<1>1. Whole(v) \in Seq(Chunk) /\ Len(Whole(v)) = Size[v] /\ Size[v] \in Nat
  BY WholeIsBody
<1>2. Len(s) = Len(Whole(v)) /\ Len(s) \in Nat
  BY <1>1 DEF Continues
<1>3. \A i \in 1..Len(s) : s[i] = Whole(v)[i]
  BY <1>1, <1>2 DEF Begins, Whole
<1>4. QED
  BY <1>1, <1>2, <1>3, SeqEqual

LEMMA OneLess ==
  ASSUME NEW v \in Versions, NEW s \in Seq(Chunk), s # <<>>, Begins(s, v)
  PROVE  Begins(SubSeq(s, 1, Len(s) - 1), v)
<1>1. Len(s) \in Nat \ {0} /\ \A i \in 1 .. Len(s) : s[i] \in Chunk
  BY ElementOfSeq, EmptySeq
<1>2. \A i \in 1 .. Len(s) - 1 : s[i] \in Chunk
  BY <1>1
<1>3. /\ Len(SubSeq(s, 1, Len(s) - 1)) = IF 1 <= Len(s) - 1 THEN Len(s) - 1 - 1 + 1 ELSE 0
      /\ \A i \in 1 .. Len(s) - 1 - 1 + 1 : SubSeq(s, 1, Len(s) - 1)[i] = s[1 + i - 1]
  BY <1>1, <1>2, SubSeqProperties
<1>4. Size[v] \in Nat
  BY WholeIsBody
<1>5. QED
  BY <1>1, <1>3, <1>4 DEF Begins

\* A step that leaves the files and the transfer alone, or ends it.
LEMMA FaithfulKept ==
  ASSUME FaithfulInv, UNCHANGED <<remote, part, final>>,
         \/ pc' \notin {"body", "written"}
         \/ pc \in {"body", "written"} /\ UNCHANGED <<cur, rest>>
  PROVE  FaithfulInv'
<1>1. Faithful'
  BY DEF FaithfulInv, Faithful, Whole
<1>2. \A j \in Jobs : remote'[j] = 1 => Begins(part'[j], 1)
  BY DEF FaithfulInv
<1>3. pc' \in {"body", "written"} =>
        UNCHANGED <<cur, rest>> /\ pc \in {"body", "written"}
  OBVIOUS
<1>4. QED
  BY <1>1, <1>2, <1>3 DEF FaithfulInv

LEMMA FaithfulStep ==
  ASSUME WholeBodies, TypeOK, StepInv, FaithfulInv, [Next]_vars
  PROVE  FaithfulInv'
<1> USE DEF disk, cat, net
<1>0. 1 \in Versions
  BY Bounds DEF Versions
<1>1. CASE Start \/ StartRefused \/ Finish
  BY <1>1, FaithfulKept DEF Start, StartRefused, Finish, Leave
<1>2. ASSUME NEW j \in Jobs, Prelude(j)
      PROVE  FaithfulInv'
  BY <1>2, FaithfulKept
  DEF Prelude, SkipNoUrl, SkipExisting, FailBefore, UnreadableSidecar, RefuseTooLarge,
      PauseForDisk, Begin, Return, Leave
<1>3. CASE Answer
  <2>1. CASE Refused \/ Gone \/ ErrorPage
    BY <2>1, FaithfulKept DEF Refused, Gone, ErrorPage, Raise, FailTerminally, Return
  <2>2. CASE FullBody
    <3>1. /\ part' = [part EXCEPT ![cur] = <<>>] /\ rest' = Whole(remote[cur])
          /\ UNCHANGED <<remote, final, cur>>
      BY <2>2 DEF FullBody, Truncate
    <3>2. part'[cur] = <<>> /\ \A j \in Jobs : j # cur => part'[j] = part[j]
      BY <3>1 DEF TypeOK
    <3>3. Continues(<<>>, Whole(1), 1) /\ Begins(<<>>, 1)
      BY <1>0, WholeContinues
    <3>4. Faithful'
      BY <3>1 DEF FaithfulInv, Faithful, Whole
    <3>5. \A j \in Jobs : remote'[j] = 1 => Begins(part'[j], 1)
      BY <3>1, <3>2, <3>3 DEF FaithfulInv
    <3>6. remote'[cur'] = 1 => Continues(part'[cur'], rest', 1)
      BY <3>1, <3>2, <3>3
    <3>7. QED
      BY <3>4, <3>5, <3>6 DEF FaithfulInv
  <2>3. CASE PartialBody
    <3>1. /\ UNCHANGED <<remote, final, part, cur>>
          /\ rest' = SubSeq(Whole(remote[cur]), have + 1, Size[remote[cur]])
      BY <2>3 DEF PartialBody, AppendPart
    <3>2. have = Len(part[cur]) /\ part[cur] \in Seq(Chunk)
      BY <2>3 DEF PartialBody, StepInv, CounterIsPartSize, TypeOK
    <3>3. remote[cur] = 1 => Begins(part[cur], 1)
      BY DEF FaithfulInv, TypeOK
    <3>4. remote[cur] = 1 => Continues(part[cur], rest', 1)
      BY <1>0, <3>1, <3>2, <3>3, RestContinues
    <3>5. Faithful'
      BY <3>1 DEF FaithfulInv, Faithful, Whole
    <3>6. \A j \in Jobs : remote'[j] = 1 => Begins(part'[j], 1)
      BY <3>1 DEF FaithfulInv
    <3>7. QED
      BY <3>1, <3>4, <3>5, <3>6 DEF FaithfulInv
  <2>4. CASE ErrorBody
    <3>1. /\ part' = [part EXCEPT ![cur] = <<>>] /\ rest' = <<>>
          /\ UNCHANGED <<remote, final, cur>>
      BY <2>4 DEF ErrorBody, Truncate, WholeBodies
    <3>2. part'[cur] = <<>> /\ \A j \in Jobs : j # cur => part'[j] = part[j]
      BY <3>1 DEF TypeOK
    <3>3. Begins(<<>>, 1)
      BY <1>0, WholeContinues
    <3>4. Faithful'
      BY <3>1 DEF FaithfulInv, Faithful, Whole
    <3>5. \A j \in Jobs : remote'[j] = 1 => Begins(part'[j], 1)
      BY <3>1, <3>2, <3>3 DEF FaithfulInv
    <3>6. QED
      BY <3>1, <3>2, <3>4, <3>5 DEF FaithfulInv
  <2>5. QED
    BY <1>3, <2>1, <2>2, <2>3, <2>4 DEF Answer
<1>4. CASE Transfer
  <2>1. CASE WriteChunk
    <3>1. /\ part' = [part EXCEPT ![cur] = Append(part[cur], Head(rest))]
          /\ rest' = Tail(rest) /\ rest # <<>> /\ pc = "body"
          /\ UNCHANGED <<remote, final, cur>>
      BY <2>1 DEF WriteChunk
    <3>2. /\ part'[cur] = Append(part[cur], Head(rest))
          /\ \A j \in Jobs : j # cur => part'[j] = part[j]
      BY <3>1 DEF TypeOK
    <3>3. remote[cur] = 1 => Begins(part[cur], 1) /\ Continues(part[cur], rest, 1)
      BY <3>1 DEF FaithfulInv, TypeOK
    <3>4. part[cur] \in Seq(Chunk) /\ rest \in Seq(Chunk)
      BY DEF TypeOK
    <3>5. remote[cur] = 1 =>
            Begins(part'[cur], 1) /\ Continues(part'[cur], rest', 1)
      BY <1>0, <3>1, <3>2, <3>3, <3>4, OneMore
    <3>6. Faithful'
      BY <3>1 DEF FaithfulInv, Faithful, Whole
    <3>7. \A j \in Jobs : remote'[j] = 1 => Begins(part'[j], 1)
      BY <3>1, <3>2, <3>5 DEF FaithfulInv
    <3>8. QED
      BY <3>1, <3>5, <3>6, <3>7 DEF FaithfulInv
  <2>2. CASE ~WriteChunk
    BY <1>4, <2>2, FaithfulKept
    DEF Transfer, WriteSidecar, DiskLow, Leave, Drop, Raise, Return, Interrupt
  <2>3. QED
    BY <2>1, <2>2
<1>5. CASE Conclude
  <2>1. CASE DiscardEmpty
    <3>1. /\ part' = [part EXCEPT ![cur] = <<>>] /\ pc' = "pick"
          /\ UNCHANGED <<remote, final, cur>>
      BY <2>1 DEF DiscardEmpty, Return
    <3>2. part'[cur] = <<>> /\ \A j \in Jobs : j # cur => part'[j] = part[j]
      BY <3>1 DEF TypeOK
    <3>3. QED
      BY <1>0, <3>1, <3>2, WholeContinues DEF FaithfulInv, Faithful, Whole
  <2>2. CASE Finalize
    <3>1. /\ final' = [final EXCEPT ![cur] = part[cur]]
          /\ part' = [part EXCEPT ![cur] = <<>>] /\ pc' = "renamed"
          /\ UNCHANGED <<remote, cur>> /\ pc = "body" /\ rest = <<>> /\ have # 0
      BY <2>2 DEF Finalize, BodyEnds, WholeBodies
    <3>2. have = Len(part[cur]) /\ part[cur] \in Seq(Chunk)
      BY <3>1 DEF StepInv, CounterIsPartSize, TypeOK
    <3>3. part[cur] # <<>>
      BY <3>1, <3>2
    <3>4. remote[cur] = 1 => Begins(part[cur], 1) /\ Continues(part[cur], <<>>, 1)
      BY <3>1, <3>3 DEF FaithfulInv, TypeOK
    <3>5. remote[cur] = 1 => part[cur] = Whole(1)
      BY <1>0, <3>2, <3>4, AllOfIt
    <3>6. /\ part'[cur] = <<>> /\ final'[cur] = part[cur]
          /\ \A j \in Jobs : j # cur => part'[j] = part[j] /\ final'[j] = final[j]
      BY <3>1 DEF TypeOK
    <3>7. QED
      BY <1>0, <3>1, <3>5, <3>6, WholeContinues DEF FaithfulInv, Faithful, Whole
  <2>3. CASE ~DiscardEmpty /\ ~Finalize
    BY <1>5, <2>3, FaithfulKept
    DEF Conclude, EmptyBody, LengthMismatch, Raise, Return, DropSidecar, Record
  <2>4. QED
    BY <2>1, <2>2, <2>3
<1>6. CASE Check
  <2>1. CASE QuarantineMove
    <3>1. /\ final' = [final EXCEPT ![cur] = <<>>] /\ pc' = "moved"
          /\ UNCHANGED <<remote, part>>
      BY <2>1 DEF QuarantineMove, MoveFile
    <3>2. final'[cur] = <<>> /\ \A j \in Jobs : j # cur => final'[j] = final[j]
      BY <3>1 DEF TypeOK
    <3>3. QED
      BY <3>1, <3>2 DEF FaithfulInv, Faithful, Whole
  <2>2. CASE ~QuarantineMove
    BY <1>6, <2>2, FaithfulKept
    DEF Check, Verify, QuarantineRecord, AddEvent, IOError, IOErrorTorn, Raise, Return
  <2>3. QED
    BY <2>1, <2>2
<1>7. CASE Signal \/ Crash \/ CrashTorn \/ UNCHANGED vars
  BY <1>7, FaithfulKept DEF Signal, Crash, CrashTorn, Leave, vars
<1>8. CASE CrashUnflushed
  <2>1. /\ part' = [part EXCEPT ![cur] = SubSeq(part[cur], 1, Len(part[cur]) - 1)]
        /\ part[cur] # <<>> /\ pc' = "idle"
        /\ UNCHANGED <<remote, final>>
    BY <1>8 DEF CrashUnflushed, Leave
  <2>2. /\ part'[cur] = SubSeq(part[cur], 1, Len(part[cur]) - 1)
        /\ \A j \in Jobs : j # cur => part'[j] = part[j]
    BY <2>1 DEF TypeOK
  <2>3. remote[cur] = 1 => Begins(part'[cur], 1)
    BY <1>0, <2>1, <2>2, OneLess DEF FaithfulInv, TypeOK
  <2>4. QED
    BY <2>1, <2>2, <2>3 DEF FaithfulInv, Faithful, Whole
<1>9. ASSUME NEW j \in Jobs, RemoteChange(j)
      PROVE  FaithfulInv'
  <2>1. UNCHANGED <<part, final, pc, cur, rest>> /\ remote' = [remote EXCEPT ![j] = @ + 1]
    BY <1>9 DEF RemoteChange
  <2>2. \A k \in Jobs : remote[k] \in Nat \ {0} /\ (remote'[k] = 1 => remote[k] = 1)
    BY <2>1 DEF TypeOK, Versions
  <2>3. cur \in Jobs
    BY DEF TypeOK
  <2>4. QED
    BY <2>1, <2>2, <2>3 DEF FaithfulInv, Faithful, Whole
<1>10. QED
  BY <1>1, <1>2, <1>3, <1>4, <1>5, <1>6, <1>7, <1>8, <1>9 DEF Next, Work, Environment

(* With a server that ends no body early and writes no error into one, a   *)
(* stored file is all of the remote file, as long as that has not changed: *)
(* with or without ETags, whatever died, was dropped or was resumed.       *)
THEOREM StoredFilesAreFaithful ==
  ASSUME WholeBodies
  PROVE  Spec => []Faithful
<1>1. Init => FaithfulInv
  BY WholeContinues, Bounds DEF Init, FaithfulInv, Faithful, Versions
<1>2. FaithfulInv => Faithful
  BY DEF FaithfulInv
<1>3. TypeOK /\ StepInv /\ FaithfulInv /\ [Next]_vars => FaithfulInv'
  BY FaithfulStep
<1>4. QED
  BY <1>1, <1>2, <1>3, TypeCorrect, StepInvariant, PTL DEF Spec
=============================================================================
