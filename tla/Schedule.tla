------------------------------ MODULE Schedule ------------------------------
(***************************************************************************)
(* services/schedule.py: build_batches, one row of its loop per action.    *)
(***************************************************************************)
EXTENDS Ranking, SequencesExt

VARIABLES
    wanted,   \* the rows it is given, a set: rank_resources orders them
    size,     \* size_by_id
    left,     \* the rows still to come
    batches,
    current,
    bytes     \* current_bytes

vars == <<wanted, size, left, batches, current, bytes>>

\* Sizes above MaxFile and Cap are all alike, so a few beyond them are enough.
Told == NoSize..(MaxFile + 1)

TypeOK ==
    /\ wanted \subseteq Resources
    /\ size \in [Resources -> Told]
    /\ left \subseteq wanted
    /\ batches \in Seq(Seq(wanted))
    /\ current \in Seq(wanted)
    /\ bytes \in Nat

Init ==
    /\ wanted \in SUBSET Resources
    /\ size \in [Resources -> Told]
    /\ left = wanted
    /\ batches = <<>> /\ current = <<>> /\ bytes = 0

IsNext(r) == \A x \in left \ {r} : Before(size, r, x)

\* Variant: the batch is closed one byte late.
ClosesLate(r) == current # <<>> /\ bytes + Known(r, size) > Cap + 1
Closes(r)     == current # <<>> /\ bytes + Known(r, size) > Cap

Skip(r) ==
    /\ size[r] > MaxFile
    /\ UNCHANGED <<batches, current, bytes>>

Close(r) ==
    /\ size[r] <= MaxFile
    /\ Closes(r)
    /\ batches' = Append(batches, current)
    /\ current' = <<r>>
    /\ bytes' = Known(r, size)

Add(r) ==
    /\ size[r] <= MaxFile
    /\ ~Closes(r)
    /\ current' = Append(current, r)
    /\ bytes' = bytes + Known(r, size)
    /\ UNCHANGED batches

Row(r) ==
    /\ IsNext(r)
    /\ left' = left \ {r}
    /\ Skip(r) \/ Close(r) \/ Add(r)
    /\ UNCHANGED <<wanted, size>>

\* Variant: the last batch is forgotten.
ForgetLast == batches' = batches
AppendLast == batches' = Append(batches, current)

\* After the loop.
EndLoop ==
    /\ left = {}
    /\ current # <<>>
    /\ AppendLast
    /\ current' = <<>> /\ bytes' = 0
    /\ UNCHANGED <<wanted, size, left>>

Next == (\E r \in left : Row(r)) \/ EndLoop

Spec == Init /\ [][Next]_vars

-----------------------------------------------------------------------------
Files(bs) == UNION {ToSet(bs[i]) : i \in DOMAIN bs}

(* No file is forgotten and none is scheduled that is above the limit.      *)
EveryFilePlaced ==
    Files(batches) \cup ToSet(current) = Fits(wanted \ left, size)

(* The batches read one after the other are in the order of the ranking, so *)
(* no file is in two of them, and a file of unknown size is never served    *)
(* before one of the same priority whose size is known.                     *)
InOrder ==
    LET all == Append(batches, current)
    IN  \A i, j \in DOMAIN all : \A k \in DOMAIN all[i], m \in DOMAIN all[j] :
            i < j \/ (i = j /\ k < m) =>
                LET a == all[i][k]
                    b == all[j][m]
                IN  /\ Before(size, a, b)
                    /\ Rank(a) <= Rank(b)
                    /\ Rank(a) = Rank(b) /\ size[a] = NoSize => size[b] = NoSize

(* A batch keeps the cap unless it is a single file, and is closed only     *)
(* when the next file did not fit.                                          *)
BatchesAreGreedy ==
    LET all == IF current = <<>> THEN batches ELSE Append(batches, current)
    IN  \A i \in DOMAIN all :
            /\ Len(all[i]) = 1 \/ Bytes(ToSet(all[i]), size) <= Cap
            /\ i > 1 => Bytes(ToSet(all[i - 1]), size) + Known(all[i][1], size) > Cap

(* What an estimate queues is the first batch.                              *)
FirstIsFirstBatch ==
    left = {} /\ current = <<>> =>
        FirstBatch(wanted, size) = IF batches = <<>> THEN {} ELSE ToSet(batches[1])

-----------------------------------------------------------------------------
(* Why these hold: what is placed comes before what is left; bytes is what  *)
(* the files of the current batch add up to, and there is a current batch   *)
(* as long as there is a batch before it and a row to come; and of the rows *)
(* so far those of the first batch are the ones that FirstBatch takes.      *)
OrderInv ==
    /\ InOrder
    /\ \A x \in wanted \ left, y \in left : Before(size, x, y)

GreedyInv ==
    /\ BatchesAreGreedy
    /\ bytes = Bytes(ToSet(current), size)
    /\ \A i \in DOMAIN batches : batches[i] # <<>>
    /\ current = <<>> => batches = <<>> \/ left = {}

FirstInv ==
    FirstBatch(wanted, size) \ left = ToSet(IF batches = <<>> THEN current ELSE batches[1])
=============================================================================
