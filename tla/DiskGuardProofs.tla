-------------------------- MODULE DiskGuardProofs --------------------------
(***************************************************************************)
(* What the transfer check guarantees, for every disk, every reserve and   *)
(* every list of jobs.  HeadroomKept and ReserveNearlyKept are proved from *)
(* one inductive invariant, their conjunction with the types; that a pause *)
(* is deserved, from what the start check leaves true of the whole run.    *)
(***************************************************************************)
EXTENDS DiskGuard, TLAPS

LEMMA SizesAreNat ==
    /\ CheckEvery \in Nat /\ CheckEvery > 0
    /\ ChunkMax \in Nat /\ ChunkMax > 0
    /\ OthersMax \in Nat /\ Total \in Nat
  BY GuardAssumption

LEMMA ReserveIsNat == Reserve \in Nat
<1>1. Total \in Nat /\ ReserveFixed \in Nat /\ ReservePercent \in 0..100
  BY GuardAssumption
<1>2. Total * ReservePercent \in Nat
  BY <1>1
<1>3. (Total * ReservePercent) \div 100 \in Nat
  BY <1>2
<1> QED
  BY <1>1, <1>3 DEF Reserve

LEMMA PlanIsNat == Planned \in Nat /\ Overhead(Known) \in Nat
<1>1. /\ Known \in Nat /\ BatchCap \in Nat
      /\ OverheadFixed \in Nat /\ OverheadPercent \in Nat
  BY GuardAssumption
<1>2. Planned \in Nat
  BY <1>1 DEF Planned
<1>3. Known * OverheadPercent \in Nat
  BY <1>1
<1>4. (Known * OverheadPercent) \div 100 \in Nat
  BY <1>3
<1> QED
  BY <1>1, <1>2, <1>4 DEF Overhead

(* What the start check leaves free covers the reserve.                     *)
LEMMA StartCoversReserve ==
  ASSUME free \in Nat, SafeToStart
  PROVE  free >= Reserve
  BY PlanIsNat, ReserveIsNat DEF SafeToStart

-----------------------------------------------------------------------------
(* A step keeps the variables in their types; since_check stays below one   *)
(* interval plus one chunk, because a chunk that reaches the interval is    *)
(* followed by the check that clears it.  The proof needs the stronger      *)
(* fact that a body outside the check is below the interval.                *)
SinceBelowInterval == phase # "check" => since < CheckEvery

Strong == TypeOK /\ SinceBelowInterval

LEMMA InitStrong == Init => Strong
  BY GuardAssumption DEF Init, Strong, TypeOK, SinceBelowInterval

LEMMA NextStrong == Strong /\ [Next]_vars => Strong'
<1> SUFFICES ASSUME Strong, [Next]_vars PROVE Strong'
  OBVIOUS
<1> USE DEF Strong, TypeOK, SinceBelowInterval
<1>1. CASE Start
  BY <1>1, SizesAreNat DEF Start
<1>2. ASSUME NEW j \in Jobs, Begin(j) PROVE Strong'
  <2>1. Body[j] \in Nat /\ Stale[j] \in Nat
    BY GuardAssumption
  <2>2. CheckEvery > 0
    BY SizesAreNat
  <2>3. CASE SafeDuring
    BY <1>2, <2>1, <2>2, <2>3, SizesAreNat DEF Begin
  <2>4. CASE ~SafeDuring
    <3>1. /\ phase = "between" /\ phase' = "idle" /\ guard' = "transfer"
          /\ others' = 0 /\ UNCHANGED <<free, begun, left, since, todo>>
      BY <1>2, <2>4 DEF Begin
    <3> QED
      BY <3>1, SizesAreNat
  <2> QED
    BY <2>3, <2>4
<1>3. CASE Chunk
  <2>1. PICK c \in 1..ChunkMax :
          /\ c <= free
          /\ c = left \/ (c = ChunkMax /\ c < left)
          /\ free' = free - c
          /\ left' = left - c
          /\ since' = since + c
          /\ phase' = IF Due(since + c) THEN "check" ELSE "body"
    BY <1>3 DEF Chunk
  <2>2. phase = "body" /\ UNCHANGED <<begun, todo, others, guard>>
    BY <1>3 DEF Chunk
  <2>3. since < CheckEvery
    BY <2>2
  <2> QED
    BY <2>1, <2>2, <2>3, SizesAreNat DEF Due
<1>4. CASE Recheck
  BY <1>4, SizesAreNat DEF Recheck
<1>5. CASE EndBody
  BY <1>5, SizesAreNat DEF EndBody
<1>6. CASE Finish
  BY <1>6 DEF Finish
<1>7. CASE OtherUse
  BY <1>7, SizesAreNat DEF OtherUse
<1>8. CASE UNCHANGED vars
  BY <1>8 DEF vars
<1> QED
  BY <1>1, <1>2, <1>3, <1>4, <1>5, <1>6, <1>7, <1>8 DEF Next

(* The guard's variables keep their types: in particular since_check never  *)
(* runs past one interval and one chunk.                                    *)
THEOREM GuardTypeCorrect == Spec => []TypeOK
<1>1. Strong => TypeOK
  BY DEF Strong
<1> QED
  BY InitStrong, NextStrong, <1>1, PTL DEF Spec

-----------------------------------------------------------------------------
(* Free space when the transfer was last checked, or the run started, is    *)
(* what is free now and what was written since.  Between two bodies the     *)
(* last body's since_check still counts.                                    *)
Kept ==
    /\ HeadroomKept
    /\ ReserveNearlyKept

LEMMA InitKept == Init => Kept
  BY DEF Init, Kept, HeadroomKept, ReserveNearlyKept

LEMMA NextKept == Strong /\ Kept /\ [Next]_vars => Kept'
<1> SUFFICES ASSUME Strong, Kept, [Next]_vars PROVE Kept'
  OBVIOUS
<1> USE ReserveIsNat, SizesAreNat
    DEF Strong, TypeOK, SinceBelowInterval, Kept, HeadroomKept,
        ReserveNearlyKept
<1>1. CASE Start
  BY <1>1, StartCoversReserve DEF Start
<1>2. ASSUME NEW j \in Jobs, Begin(j) PROVE Kept'
  <2>1. Stale[j] \in Nat
    BY GuardAssumption
  <2>2. CASE SafeDuring
    BY <1>2, <2>1, <2>2 DEF Begin, SafeDuring
  <2>3. CASE ~SafeDuring
    BY <1>2, <2>3 DEF Begin
  <2> QED
    BY <2>2, <2>3
<1>3. CASE Chunk
  <2>1. PICK c \in 1..ChunkMax :
          /\ c <= free
          /\ free' = free - c
          /\ since' = since + c
          /\ phase' = IF Due(since + c) THEN "check" ELSE "body"
    BY <1>3 DEF Chunk
  <2>2. phase = "body" /\ others' = others
    BY <1>3 DEF Chunk
  <2>3. since < CheckEvery /\ free + since + others > Reserve
    BY <2>2
  <2>4. free' + since' + others' > Reserve
    BY <2>1, <2>2, <2>3
  <2>5. since' < CheckEvery + ChunkMax
    BY <2>1, <2>3
  <2>6. free' + CheckEvery + ChunkMax + others' > Reserve
    BY <2>1, <2>2, <2>4, <2>5
  <2> QED
    BY <2>4, <2>6
<1>4. CASE Recheck
  BY <1>4 DEF Recheck, SafeDuring
<1>5. CASE EndBody
  BY <1>5 DEF EndBody
<1>6. CASE Finish
  BY <1>6 DEF Finish
<1>7. CASE OtherUse
  <2>1. PICK n \in 1..(OthersMax - others) :
          n <= free /\ free' = free - n /\ others' = others + n
    BY <1>7 DEF OtherUse
  <2>2. UNCHANGED <<since, phase>>
    BY <1>7 DEF OtherUse
  <2> QED
    BY <2>1, <2>2
<1>8. CASE UNCHANGED vars
  BY <1>8 DEF vars
<1> QED
  BY <1>1, <1>2, <1>3, <1>4, <1>5, <1>6, <1>7, <1>8 DEF Next

(* assert_safe_during_transfer, called once per interval, keeps the reserve *)
(* whole but for what was written since its last call.                      *)
THEOREM HeadroomAlwaysKept == Spec => []HeadroomKept
<1>1. Kept => HeadroomKept
  BY DEF Kept
<1> QED
  BY InitStrong, NextStrong, InitKept, NextKept, <1>1, PTL DEF Spec

(* So a run takes the disk below the reserve by less than one interval, one *)
(* chunk and what other programs wrote since the last call.                 *)
THEOREM ReserveAlwaysNearlyKept == Spec => []ReserveNearlyKept
<1>1. Kept => ReserveNearlyKept
  BY DEF Kept
<1> QED
  BY InitStrong, NextStrong, InitKept, NextKept, <1>1, PTL DEF Spec
-----------------------------------------------------------------------------
(* Once the run is let start, what was free then covers plan, overhead and  *)
(* reserve; and a run the guard has stopped does nothing more.              *)
Paid ==
    /\ phase # "idle" => begun - Planned - Overhead(Known) >= Reserve
    /\ guard # "quiet" => phase = "idle"
    /\ PauseIsDeserved

LEMMA NextPaid == Strong /\ Paid /\ [Next]_vars => Paid'
<1> SUFFICES ASSUME Strong, Paid, [Next]_vars PROVE Paid'
  OBVIOUS
<1>0. /\ Planned \in Nat /\ Overhead(Known) \in Nat /\ Reserve \in Nat
      /\ free \in Nat /\ begun \in Nat
  BY PlanIsNat, ReserveIsNat DEF Strong, TypeOK
<1> USE DEF Paid, PauseIsDeserved
<1>1. CASE Start
  BY <1>0, <1>1 DEF Start, SafeToStart
<1>2. ASSUME NEW j \in Jobs, Begin(j) PROVE Paid'
  <2>1. CASE SafeDuring
    BY <1>0, <1>2, <2>1 DEF Begin
  <2>2. CASE ~SafeDuring
    BY <1>0, <1>2, <2>2 DEF Begin, SafeDuring
  <2> QED
    BY <2>1, <2>2
<1>3. CASE Chunk
  BY <1>0, <1>3 DEF Chunk
<1>4. CASE Recheck
  BY <1>0, <1>4 DEF Recheck, SafeDuring
<1>5. CASE EndBody \/ Finish
  BY <1>0, <1>5 DEF EndBody, Finish
<1>6. CASE OtherUse
  BY <1>0, <1>6 DEF OtherUse
<1>7. CASE UNCHANGED vars
  BY <1>7 DEF vars
<1> QED
  BY <1>1, <1>2, <1>3, <1>4, <1>5, <1>6, <1>7 DEF Next

(* The start check sets enough aside: the transfer check stops a run only   *)
(* after the disk has lost at least what was planned for it.                *)
THEOREM PauseIsAlwaysDeserved == Spec => []PauseIsDeserved
<1>1. Init => Paid
  BY DEF Init, Paid, PauseIsDeserved
<1>2. Paid => PauseIsDeserved
  BY DEF Paid
<1> QED
  BY InitStrong, NextStrong, NextPaid, <1>1, <1>2, PTL DEF Spec
=============================================================================
