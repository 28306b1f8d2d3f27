------------------------- MODULE ArchivePackProofs -------------------------
(***************************************************************************)
(* Proofs about the archive, for any files, contents, sizes and limit, any *)
(* changes under a run and any decay of the pack.  A published pack and    *)
(* what is restored from it are what the manifest says: how the groups are *)
(* cut and split does not matter to that, the check at the end does.  That *)
(* the groups are all of the list however they are cut, and that the check *)
(* refuses no pack whose files have not changed, rests on what FlattenSeq  *)
(* and FoldLeft compute, shown by induction on the length.                 *)
(***************************************************************************)
EXTENDS ArchivePackProperties, TLAPS, FiniteSetTheorems, SequenceTheorems, WellFoundedInduction

(* Whatever passes the check yields exactly what its manifest says, in      *)
(* volumes below the limit.                                                 *)
LEMMA CheckedIsTrue ==
    ASSUME NEW p, CheckOK(p)
    PROVE  /\ Extracted(p.volumes) = Promised(p)
           /\ p.volumes = p.sealed
           /\ \A i \in DOMAIN p.volumes : CompressedBytes(p.volumes[i]) < Limit
<1>1. DOMAIN p.hints = DOMAIN p.volumes
  BY DEF CheckOK
<1>2. ASSUME NEW i \in DOMAIN p.volumes
      PROVE  {<<x.file, x.data>> : x \in ToSet(p.volumes[i])}
             = {<<e.file, e.sha>> : e \in ToSet(p.hints[i])}
  <2>1. VolumeOK(p.volumes[i], p.hints[i])
    BY DEF CheckOK
  <2> QED BY <2>1 DEF VolumeOK, Matches
<1>3. Extracted(p.volumes) = Promised(p)
  BY <1>1, <1>2 DEF Extracted, Promised
<1> QED BY <1>3 DEF CheckOK

(* The invariant: what is about to be published has passed the check, and   *)
(* what was published is only ever changed by decay.                        *)
THEOREM PackInvariant == Spec => []PackInv
<1>1. Init => PackInv
  BY DEF Init, PackInv, PackIsTrue, RestoreIsTrue, NoPack, Packing, Extracted, Promised
<1>2. PackInv /\ [Next]_vars => PackInv'
  <2> SUFFICES ASSUME PackInv, [Next]_vars PROVE PackInv'
    OBVIOUS
  <2>1. ASSUME UNCHANGED <<pack, restored>>,
               pc' \in Packing => pc \in Packing \/ ~pack.published,
               pc' # "publish"
        PROVE  PackInv'
    BY <2>1 DEF PackInv, PackIsTrue, RestoreIsTrue, Promised, Packing
  <2>2. ASSUME NEW n \in 0..Len(Present), Start(n) PROVE PackInv'
    BY <2>1, <2>2 DEF Start, Packing
  <2>3. CASE StatFile
    BY <2>1, <2>3 DEF StatFile, Packing
  <2>4. CASE HashFile
    BY <2>1, <2>4 DEF HashFile, Packing
  <2>5. CASE Open
    BY <2>1, <2>5 DEF Open, Packing
  <2>6. CASE Refuse
    BY <2>1, <2>6 DEF Refuse, Ended, Packing
  <2>7. CASE TarInfo
    BY <2>1, <2>7 DEF TarInfo, Packing
  <2>8. CASE AddFile
    BY <2>1, <2>8 DEF AddFile, Packing
  <2>9. CASE CloseVolume
    BY <2>1, <2>9 DEF CloseVolume, Packing
  <2>10. CASE Split
    BY <2>1, <2>10 DEF Split, Packing
  <2>11. CASE Seal
    BY <2>1, <2>11 DEF Seal, Packing
  <2>12. CASE Check
    BY <2>12 DEF Check, PackInv, PackIsTrue, RestoreIsTrue, Promised, Packing, Staged, work
  <2>13. CASE Publish
    <3>1. ~pack.published /\ restored = {} /\ CheckOK(Staged)
      BY <2>13 DEF Publish, PackInv, RestoreIsTrue, Packing
    <3>2. pack' = Staged /\ restored' = {} /\ pc' = "idle"
      BY <2>13, <3>1 DEF Publish, Ended
    <3>3. /\ Extracted(Staged.volumes) = Promised(Staged)
          /\ Staged.volumes = Staged.sealed
          /\ \A i \in DOMAIN Staged.volumes : CompressedBytes(Staged.volumes[i]) < Limit
      BY <3>1, CheckedIsTrue
    <3>4. PackIsTrue'
      BY <3>2, <3>3 DEF PackIsTrue, Promised
    <3>5. RestoreIsTrue'
      BY <3>2 DEF RestoreIsTrue
    <3>6. pack' \in [published : {pack'.published}, intact : {pack'.intact},
                     count : {pack'.count}, volumes : {pack'.volumes},
                     sealed : {pack'.sealed}, hints : {pack'.hints}]
      BY <3>2 DEF Staged
    <3> QED BY <3>2, <3>4, <3>5, <3>6 DEF PackInv, Packing
  <2>14. CASE GiveUp
    BY <2>1, <2>14 DEF GiveUp, Raise, Ended, Packing
  <2>15. CASE Interrupt
    BY <2>1, <2>15 DEF Interrupt, Raise, Ended, Packing
  <2>16. CASE Die
    BY <2>1, <2>16 DEF Die, Ended, Packing
  <2>17. ASSUME NEW f \in Live, NEW c \in Held, Change(f, c) PROVE PackInv'
    BY <2>17 DEF Change, PackInv, PackIsTrue, RestoreIsTrue, Promised, Packing, Staged, work
  <2>18. CASE Rot
    <3>1. pack' \in Rotten(pack) /\ pc' = "idle" /\ restored' = restored
      BY <2>18 DEF Rot
    <3>2. /\ pack'.published = pack.published
          /\ pack'.sealed = pack.sealed
          /\ pack'.hints = pack.hints
          /\ pack' \in [published : {pack'.published}, intact : {pack'.intact},
                        count : {pack'.count}, volumes : {pack'.volumes},
                        sealed : {pack'.sealed}, hints : {pack'.hints}]
      BY <3>1 DEF Rotten, PackInv
    <3> QED BY <3>1, <3>2 DEF PackInv, PackIsTrue, RestoreIsTrue, Promised, Packing
  <2>19. CASE Restore
    <3>1. pack.published /\ restored' = Promised(pack) /\ pack' = pack /\ pc' = "idle"
      BY <2>19, CheckedIsTrue DEF Restore
    <3> QED BY <3>1 DEF PackInv, PackIsTrue, RestoreIsTrue, Promised, Packing
  <2>20. CASE UNCHANGED vars
    BY <2>20 DEF vars, PackInv, PackIsTrue, RestoreIsTrue, Promised, Packing, Staged, work
  <2> QED
    BY <2>2, <2>3, <2>4, <2>5, <2>6, <2>7, <2>8, <2>9, <2>10, <2>11, <2>12, <2>13,
       <2>14, <2>15, <2>16, <2>17, <2>18, <2>19, <2>20 DEF Next, Work
<1> QED BY <1>1, <1>2, PTL DEF Spec

(* A published pack holds exactly what its manifest says.                   *)
THEOREM PackAlwaysTrue == Spec => []PackIsTrue
<1>1. PackInv => PackIsTrue
  BY DEF PackInv
<1> QED BY <1>1, PackInvariant, PTL

(* A restore is all of the pack, as hashed, or nothing.                     *)
THEOREM RestoreAlwaysTrue == Spec => []RestoreIsTrue
<1>1. PackInv => RestoreIsTrue
  BY DEF PackInv
<1> QED BY <1>1, PackInvariant, PTL

-----------------------------------------------------------------------------
(* The groups, one after the other.                                        *)

\* Induction over the numbers, for a set.
LEMMA NatSet ==
    ASSUME NEW S, 0 \in S, \A n \in Nat : n \in S => n + 1 \in S
    PROVE  Nat \subseteq S
<1> SUFFICES ASSUME Nat \ S # {} PROVE FALSE
  OBVIOUS
<1>1. PICK x \in Nat \ S : \A y \in Nat \ S : ~ (<<y, x>> \in OpToRel(<, Nat))
  <2> DEFINE T == Nat \ S
  <2>1. T \subseteq Nat /\ T # {}
    OBVIOUS
  <2> HIDE DEF T
  <2>2. \E x \in T : \A y \in T : ~ (<<y, x>> \in OpToRel(<, Nat))
    BY <2>1, WFMin, NatLessThanWellFounded
  <2> QED BY <2>2 DEF T
<1>2. x # 0 /\ x - 1 \in Nat /\ x - 1 < x
  OBVIOUS
<1>3. x - 1 \in S
  BY <1>1, <1>2 DEF OpToRel
<1>4. (x - 1) + 1 \in S
  BY <1>2, <1>3
<1> QED BY <1>2, <1>4

\* The recursion of FlattenSeq, for the first n sequences.
FlatStep(g, ss, i) == IF i = 1 THEN ss[i] ELSE g[i - 1] \o ss[i]
Flat(g, ss, n) == g = [i \in 1..n |-> FlatStep(g, ss, i)]

LEMMA FlattenIs ==
    ASSUME NEW ss
    PROVE  FlattenSeq(ss) = IF Len(ss) = 0 THEN ss
                            ELSE (CHOOSE g : Flat(g, ss, Len(ss)))[Len(ss)]
  BY Zenon DEF FlattenSeq, Flat, FlatStep

LEMMA FlatExists ==
    ASSUME NEW ss, NEW n \in Nat
    PROVE  \E g : Flat(g, ss, n)
<1> DEFINE N == {k \in Nat : \E g : Flat(g, ss, k)}
<1>1. 0 \in N
  <2> DEFINE g == [i \in 1..0 |-> <<>>]
  <2>1. Flat(g, ss, 0)
    BY DEF Flat
  <2> HIDE DEF g
  <2> QED BY <2>1
<1>2. ASSUME NEW k \in Nat, k \in N PROVE k + 1 \in N
  <2>1. PICK g : Flat(g, ss, k)
    BY <1>2
  <2> DEFINE h == [i \in 1..(k + 1) |-> FlatStep(g, ss, i)]
  <2>2. \A i \in 1..k : g[i] = FlatStep(g, ss, i)
    BY <2>1 DEF Flat
  <2>3. \A i \in 1..k : h[i] = g[i]
    BY <2>2
  <2>4. \A i \in 1..(k + 1) : i # 1 => i - 1 \in 1..k
    OBVIOUS
  <2>5. \A i \in 1..(k + 1) : FlatStep(h, ss, i) = FlatStep(g, ss, i)
    <3> HIDE DEF h
    <3> TAKE i \in 1..(k + 1)
    <3>1. i # 1 => h[i - 1] = g[i - 1]
      BY <2>3, <2>4
    <3> QED BY <3>1 DEF FlatStep
  <2>6. Flat(h, ss, k + 1)
    BY <2>5 DEF Flat
  <2> HIDE DEF h
  <2> QED BY <2>6
<1> HIDE DEF N
<1>3. n \in N
  BY <1>1, <1>2, NatSet
<1> QED BY <1>3 DEF N

LEMMA FlatsAgree ==
    ASSUME NEW ss, NEW tt, NEW n \in Nat, \A i \in 1..n : ss[i] = tt[i],
           NEW m \in Nat, n =< m, NEW g, Flat(g, ss, n), NEW h, Flat(h, tt, m)
    PROVE  \A i \in 1..n : g[i] = h[i]
<1> DEFINE N == {k \in Nat : \A i \in 1..n : i =< k => g[i] = h[i]}
<1>1. /\ \A i \in 1..n : g[i] = FlatStep(g, ss, i)
      /\ \A i \in 1..m : h[i] = FlatStep(h, tt, i)
  BY DEF Flat
<1>2. 0 \in N
  OBVIOUS
<1>3. ASSUME NEW k \in Nat, k \in N PROVE k + 1 \in N
  <2> SUFFICES ASSUME NEW i \in 1..n, i = k + 1 PROVE g[i] = h[i]
    BY <1>3
  <2>1. i # 1 => g[i - 1] = h[i - 1]
    BY <1>3
  <2> QED BY <1>1, <2>1 DEF FlatStep
<1> HIDE DEF N
<1>4. n \in N
  BY <1>2, <1>3, NatSet
<1> QED BY <1>4 DEF N

LEMMA FlattenLast ==
    ASSUME NEW ss, NEW n \in Nat, Len(ss) = n, n # 0, NEW g, Flat(g, ss, n)
    PROVE  FlattenSeq(ss) = g[n]
<1>1. Flat(CHOOSE f : Flat(f, ss, n), ss, n)
  OBVIOUS
<1> DEFINE a == CHOOSE f : Flat(f, ss, n)
<1>2. FlattenSeq(ss) = a[n]
  BY FlattenIs
<1> HIDE DEF a
<1>3. a[n] = g[n]
  BY <1>1, FlatsAgree DEF a
<1> QED BY <1>2, <1>3

LEMMA FlattenNone == FlattenSeq(<<>>) = <<>>
<1>1. Len(<<>>) = 0
  OBVIOUS
<1> QED BY <1>1, FlattenIs

\* Of two sequences the second has one more at its end.
OneMore(ss, all, n, m) ==
    m = n + 1 /\ Len(ss) = n /\ Len(all) = m /\ \A i \in 1..n : ss[i] = all[i]

LEMMA FlattenMore ==
    ASSUME NEW n \in Nat, NEW m \in Nat, NEW ss, NEW all, OneMore(ss, all, n, m)
    PROVE  FlattenSeq(all) = IF n = 0 THEN all[1] ELSE FlattenSeq(ss) \o all[m]
<1>0. m = n + 1 /\ Len(ss) = n /\ Len(all) = m /\ \A i \in 1..n : ss[i] = all[i]
  BY DEF OneMore
<1>1. PICK g : Flat(g, ss, n)
  BY FlatExists
<1>2. PICK h : Flat(h, all, m)
  BY FlatExists
<1>3. FlattenSeq(all) = h[m]
  BY <1>0, <1>2, FlattenLast
<1>4. h[m] = FlatStep(h, all, m)
  BY <1>0, <1>2 DEF Flat
<1>5. CASE n = 0
  BY <1>0, <1>3, <1>4, <1>5 DEF FlatStep
<1>6. CASE n # 0
  <2>1. n =< m
    BY <1>0
  <2>2. \A i \in 1..n : g[i] = h[i]
    BY <1>0, <1>1, <1>2, <2>1, FlatsAgree
  <2>3. n \in 1..n /\ m # 1 /\ m - 1 = n
    BY <1>0, <1>6
  <2>4. FlattenSeq(ss) = g[n]
    BY <1>0, <1>1, <1>6, FlattenLast
  <2>5. h[m] = h[n] \o all[m]
    BY <1>4, <2>3 DEF FlatStep
  <2> QED BY <1>3, <1>6, <2>2, <2>3, <2>4, <2>5
<1> QED BY <1>5, <1>6

LEMMA FlattenAppend ==
    ASSUME NEW S, NEW ss \in Seq(Seq(S)), NEW s \in Seq(S)
    PROVE  FlattenSeq(Append(ss, s)) = FlattenSeq(ss) \o s
<1> DEFINE n == Len(ss)
           all == Append(ss, s)
<1>1. /\ n \in Nat /\ n + 1 \in Nat /\ Len(all) = n + 1 /\ all[n + 1] = s
      /\ \A i \in 1..n : ss[i] = all[i]
  OBVIOUS
<1>2. FlattenSeq(all) = IF n = 0 THEN all[1] ELSE FlattenSeq(ss) \o all[n + 1]
  <2>1. OneMore(ss, all, n, n + 1)
    BY <1>1 DEF OneMore
  <2>2. n \in Nat /\ n + 1 \in Nat
    BY <1>1
  <2>3. \A a, b : OneMore(a, b, n, n + 1) =>
           FlattenSeq(b) = IF n = 0 THEN b[1] ELSE FlattenSeq(a) \o b[n + 1]
    <3> HIDE DEF n, all
    <3> QED BY <2>2, FlattenMore, Zenon
  <2> HIDE DEF n, all
  <2> QED BY <2>1, <2>3
<1>3. CASE n = 0
  <2>1. ss = <<>> /\ all[1] = s
    BY <1>1, <1>3
  <2> QED BY <1>2, <1>3, <2>1, FlattenNone, ConcatEmptySeq
<1>4. CASE n # 0
  BY <1>1, <1>2, <1>4
<1> QED BY <1>3, <1>4

LEMMA FlattenType ==
    ASSUME NEW S, NEW ss \in Seq(Seq(S))
    PROVE  FlattenSeq(ss) \in Seq(S)
<1> DEFINE N == {n \in Nat : \A tt \in Seq(Seq(S)) : Len(tt) = n => FlattenSeq(tt) \in Seq(S)}
<1>1. 0 \in N
  <2>1. \A tt \in Seq(Seq(S)) : Len(tt) = 0 => tt = <<>>
    OBVIOUS
  <2> QED BY <2>1, FlattenNone
<1>2. ASSUME NEW n \in Nat, n \in N PROVE n + 1 \in N
  <2> SUFFICES ASSUME NEW tt \in Seq(Seq(S)), Len(tt) = n + 1 PROVE FlattenSeq(tt) \in Seq(S)
    OBVIOUS
  <2>1. tt # <<>>
    OBVIOUS
  <2>2. PICK uu \in Seq(Seq(S)), s \in Seq(S) : tt = Append(uu, s)
    BY <2>1, SequenceEmptyOrAppend
  <2>3. Len(uu) = n
    BY <2>2
  <2>4. FlattenSeq(uu) \in Seq(S)
    BY <1>2, <2>3
  <2>5. FlattenSeq(tt) = FlattenSeq(uu) \o s
    BY <2>2, FlattenAppend
  <2> QED BY <2>4, <2>5, ConcatProperties
<1> HIDE DEF N
<1>3. Len(ss) \in N
  BY <1>1, <1>2, NatSet
<1> QED BY <1>3 DEF N

LEMMA FlattenConcat ==
    ASSUME NEW S, NEW ss \in Seq(Seq(S)), NEW rr \in Seq(Seq(S))
    PROVE  FlattenSeq(ss \o rr) = FlattenSeq(ss) \o FlattenSeq(rr)
<1> DEFINE N == {n \in Nat : \A tt \in Seq(Seq(S)) : Len(tt) = n =>
                    FlattenSeq(ss \o tt) = FlattenSeq(ss) \o FlattenSeq(tt)}
<1>1. 0 \in N
  <2>1. \A tt \in Seq(Seq(S)) : Len(tt) = 0 => tt = <<>>
    OBVIOUS
  <2>2. ss \o <<>> = ss
    BY ConcatEmptySeq
  <2>3. FlattenSeq(ss) \o FlattenSeq(<<>>) = FlattenSeq(ss)
    BY FlattenNone, FlattenType, ConcatEmptySeq
  <2> QED BY <2>1, <2>2, <2>3
<1>2. ASSUME NEW n \in Nat, n \in N PROVE n + 1 \in N
  <2> SUFFICES ASSUME NEW tt \in Seq(Seq(S)), Len(tt) = n + 1
               PROVE  FlattenSeq(ss \o tt) = FlattenSeq(ss) \o FlattenSeq(tt)
    OBVIOUS
  <2>1. tt # <<>>
    OBVIOUS
  <2>2. PICK uu \in Seq(Seq(S)), s \in Seq(S) : tt = Append(uu, s)
    BY <2>1, SequenceEmptyOrAppend
  <2>3. Len(uu) = n
    BY <2>2
  <2>4. FlattenSeq(ss \o uu) = FlattenSeq(ss) \o FlattenSeq(uu)
    BY <1>2, <2>3
  <2>5. ss \o tt = Append(ss \o uu, s) /\ ss \o uu \in Seq(Seq(S))
    BY <2>2
  <2>6. FlattenSeq(ss \o tt) = FlattenSeq(ss \o uu) \o s
    BY <2>5, FlattenAppend
  <2>7. FlattenSeq(tt) = FlattenSeq(uu) \o s
    BY <2>2, FlattenAppend
  <2>8. (FlattenSeq(ss) \o FlattenSeq(uu)) \o s = FlattenSeq(ss) \o (FlattenSeq(uu) \o s)
    <3>1. FlattenSeq(ss) \in Seq(S) /\ FlattenSeq(uu) \in Seq(S)
      BY <2>2, FlattenType
    <3> QED BY <2>2, <3>1, ConcatAssociative
  <2> QED BY <2>4, <2>6, <2>7, <2>8
<1> HIDE DEF N
<1>3. Len(rr) \in N
  <2>1. Len(rr) \in Nat
    OBVIOUS
  <2> QED BY <1>1, <1>2, <2>1, NatSet
<1> QED BY <1>3 DEF N

LEMMA FlattenFew ==
    ASSUME NEW S, NEW s \in Seq(S), NEW t \in Seq(S)
    PROVE  FlattenSeq(<<s>>) = s /\ FlattenSeq(<<s, t>>) = s \o t
<1>1. <<s>> = Append(<<>>, s) /\ <<s, t>> = Append(<<s>>, t)
  OBVIOUS
<1>2. <<>> \in Seq(Seq(S)) /\ <<s>> \in Seq(Seq(S)) /\ <<>> \o s = s
  OBVIOUS
<1>3. FlattenSeq(<<s>>) = s
  BY <1>1, <1>2, FlattenNone, FlattenAppend
<1> QED BY <1>1, <1>2, <1>3, FlattenAppend

\* Where a sequence is in the whole.
LEMMA FlattenHolds ==
    ASSUME NEW S, NEW ss \in Seq(Seq(S)), NEW i \in DOMAIN ss
    PROVE  \E k \in Nat : \A j \in DOMAIN ss[i] :
              /\ k + j \in DOMAIN FlattenSeq(ss)
              /\ FlattenSeq(ss)[k + j] = ss[i][j]
<1> DEFINE a == SubSeq(ss, 1, i - 1)
           b == SubSeq(ss, i + 1, Len(ss))
           x == FlattenSeq(a)
           y == FlattenSeq(b)
<1>0. i \in 1..Len(ss) /\ Len(ss) \in Nat /\ ss[i] \in Seq(S)
  OBVIOUS
<1>1. a \in Seq(Seq(S)) /\ b \in Seq(Seq(S)) /\ <<ss[i]>> \in Seq(Seq(S))
  OBVIOUS
<1>2. ss = (a \o <<ss[i]>>) \o b
  <2>1. a \o <<ss[i]>> = SubSeq(ss, 1, i)
    BY <1>0, SubSeqRecursiveSecond
  <2>2. SubSeq(ss, 1, i) \o b = SubSeq(ss, 1, Len(ss))
    <3>1. 1 \in 1..(Len(ss) + 1) /\ i \in (1 - 1)..Len(ss) /\ Len(ss) \in i..Len(ss)
      BY <1>0
    <3> QED BY <3>1, ConcatAdjacentSubSeq
  <2> QED BY <2>1, <2>2, SubSeqFull
<1>3. FlattenSeq(ss) = (x \o ss[i]) \o y
  <2> DEFINE one == <<ss[i]>>
  <2> HIDE DEF a, b, one
  <2>1. FlattenSeq(a \o one) = x \o FlattenSeq(one)
    BY <1>1, FlattenConcat DEF one
  <2>2. FlattenSeq(one) = ss[i]
    BY <1>0, FlattenFew DEF one
  <2>3. a \o one \in Seq(Seq(S))
    BY <1>1 DEF one
  <2>4. FlattenSeq((a \o one) \o b) = FlattenSeq(a \o one) \o y
    BY <1>1, <2>3, FlattenConcat
  <2> QED BY <1>2, <2>1, <2>2, <2>4 DEF one
<1>4. x \in Seq(S) /\ y \in Seq(S)
  BY <1>1, FlattenType
<1> HIDE DEF x, y
<1>5. \A j \in DOMAIN ss[i] : /\ Len(x) + j \in DOMAIN ((x \o ss[i]) \o y)
                              /\ ((x \o ss[i]) \o y)[Len(x) + j] = ss[i][j]
  <2> DEFINE s == ss[i]
  <2>1. s \in Seq(S)
    OBVIOUS
  <2> HIDE DEF s
  <2>2. \A j \in DOMAIN s : /\ Len(x) + j \in DOMAIN ((x \o s) \o y)
                            /\ ((x \o s) \o y)[Len(x) + j] = s[j]
    BY <1>4, <2>1
  <2> QED BY <2>2 DEF s
<1>6. Len(x) \in Nat
  BY <1>4
<1> QED BY <1>3, <1>5, <1>6

-----------------------------------------------------------------------------
(* The groups that the entries are put into.                               *)

LEMMA PlaceKeeps ==
    ASSUME NEW gs \in Seq(Seq(Entry)), NEW e \in Entry
    PROVE  /\ Place(gs, e) \in Seq(Seq(Entry))
           /\ FlattenSeq(Place(gs, e)) = FlattenSeq(gs) \o <<e>>
<1>1. CASE Place(gs, e) = Append(gs, <<e>>)
  <2>1. <<e>> \in Seq(Entry)
    OBVIOUS
  <2>2. Append(gs, <<e>>) \in Seq(Seq(Entry))
    BY <2>1, AppendProperties
  <2>3. FlattenSeq(Append(gs, <<e>>)) = FlattenSeq(gs) \o <<e>>
    BY <2>1, FlattenAppend
  <2> QED BY <1>1, <2>2, <2>3
<1>2. CASE gs # <<>> /\ Place(gs, e) = [gs EXCEPT ![Len(gs)] = Append(@, e)]
  <2>1. PICK fs \in Seq(Seq(Entry)), g \in Seq(Entry) : gs = Append(fs, g)
    BY <1>2, SequenceEmptyOrAppend
  <2> DEFINE n == Len(fs)
             h == Append(g, e)
  <2>2. n \in Nat /\ Len(gs) = n + 1 /\ gs[n + 1] = g /\ h \in Seq(Entry)
    BY <2>1
  <2>3. Place(gs, e) = [gs EXCEPT ![n + 1] = h]
    BY <1>2, <2>2
  <2>4. [gs EXCEPT ![n + 1] = h] = Append(fs, h)
    <3> DEFINE a == [gs EXCEPT ![n + 1] = h]
               b == Append(fs, h)
    <3>1. /\ a \in Seq(Seq(Entry)) /\ Len(a) = n + 1
          /\ \A j \in 1..(n + 1) : a[j] = IF j = n + 1 THEN h ELSE gs[j]
      <4>1. n + 1 \in 1..Len(gs)
        BY <2>2
      <4> HIDE DEF h
      <4> QED BY <2>2, <4>1, ExceptSeq
    <3>2. /\ b \in Seq(Seq(Entry)) /\ Len(b) = n + 1 /\ b[n + 1] = h
          /\ \A j \in 1..n : b[j] = fs[j]
      <4> HIDE DEF h
      <4> QED BY <2>2, AppendProperties
    <3>3. \A j \in 1..n : gs[j] = fs[j]
      BY <2>1
    <3> HIDE DEF a, b, h, n
    <3>4. \A j \in 1..(n + 1) : a[j] = b[j]
      BY <2>2, <3>1, <3>2, <3>3
    <3> QED BY <3>1, <3>2, <3>4, SeqEqual DEF a, b
  <2>5. FlattenSeq(Append(fs, h)) = FlattenSeq(fs) \o h
    BY <2>2, FlattenAppend
  <2>6. FlattenSeq(gs) = FlattenSeq(fs) \o g
    BY <2>1, FlattenAppend
  <2>7. FlattenSeq(fs) \o h = (FlattenSeq(fs) \o g) \o <<e>>
    <3>1. FlattenSeq(fs) \in Seq(Entry) /\ <<e>> \in Seq(Entry)
      BY FlattenType
    <3>2. h = g \o <<e>>
      BY AppendIsConcat
    <3> HIDE DEF h
    <3> QED BY <3>1, <3>2, ConcatAssociative
  <2>8. Append(fs, h) \in Seq(Seq(Entry))
    BY <2>2, AppendProperties
  <2> HIDE DEF h, n
  <2> QED BY <2>3, <2>4, <2>5, <2>6, <2>7, <2>8
<1> QED BY <1>1, <1>2 DEF Place

LEMMA MaxIs ==
    ASSUME NEW n \in Nat, NEW s \in SUBSET (1..n), s # {}
    PROVE  Max(s) \in s /\ \A y \in s : Max(s) >= y
<1> DEFINE N == {k \in Nat : \A t \in SUBSET (1..k) : t # {} => \E x \in t : \A y \in t : x >= y}
<1>1. 0 \in N
  <2>1. \A t \in SUBSET (1..0) : t = {}
    OBVIOUS
  <2> QED BY <2>1
<1>2. ASSUME NEW k \in Nat, k \in N PROVE k + 1 \in N
  <2> SUFFICES ASSUME NEW t \in SUBSET (1..(k + 1)), t # {}
               PROVE  \E x \in t : \A y \in t : x >= y
    OBVIOUS
  <2>1. CASE k + 1 \in t
    BY <2>1
  <2>2. CASE k + 1 \notin t
    <3>1. t \in SUBSET (1..k)
      BY <2>2
    <3> QED BY <1>2, <3>1
  <2> QED BY <2>1, <2>2
<1> HIDE DEF N
<1>3. n \in N
  BY <1>1, <1>2, NatSet
<1>4. \E x \in s : \A y \in s : x >= y
  BY <1>3 DEF N
<1> QED BY <1>4 DEF Max

\* The recursion of FoldLeft.
GroupStep(g, s, es) == IF s = {} THEN <<>> ELSE Place(g[s \ {Max(s)}], es[Max(s)])
Groups(g, S, es) == g = [s \in SUBSET S |-> GroupStep(g, s, es)]

LEMMA GroupedIs ==
    Grouped = (CHOOSE g : Groups(g, DOMAIN entries, entries))[DOMAIN entries]
  BY Zenon DEF Grouped, FoldLeft, MapThenFoldSet, Groups, GroupStep

LEMMA GroupsExist ==
    ASSUME NEW n \in Nat, NEW es
    PROVE  \E g : Groups(g, 1..n, es)
<1> DEFINE N == {k \in Nat : \E g : Groups(g, 1..k, es)}
<1>1. 0 \in N
  <2> DEFINE g == [s \in SUBSET (1..0) |-> <<>>]
  <2>1. \A s \in SUBSET (1..0) : s = {}
    OBVIOUS
  <2>2. Groups(g, 1..0, es)
    BY <2>1 DEF Groups, GroupStep
  <2> HIDE DEF g
  <2> QED BY <2>2
<1>2. ASSUME NEW k \in Nat, k \in N PROVE k + 1 \in N
  <2>1. PICK g : Groups(g, 1..k, es)
    BY <1>2
  <2> DEFINE h == [s \in SUBSET (1..(k + 1)) |-> GroupStep(g, s, es)]
  <2>2. ASSUME NEW s \in SUBSET (1..(k + 1)) PROVE GroupStep(h, s, es) = GroupStep(g, s, es)
    <3>1. CASE s = {}
      BY <3>1 DEF GroupStep
    <3>2. CASE s # {}
      <4> DEFINE r == s \ {Max(s)}
      <4>1. r \in SUBSET (1..k)
        <5>1. Max(s) \in s /\ \A y \in s : Max(s) >= y
          <6> DEFINE m == k + 1
          <6>1. m \in Nat /\ s \in SUBSET (1..m)
            OBVIOUS
          <6> HIDE DEF m
          <6> QED BY <3>2, <6>1, MaxIs
        <5>2. k + 1 \notin r
          <6> SUFFICES ASSUME k + 1 \in s PROVE Max(s) = k + 1
            OBVIOUS
          <6>1. Max(s) >= k + 1 /\ Max(s) \in 1..(k + 1)
            BY <5>1
          <6> DEFINE m == Max(s)
          <6>2. m >= k + 1 /\ m \in 1..(k + 1)
            BY <6>1
          <6> HIDE DEF m
          <6>3. m = k + 1
            BY <6>2
          <6> QED BY <6>3 DEF m
        <5>3. r \subseteq 1..(k + 1)
          OBVIOUS
        <5> HIDE DEF r
        <5> QED BY <5>2, <5>3
      <4>2. g[r] = GroupStep(g, r, es)
        BY <2>1, <4>1 DEF Groups
      <4>3. h[r] = GroupStep(g, r, es)
        BY <4>1
      <4> HIDE DEF h
      <4> QED BY <4>2, <4>3 DEF GroupStep
    <3> QED BY <3>1, <3>2
  <2>3. Groups(h, 1..(k + 1), es)
    BY <2>2 DEF Groups
  <2> HIDE DEF h
  <2> QED BY <2>3
<1> HIDE DEF N
<1>3. n \in N
  BY <1>1, <1>2, NatSet
<1> QED BY <1>3 DEF N

\* However they are cut, the groups are the entries, one after the other.
LEMMA GroupedKeeps ==
    ASSUME entries \in Seq(Entry)
    PROVE  Grouped \in Seq(Seq(Entry)) /\ FlattenSeq(Grouped) = entries
<1> DEFINE n == Len(entries)
<1>1. n \in Nat /\ DOMAIN entries = 1..n
  OBVIOUS
<1>2. \E g : Groups(g, 1..n, entries)
  <2> HIDE DEF n
  <2> QED BY <1>1, GroupsExist
<1> DEFINE g == CHOOSE f : Groups(f, 1..n, entries)
<1>3. Groups(g, 1..n, entries)
  BY <1>2
<1>4. Grouped = g[1..n]
  BY <1>1, GroupedIs
<1> HIDE DEF g
<1>5. \A s \in SUBSET (1..n) : g[s] = GroupStep(g, s, entries)
  BY <1>3 DEF Groups
<1> DEFINE OK(k) == g[1..k] \in Seq(Seq(Entry)) /\ FlattenSeq(g[1..k]) = SubSeq(entries, 1, k)
           N == {k \in Nat : k =< n => OK(k)}
<1>6. 0 \in N
  <2>1. 1..0 = {} /\ 1..0 \in SUBSET (1..n)
    OBVIOUS
  <2>2. g[1..0] = <<>>
    BY <1>5, <2>1 DEF GroupStep
  <2>3. SubSeq(entries, 1, 0) = <<>>
    BY SubSeqEmpty
  <2>4. g[1..0] \in Seq(Seq(Entry)) /\ FlattenSeq(g[1..0]) = <<>>
    BY <2>2, FlattenNone
  <2> QED BY <2>3, <2>4
<1>7. ASSUME NEW k \in Nat, k \in N PROVE k + 1 \in N
  <2> SUFFICES ASSUME k + 1 =< n PROVE OK(k + 1)
    OBVIOUS
  <2> DEFINE s == 1..(k + 1)
  <2>1. OK(k)
    BY <1>1, <1>7
  <2>2. Max(s) = k + 1
    <3> DEFINE m == Max(s)
    <3>1. m \in s /\ \A y \in s : m >= y
      <4>1. k + 1 \in s /\ k + 1 \in Nat
        OBVIOUS
      <4>2. s \in SUBSET (1..(k + 1)) /\ s # {}
        BY <4>1
      <4> HIDE DEF s
      <4> QED BY <4>1, <4>2, MaxIs
    <3> HIDE DEF m
    <3>2. m >= k + 1
      BY <3>1
    <3>3. m = k + 1
      BY <3>1, <3>2
    <3> QED BY <3>3 DEF m
  <2>3. s \in SUBSET (1..n) /\ s # {} /\ s \ {k + 1} = 1..k
    <3> HIDE DEF n
    <3>1. s \in SUBSET (1..n)
      BY <1>1
    <3>2. k + 1 \in s
      OBVIOUS
    <3>3. s \ {k + 1} = 1..k
      OBVIOUS
    <3> QED BY <3>1, <3>2, <3>3
  <2>4. g[s] = Place(g[1..k], entries[k + 1])
    BY <1>5, <2>2, <2>3 DEF GroupStep
  <2>5. entries[k + 1] \in Entry
    BY <1>1
  <2>6. SubSeq(entries, 1, k + 1) = SubSeq(entries, 1, k) \o <<entries[k + 1]>>
    <3>1. 1 \in 1..n /\ k + 1 \in 1..n /\ (k + 1) - 1 = k
      BY <1>1
    <3> QED BY <3>1, SubSeqRecursiveSecond
  <2> HIDE DEF s, n
  <2> QED BY <2>1, <2>4, <2>5, <2>6, PlaceKeeps DEF s
<1> HIDE DEF N
<1>8. n \in N
  BY <1>1, <1>6, <1>7, NatSet
<1>9. OK(n)
  BY <1>1, <1>8 DEF N
<1> QED BY <1>4, <1>9, SubSeqFull

-----------------------------------------------------------------------------
(* The list of the files.                                                  *)

LEMMA Largest ==
    ASSUME NEW S, IsFiniteSet(S), S \subseteq Nat, S # {}
    PROVE  \E m \in S : \A x \in S : x =< m
<1> DEFINE N == {n \in Nat : \A T \in SUBSET S : Cardinality(T) = n /\ T # {} =>
                                \E m \in T : \A x \in T : x =< m}
<1>0. \A T \in SUBSET S : IsFiniteSet(T) /\ Cardinality(T) \in Nat
  BY FS_Subset, FS_CardinalityType
<1>1. 0 \in N
  BY <1>0, FS_EmptySet
<1>2. ASSUME NEW n \in Nat, n \in N PROVE n + 1 \in N
  <2> SUFFICES ASSUME NEW T \in SUBSET S, Cardinality(T) = n + 1, T # {}
               PROVE  \E m \in T : \A x \in T : x =< m
    OBVIOUS
  <2>1. PICK y \in T : TRUE
    OBVIOUS
  <2> DEFINE R == T \ {y}
  <2>2. Cardinality(R) = n
    BY <1>0, FS_RemoveElement
  <2>3. CASE R = {}
    BY <2>3
  <2>4. CASE R # {}
    <3>1. PICK m \in R : \A x \in R : x =< m
      BY <1>2, <2>2, <2>4
    <3>2. CASE y =< m
      BY <3>1, <3>2
    <3>3. CASE m =< y
      <4>1. \A x \in T : x =< y
        BY <3>1, <3>3
      <4> QED BY <4>1
    <3>4. y \in Nat /\ m \in Nat
      OBVIOUS
    <3> HIDE DEF R
    <3> QED BY <3>2, <3>3, <3>4
  <2> QED BY <2>3, <2>4
<1> HIDE DEF N
<1>3. Cardinality(S) \in N
  BY <1>0, <1>1, <1>2, NatSet
<1> QED BY <1>3 DEF N

LEMMA CanBeSorted ==
    ASSUME NEW S, IsFiniteSet(S), S \subseteq Nat
    PROVE  \E s \in SetToSeqs(S) : Sorted(s)
<1> DEFINE OK(T) == \E s \in [1..Cardinality(T) -> T] : Sorted(s)
           N == {n \in Nat : \A T \in SUBSET S : Cardinality(T) = n => OK(T)}
<1>0. \A T \in SUBSET S : IsFiniteSet(T) /\ Cardinality(T) \in Nat
  BY FS_Subset, FS_CardinalityType
<1>1. 0 \in N
  <2> SUFFICES ASSUME NEW T \in SUBSET S, Cardinality(T) = 0
               PROVE  \E s \in [1..0 -> T] : Sorted(s)
    OBVIOUS
  <2> DEFINE s == [i \in 1..0 |-> 0]
  <2>1. s \in [1..0 -> T] /\ Sorted(s)
    BY DEF Sorted
  <2> HIDE DEF s
  <2> QED BY <2>1
<1>2. ASSUME NEW n \in Nat, n \in N PROVE n + 1 \in N
  <2> SUFFICES ASSUME NEW T \in SUBSET S, Cardinality(T) = n + 1
               PROVE  \E s \in [1..(n + 1) -> T] : Sorted(s)
    OBVIOUS
  <2>1. T # {} /\ IsFiniteSet(T) /\ T \subseteq Nat
    BY <1>0, FS_EmptySet
  <2>2. PICK m \in T : \A x \in T : x =< m
    BY <2>1, Largest
  <2> DEFINE R == T \ {m}
  <2>3. Cardinality(R) = n
    <3>1. Cardinality(R) = Cardinality(T) - 1
      BY <2>1, FS_RemoveElement
    <3> QED BY <3>1
  <2>4. PICK t \in [1..n -> R] : Sorted(t)
    BY <1>2, <2>3
  <2> DEFINE s == [i \in 1..(n + 1) |-> IF i = n + 1 THEN m ELSE t[i]]
  <2>5. \A i \in 1..n : t[i] \in T /\ t[i] < m
    <3> TAKE i \in 1..n
    <3>1. t[i] \in T /\ t[i] # m
      BY <2>4
    <3>2. t[i] \in Nat /\ m \in Nat /\ t[i] =< m
      BY <2>1, <2>2, <3>1
    <3> QED BY <3>1, <3>2
  <2>6. \A i \in 1..n : s[i] = t[i]
    OBVIOUS
  <2>7. s[n + 1] = m
    OBVIOUS
  <2>8. \A i \in 1..(n + 1) : i \in 1..n \/ i = n + 1
    OBVIOUS
  <2>9. s \in [1..(n + 1) -> T]
    BY <2>5
  <2> HIDE DEF s
  <2>10. ASSUME NEW i \in 1..(n + 1), NEW j \in 1..(n + 1), i < j PROVE s[i] < s[j]
    <3>1. i \in 1..n
      BY <2>10
    <3>2. CASE j \in 1..n
      BY <2>4, <2>6, <2>10, <3>1, <3>2 DEF Sorted
    <3>3. CASE j = n + 1
      BY <2>5, <2>6, <2>7, <3>1, <3>3
    <3> QED BY <2>8, <3>2, <3>3
  <2>11. Sorted(s)
    BY <2>9, <2>10 DEF Sorted
  <2> QED BY <2>9, <2>11
<1> HIDE DEF N
<1>3. Cardinality(S) \in N
  BY <1>0, <1>1, <1>2, NatSet
<1>4. PICK s \in [1..Cardinality(S) -> S] : Sorted(s)
  BY <1>3 DEF N
<1>5. \A i, j \in 1..Cardinality(S) : i # j => s[i] # s[j]
  <2> SUFFICES ASSUME NEW i \in 1..Cardinality(S), NEW j \in 1..Cardinality(S), i # j
               PROVE  s[i] # s[j]
    OBVIOUS
  <2>1. i < j \/ j < i
    BY <1>0
  <2>2. s[i] \in Nat /\ s[j] \in Nat
    BY <1>4
  <2> QED BY <1>4, <2>1, <2>2 DEF Sorted
<1>6. s \in SetToSeqs(S)
  BY <1>4, <1>5 DEF SetToSeqs
<1> QED BY <1>4, <1>6

LEMMA PresentIs == Present \in Seq(Files) /\ IsInjective(Present)
<1> DEFINE S == {f \in Files : src[f] # Gone}
<1>1. IsFiniteSet(S) /\ S \subseteq Nat /\ Cardinality(S) \in Nat
  BY ArchiveAssumption, FS_Subset, FS_CardinalityType
<1> HIDE DEF S
<1>2. Present \in SetToSeqs(S)
  BY <1>1, CanBeSorted DEF Present, S
<1>3. /\ Present \in [1..Cardinality(S) -> S]
      /\ \A i, j \in 1..Cardinality(S) : i # j => Present[i] # Present[j]
  BY <1>2 DEF SetToSeqs
<1>4. Present \in Seq(S)
  BY <1>1, <1>3
<1>5. S \subseteq Files
  BY DEF S
<1>6. Present \in Seq(Files)
  BY <1>4, <1>5, SeqMonotonic
<1> QED BY <1>3, <1>6 DEF IsInjective

-----------------------------------------------------------------------------
(* Types, and nothing dropped.                                             *)

LEMMA RottenType ==
    ASSUME TypeOK, PackInv, NEW q \in Rotten(pack)
    PROVE  /\ q.published = pack.published /\ q.intact \in BOOLEAN /\ q.count = pack.count
           /\ q.hints = pack.hints /\ q.sealed = pack.sealed
           /\ q.volumes \in Seq(Seq(Member))
<1>1. pack \in [published : {pack.published}, intact : {pack.intact},
                count : {pack.count}, volumes : {pack.volumes},
                sealed : {pack.sealed}, hints : {pack.hints}]
  BY DEF PackInv
<1> DEFINE v == pack.volumes
<1>2. v \in Seq(Seq(Member)) /\ pack.intact \in BOOLEAN
  BY DEF TypeOK
<1>3. CASE q = [pack EXCEPT !.intact = FALSE]
  BY <1>1, <1>2, <1>3
<1>4. ASSUME NEW i \in DOMAIN v, q = [pack EXCEPT !.volumes = RemoveAt(@, i)]
      PROVE  /\ q.published = pack.published /\ q.intact \in BOOLEAN /\ q.count = pack.count
             /\ q.hints = pack.hints /\ q.sealed = pack.sealed
             /\ q.volumes \in Seq(Seq(Member))
  <2>1. RemoveAt(v, i) \in Seq(Seq(Member))
    <3>1. /\ SubSeq(v, 1, i - 1) \in Seq(Seq(Member))
          /\ SubSeq(v, i + 1, Len(v)) \in Seq(Seq(Member))
      BY <1>2
    <3> HIDE DEF v
    <3> QED BY <3>1, ConcatProperties DEF RemoveAt
  <2> QED BY <1>1, <1>2, <1>4, <2>1
<1>5. ASSUME NEW i \in DOMAIN v, NEW j \in DOMAIN v[i], NEW d \in Data,
             q = [pack EXCEPT !.volumes[i][j].data = d]
      PROVE  /\ q.published = pack.published /\ q.intact \in BOOLEAN /\ q.count = pack.count
             /\ q.hints = pack.hints /\ q.sealed = pack.sealed
             /\ q.volumes \in Seq(Seq(Member))
  <2> DEFINE x == [v[i][j] EXCEPT !.data = d]
             w == [v[i] EXCEPT ![j] = x]
  <2>1. v[i] \in Seq(Member) /\ v[i][j] \in Member
    BY <1>2
  <2>2. x \in Member
    BY <2>1 DEF Member
  <2>3. w \in Seq(Member)
    <3> HIDE DEF x
    <3> QED BY <2>1, <2>2
  <2>4. [v EXCEPT ![i] = w] \in Seq(Seq(Member))
    <3> HIDE DEF w
    <3> QED BY <1>2, <2>3
  <2>5. q = [pack EXCEPT !.volumes = [v EXCEPT ![i] = w]]
    BY <1>5
  <2> HIDE DEF w
  <2> QED BY <1>1, <1>2, <2>4, <2>5
<1> QED BY <1>3, <1>4, <1>5 DEF Rotten

LEMMA HalvesKeep ==
    ASSUME NEW g \in Seq(Entry)
    PROVE  Halves(g) \in Seq(Seq(Entry)) /\ FlattenSeq(Halves(g)) = g
<1> DEFINE n == Len(g)
           k == n \div 2
           a == SubSeq(g, 1, k)
           b == SubSeq(g, k + 1, n)
<1>1. n \in Nat /\ k \in 0..n
  <2>1. n \in Nat
    OBVIOUS
  <2> HIDE DEF n
  <2> QED BY <2>1
<1>2. a \in Seq(Entry) /\ b \in Seq(Entry)
  <2> HIDE DEF k
  <2> QED BY <1>1
<1>3. a \o b = g
  <2>1. 1 \in 1..(n + 1) /\ k \in (1 - 1)..n /\ n \in k..n
    BY <1>1
  <2>2. a \o b = SubSeq(g, 1, n)
    <3> HIDE DEF k
    <3> QED BY <2>1, ConcatAdjacentSubSeq
  <2> QED BY <2>2, SubSeqFull
<1>4. Halves(g) = <<a, b>>
  BY DEF Halves
<1>5. <<a, b>> \in Seq(Seq(Entry))
  <2> HIDE DEF a, b
  <2> QED BY <1>2
<1> HIDE DEF a, b
<1>6. FlattenSeq(<<a, b>>) = a \o b
  BY <1>2, FlattenFew
<1> QED BY <1>3, <1>4, <1>5, <1>6

LEMMA NextIs ==
    ASSUME TypeOK, Incomplete
    PROVE  /\ Head(groups) \in Seq(Entry)
           /\ Len(writing) \in Nat
           /\ Len(writing) + 1 \in DOMAIN Head(groups)
           /\ Head(groups)[Len(writing) + 1] \in Entry
           /\ NextMember \in Files
<1> DEFINE g == Head(groups)
<1>1. g \in Seq(Entry) /\ Len(writing) < Len(g) /\ Len(writing) \in Nat
  BY DEF Incomplete, TypeOK
<1> HIDE DEF g
<1>2. Len(writing) + 1 \in DOMAIN g /\ g[Len(writing) + 1] \in Entry
  BY <1>1
<1>3. NextMember \in Files
  BY <1>2 DEF NextMember, Entry, g
<1> QED BY <1>1, <1>2, <1>3 DEF g

LEMMA TypeStep ==
    ASSUME TypeOK, KeptInv, PackInv, [Next]_vars PROVE TypeOK'
<1> USE DEF TypeOK
<1>a. ASSUME Ended PROVE /\ pc' = "idle" /\ files' = <<>> /\ entries' = <<>> /\ groups' = <<>>
                         /\ info' = 0 /\ writing' = <<>> /\ hints' = <<>> /\ touched' = FALSE
                         /\ UNCHANGED <<src, restored>>
  BY <1>a DEF Ended
<1>b. /\ <<>> \in Seq(Files) /\ <<>> \in Seq(Entry) /\ <<>> \in Seq(Member)
      /\ <<>> \in Seq(Seq(Entry)) /\ <<>> \in Seq(Seq(Member))
  OBVIOUS
<1>1. ASSUME NEW n \in 0..Len(Present), Start(n) PROVE TypeOK'
  <2>1. Present \in Seq(Files)
    BY PresentIs
  <2>2. SubSeq(Present, 1, n) \in Seq(Files)
    BY <2>1
  <2> QED BY <1>1, <2>2 DEF Start
<1>2. CASE StatFile
  <2> DEFINE f == Head(files)
             e == [file |-> f, size |-> Size[src[f]], sha |-> Gone]
  <2>1. f \in Files /\ src[f] \in Contents
    BY <1>2 DEF StatFile, Held
  <2>2. e \in Entry
    BY <2>1 DEF Entry, Sizes, Held
  <2>3. Append(entries, e) \in Seq(Entry)
    <3> HIDE DEF e
    <3> QED BY <2>2
  <2> QED BY <1>2, <2>3 DEF StatFile
<1>3. CASE HashFile
  <2> DEFINE n == Len(entries)
             c == src[Head(files)]
             e == [entries[n] EXCEPT !.sha = c]
  <2>1. files # <<>> /\ entries # <<>>
    BY <1>3 DEF HashFile, KeptInv
  <2>2. c \in Held /\ n \in DOMAIN entries /\ entries[n] \in Entry /\ Tail(files) \in Seq(Files)
    BY <2>1
  <2>3. e \in Entry
    <3> HIDE DEF c
    <3> QED BY <2>2 DEF Entry
  <2>4. [entries EXCEPT ![n] = e] \in Seq(Entry)
    <3> HIDE DEF e
    <3> QED BY <2>2, <2>3
  <2>5. entries' = [entries EXCEPT ![n] = e]
    BY <1>3 DEF HashFile
  <2> HIDE DEF e
  <2> QED BY <1>3, <2>2, <2>4, <2>5 DEF HashFile
<1>4. CASE Open
  BY <1>b, <1>4, GroupedKeeps DEF Open, Packing
<1>5. CASE Refuse
  BY <1>a, <1>b, <1>5 DEF Refuse
<1>6. CASE TarInfo
  <2>1. NextMember \in Files
    BY <1>6, NextIs DEF TarInfo
  <2>2. Size[src[NextMember]] \in Sizes
    BY <1>6, <2>1 DEF TarInfo, Held, Sizes
  <2> QED BY <1>6, <2>2 DEF TarInfo, Packing
<1>7. CASE AddFile
  <2>1. NextMember \in Files
    BY <1>7, NextIs DEF AddFile, KeptInv
  <2>2. PICK d \in FirstBytes(src[NextMember], info) :
           writing' = Append(writing, [file |-> NextMember, data |-> d])
    BY <1>7 DEF AddFile
  <2>3. d \in Data
    BY <1>7, <2>1, <2>2 DEF AddFile, FirstBytes, Data, Held
  <2> DEFINE x == [file |-> NextMember, data |-> d]
  <2>4. x \in Member
    BY <2>1, <2>3 DEF Member
  <2>5. Append(writing, x) \in Seq(Member)
    <3> HIDE DEF x
    <3> QED BY <2>4
  <2> QED BY <1>7, <2>2, <2>5 DEF AddFile, Packing
<1>8. CASE CloseVolume
  <2>1. groups # <<>>
    BY <1>8 DEF CloseVolume, Complete
  <2>2. Head(groups) \in Seq(Entry) /\ Tail(groups) \in Seq(Seq(Entry))
    BY <2>1
  <2>3. /\ Append(staging, writing) \in Seq(Seq(Member))
        /\ Append(hints, Head(groups)) \in Seq(Seq(Entry))
    BY <2>2, AppendProperties
  <2> QED BY <1>b, <1>8, <2>2, <2>3 DEF CloseVolume
<1>9. CASE Split
  <2>1. groups # <<>>
    BY <1>9 DEF Split, Complete
  <2>2. Head(groups) \in Seq(Entry) /\ Tail(groups) \in Seq(Seq(Entry))
    BY <2>1
  <2>3. Halves(Head(groups)) \o Tail(groups) \in Seq(Seq(Entry))
    BY <2>2, HalvesKeep, ConcatProperties
  <2> QED BY <1>b, <1>9, <2>3 DEF Split
<1>10. CASE Seal
  BY <1>10 DEF Seal, work, Packing
<1>11. CASE Check
  BY <1>11 DEF Check, work, Packing
<1>12. CASE Publish
  <2>1. Len(entries) \in Nat
    OBVIOUS
  <2>2. /\ pack'.published \in BOOLEAN /\ pack'.intact \in BOOLEAN /\ pack'.count \in Nat
        /\ pack'.volumes \in Seq(Seq(Member)) /\ pack'.sealed \in Seq(Seq(Member))
        /\ pack'.hints \in Seq(Seq(Entry))
    BY <1>12, <2>1 DEF Publish, Staged
  <2>3. staged' = FALSE /\ staging' = <<>> /\ Ended
    BY <1>12 DEF Publish
  <2> QED BY <1>a, <1>b, <2>2, <2>3
<1>13. CASE GiveUp \/ Interrupt
  BY <1>a, <1>b, <1>13 DEF GiveUp, Interrupt, Raise
<1>14. CASE Die
  BY <1>a, <1>b, <1>14 DEF Die
<1>15. ASSUME NEW f \in Live, NEW c \in Held, Change(f, c) PROVE TypeOK'
  BY <1>15 DEF Change, work
<1>16. CASE Rot
  BY <1>16, RottenType DEF Rot, work
<1>17. CASE Restore
  <2>1. Extracted(pack.volumes) \subseteq Files \X Data
    <3> DEFINE v == pack.volumes
    <3>1. v \in Seq(Seq(Member))
      OBVIOUS
    <3> HIDE DEF v
    <3>2. \A i \in DOMAIN v : \A x \in ToSet(v[i]) : x \in Member
      BY <3>1 DEF ToSet
    <3>3. \A x \in Member : x.file \in Files /\ x.data \in Data
      BY DEF Member
    <3>4. Extracted(v) \subseteq Files \X Data
      BY <3>2, <3>3 DEF Extracted
    <3> QED BY <3>4 DEF v
  <2> QED BY <1>17, <2>1 DEF Restore, work
<1>18. CASE UNCHANGED vars
  BY <1>18 DEF vars, work
<1> QED
  BY <1>1, <1>2, <1>3, <1>4, <1>5, <1>6, <1>7, <1>8, <1>9, <1>10, <1>11, <1>12, <1>13, <1>14,
     <1>15, <1>16, <1>17, <1>18 DEF Next, Work

\* What the steps that neither cut nor write keep.
LEMMA KeptStep ==
    ASSUME TypeOK, KeptInv, PackInv, [Next]_vars PROVE KeptInv'
<1> DEFINE Names(v) == [j \in DOMAIN v |-> v[j].file]
<1>0. /\ pc \in Packing => /\ FlattenSeq(hints \o groups) = entries
                           /\ Len(staging) = Len(hints)
                           /\ \A i \in DOMAIN staging : Names(staging[i]) = Names(hints[i])
      /\ pack.published => Len(FlattenSeq(pack.hints)) = pack.count
      /\ pc \notin Packing => groups = <<>> /\ hints = <<>> /\ writing = <<>>
      /\ pc = "hash" => files # <<>> /\ entries # <<>>
      /\ pc = "copy" => Incomplete
      /\ pc \in {"check", "publish"} => groups = <<>>
      /\ writing # <<>> => groups # <<>>
      /\ \A j \in DOMAIN writing : writing[j].file = Head(groups)[j].file
  BY DEF KeptInv, NothingDropped
<1>a. /\ files \in Seq(Files) /\ entries \in Seq(Entry) /\ writing \in Seq(Member)
      /\ groups \in Seq(Seq(Entry)) /\ hints \in Seq(Seq(Entry)) /\ staging \in Seq(Seq(Member))
  BY DEF TypeOK
<1>b. "pack" \in Packing /\ "copy" \in Packing /\ {"check", "publish"} \subseteq Packing
      /\ "idle" \notin Packing /\ "stat" \notin Packing /\ "hash" \notin Packing
  BY DEF Packing
\* A run that has ended has nothing left.
<1>c. ASSUME Ended, pack'.published => Len(FlattenSeq(pack'.hints)) = pack'.count PROVE KeptInv'
  <2>1. pc' = "idle" /\ groups' = <<>> /\ hints' = <<>> /\ writing' = <<>>
    BY <1>c DEF Ended
  <2>2. \A j \in DOMAIN writing' : FALSE
    BY <2>1
  <2> QED BY <1>b, <1>c, <2>1, <2>2 DEF KeptInv, NothingDropped
\* Nor has one that has not begun to pack.
<1>d. ASSUME pc' \notin Packing, groups' = <<>>, hints' = <<>>, writing' = <<>>, pack' = pack,
             pc' = "hash" => files' # <<>> /\ entries' # <<>>
      PROVE KeptInv'
  <2>2. \A j \in DOMAIN writing' : FALSE
    BY <1>d
  <2> QED BY <1>0, <1>b, <1>d, <2>2 DEF KeptInv, NothingDropped
\* While it packs, the lists and volumes it has may stay.
<1>e. ASSUME pc \in Packing, pc' \in Packing, pack' = pack,
             UNCHANGED <<entries, groups, hints, staging>>,
             pc' = "copy" => Incomplete',
             pc' \in {"check", "publish"} => groups = <<>>,
             writing' # <<>> => groups # <<>>,
             \A j \in DOMAIN writing' : writing'[j].file = Head(groups)[j].file
      PROVE KeptInv'
  BY <1>0, <1>b, <1>e DEF KeptInv, NothingDropped
<1>1. ASSUME NEW n \in 0..Len(Present), Start(n) PROVE KeptInv'
  BY <1>0, <1>1, <1>b, <1>d DEF Start
<1>2. CASE StatFile
  <2>1. entries' # <<>>
    BY <1>2, <1>a, AppendProperties DEF StatFile
  <2> QED BY <1>0, <1>2, <1>b, <1>d, <2>1 DEF StatFile
<1>3. CASE HashFile
  BY <1>0, <1>3, <1>b, <1>d DEF HashFile
<1>4. CASE Open
  <2>1. /\ pc' = "pack" /\ groups' = Grouped /\ staging' = <<>> /\ hints' = <<>> /\ writing' = <<>>
        /\ UNCHANGED <<entries, pack>>
    BY <1>0, <1>4, <1>b DEF Open
  <2>2. FlattenSeq(hints' \o groups') = entries'
    BY <1>a, <2>1, GroupedKeeps, ConcatEmptySeq
  <2>3. Len(staging') = Len(hints') /\ (\A i \in DOMAIN staging' : FALSE)
        /\ \A i \in DOMAIN writing' : FALSE
    BY <2>1
  <2> QED BY <1>0, <1>b, <2>1, <2>2, <2>3 DEF KeptInv, NothingDropped
<1>5. CASE Refuse
  BY <1>0, <1>5, <1>c DEF Refuse
<1>6. CASE TarInfo
  <2>1. pc = "pack" /\ pc' = "copy" /\ Incomplete
        /\ UNCHANGED <<entries, groups, hints, staging, writing, pack>>
    BY <1>6 DEF TarInfo
  <2>2. Incomplete'
    BY <2>1 DEF Incomplete
  <2> QED BY <1>0, <1>b, <1>e, <2>1, <2>2
<1>7. CASE AddFile
  <2>1. pc = "copy" /\ pc' = "pack" /\ Incomplete
        /\ UNCHANGED <<entries, groups, hints, staging, pack>>
    BY <1>0, <1>7 DEF AddFile
  <2>2. PICK d : writing' = Append(writing, [file |-> NextMember, data |-> d])
    BY <1>7 DEF AddFile
  <2> DEFINE n == Len(writing)
             x == [file |-> NextMember, data |-> d]
  <2>3. n \in Nat /\ DOMAIN Append(writing, x) = 1..(n + 1)
        /\ (\A j \in 1..n : Append(writing, x)[j] = writing[j])
        /\ Append(writing, x)[n + 1] = x /\ DOMAIN writing = 1..n
    <3> HIDE DEF x
    <3> QED BY <1>a
  <2>4. x.file = Head(groups)[n + 1].file
    BY DEF NextMember
  <2> HIDE DEF x, n
  <2>5. \A j \in DOMAIN writing' : writing'[j].file = Head(groups)[j].file
    BY <1>0, <2>2, <2>3, <2>4 DEF x
  <2>6. groups # <<>>
    BY <2>1 DEF Incomplete
  <2> QED BY <1>0, <1>b, <1>e, <2>1, <2>5, <2>6
<1>8. CASE CloseVolume
  <2> DEFINE g == Head(groups)
             t == Tail(groups)
  <2>1. /\ pc = "pack" /\ pc' = "pack" /\ groups # <<>> /\ Len(writing) = Len(g)
        /\ staging' = Append(staging, writing) /\ hints' = Append(hints, g) /\ groups' = t
        /\ writing' = <<>> /\ UNCHANGED <<entries, pack>>
    BY <1>8 DEF CloseVolume, Complete
  <2>2. g \in Seq(Entry) /\ t \in Seq(Seq(Entry)) /\ groups = <<g>> \o t
    BY <1>a, <2>1
  <2> HIDE DEF g, t
  <2>3. Append(hints, g) \o t = hints \o groups
    <3>1. <<g>> \in Seq(Seq(Entry)) /\ Append(hints, g) = hints \o <<g>>
      BY <1>a, <2>2, AppendIsConcat
    <3> QED BY <1>a, <2>2, <3>1, ConcatAssociative
  <2>4. Names(writing) = Names(g)
    <3>1. DOMAIN writing = DOMAIN g
      BY <1>a, <2>1, <2>2
    <3>2. \A j \in DOMAIN writing : writing[j].file = g[j].file
      BY <1>0 DEF g
    <3> QED BY <3>1, <3>2
  <2>5. /\ Len(Append(staging, writing)) = Len(Append(hints, g))
        /\ \A i \in DOMAIN Append(staging, writing) :
              Names(Append(staging, writing)[i]) = Names(Append(hints, g)[i])
    <3> DEFINE n == Len(staging)
    <3>1. n \in Nat /\ Len(hints) = n
      BY <1>0, <1>a, <1>b, <2>1
    <3>2. /\ Len(Append(staging, writing)) = n + 1 /\ Append(staging, writing)[n + 1] = writing
          /\ DOMAIN Append(staging, writing) = 1..(n + 1) /\ DOMAIN staging = 1..n
          /\ \A i \in 1..n : Append(staging, writing)[i] = staging[i]
      BY <1>a
    <3>3. /\ Len(Append(hints, g)) = n + 1 /\ Append(hints, g)[n + 1] = g
          /\ \A i \in 1..n : Append(hints, g)[i] = hints[i]
      BY <1>a, <2>2, <3>1
    <3> HIDE DEF n, Names
    <3>4. \A i \in 1..n : Names(staging[i]) = Names(hints[i])
      BY <1>0, <1>b, <2>1, <3>2
    <3> QED BY <2>4, <3>1, <3>2, <3>3, <3>4
  <2>6. \A i \in DOMAIN writing' : FALSE
    BY <2>1
  <2>7. FlattenSeq(hints' \o groups') = entries'
    BY <1>0, <1>b, <2>1, <2>3
  <2> QED BY <1>0, <1>b, <2>1, <2>5, <2>6, <2>7 DEF KeptInv, NothingDropped
<1>9. CASE Split
  <2> DEFINE g == Head(groups)
             t == Tail(groups)
             h == Halves(g)
  <2>1. /\ pc = "pack" /\ pc' = "pack" /\ groups # <<>>
        /\ groups' = h \o t /\ writing' = <<>> /\ UNCHANGED <<entries, hints, staging, pack>>
    BY <1>9 DEF Split, Complete
  <2>2. g \in Seq(Entry) /\ t \in Seq(Seq(Entry)) /\ groups = <<g>> \o t
    BY <1>a, <2>1
  <2>3. h \in Seq(Seq(Entry)) /\ FlattenSeq(h) = g
    BY <2>2, HalvesKeep
  <2> HIDE DEF g, t, h
  <2>4. FlattenSeq(h \o t) = FlattenSeq(groups)
    <3>1. <<g>> \in Seq(Seq(Entry))
      BY <2>2
    <3>4. FlattenSeq(<<g>>) = g
      BY <2>2, FlattenFew
    <3>2. FlattenSeq(<<g>> \o t) = FlattenSeq(<<g>>) \o FlattenSeq(t)
      BY <2>2, <3>1, FlattenConcat
    <3>3. FlattenSeq(h \o t) = FlattenSeq(h) \o FlattenSeq(t)
      BY <2>2, <2>3, FlattenConcat
    <3> QED BY <2>2, <2>3, <3>2, <3>3, <3>4
  <2>5. FlattenSeq(hints \o (h \o t)) = FlattenSeq(hints \o groups)
    <3>1. h \o t \in Seq(Seq(Entry))
      BY <2>2, <2>3, ConcatProperties
    <3>2. FlattenSeq(hints \o (h \o t)) = FlattenSeq(hints) \o FlattenSeq(h \o t)
      BY <1>a, <3>1, FlattenConcat
    <3>3. FlattenSeq(hints \o groups) = FlattenSeq(hints) \o FlattenSeq(groups)
      BY <1>a, FlattenConcat
    <3> QED BY <2>4, <3>2, <3>3
  <2>6. \A i \in DOMAIN writing' : FALSE
    BY <2>1
  <2>7. FlattenSeq(hints' \o groups') = entries'
    BY <1>0, <1>b, <2>1, <2>5
  <2> QED BY <1>0, <1>b, <2>1, <2>6, <2>7 DEF KeptInv, NothingDropped
<1>10. CASE Seal
  BY <1>0, <1>10, <1>b, <1>e DEF Seal, work
<1>11. CASE Check
  BY <1>0, <1>11, <1>b, <1>e DEF Check, work
<1>12. CASE Publish
  <2>1. pack'.hints = hints /\ pack'.count = Len(entries) /\ Ended
    BY <1>12 DEF Publish, Staged
  <2>2. hints \o groups = hints
    BY <1>0, <1>12, <1>a, ConcatEmptySeq DEF Publish
  <2>3. FlattenSeq(hints) = entries
    BY <1>0, <1>12, <1>b, <2>2 DEF Publish
  <2> QED BY <1>c, <2>1, <2>3
<1>13. CASE GiveUp \/ Interrupt
  BY <1>0, <1>13, <1>c DEF GiveUp, Interrupt, Raise
<1>14. CASE Die
  BY <1>0, <1>14, <1>c DEF Die
<1>15. ASSUME NEW f \in Live, NEW c \in Held, Change(f, c) PROVE KeptInv'
  BY <1>15 DEF Change, work, KeptInv, NothingDropped, Incomplete
<1>16. CASE Rot
  <2>1. pack' \in Rotten(pack) /\ UNCHANGED <<pc, work, staging>>
    BY <1>16 DEF Rot
  <2>2. pack'.published = pack.published /\ pack'.hints = pack.hints /\ pack'.count = pack.count
    BY <2>1, RottenType
  <2> QED BY <2>1, <2>2 DEF work, KeptInv, NothingDropped, Incomplete
<1>17. CASE Restore \/ UNCHANGED vars
  BY <1>17 DEF Restore, vars, work, KeptInv, NothingDropped, Incomplete
<1> QED
  BY <1>1, <1>2, <1>3, <1>4, <1>5, <1>6, <1>7, <1>8, <1>9, <1>10, <1>11, <1>12, <1>13, <1>14,
     <1>15, <1>16, <1>17 DEF Next, Work

LEMMA AtFirst == Init => TypeOK /\ KeptInv
<1> SUFFICES ASSUME Init PROVE TypeOK /\ KeptInv
  OBVIOUS
<1>1. /\ pc = "idle" /\ files = <<>> /\ entries = <<>> /\ groups = <<>> /\ writing = <<>>
      /\ hints = <<>> /\ staging = <<>> /\ pack = NoPack /\ restored = {} /\ info = 0
      /\ src \in [Files -> Held] /\ touched = FALSE /\ staged = FALSE
  BY DEF Init
<1>2. TypeOK
  <2>1. /\ <<>> \in Seq(Files) /\ <<>> \in Seq(Entry) /\ <<>> \in Seq(Member)
        /\ <<>> \in Seq(Seq(Entry)) /\ <<>> \in Seq(Seq(Member))
    OBVIOUS
  <2>2. /\ pack.published = FALSE /\ pack.intact = TRUE /\ pack.count = 0
        /\ pack.volumes = <<>> /\ pack.sealed = <<>> /\ pack.hints = <<>>
    BY <1>1 DEF NoPack
  <2>3. touched \in BOOLEAN /\ staged \in BOOLEAN /\ pack.published \in BOOLEAN
        /\ pack.intact \in BOOLEAN
    BY <1>1, <2>2
  <2>4. pack.count \in Nat /\ info \in Sizes \cup {0} /\ restored \subseteq Files \X Data
    BY <1>1, <2>2
  <2>5. pc \in {"idle", "stat", "hash"} \cup Packing
    BY <1>1
  <2> QED BY <1>1, <2>1, <2>2, <2>3, <2>4, <2>5, Zenon DEF TypeOK
<1>3. \A j \in DOMAIN writing : FALSE
  BY <1>1
<1>4. KeptInv
  BY <1>1, <1>3 DEF KeptInv, NothingDropped, Packing, NoPack
<1> QED BY <1>2, <1>4

(* Types, and what keeps every entry.                                       *)
THEOREM EntriesKept == Spec => [](TypeOK /\ KeptInv)
<1> QED BY AtFirst, TypeStep, KeptStep, PackInvariant, PTL DEF Spec

(* However the groups are cut, written and split, no file is dropped.       *)
THEOREM NothingEverDropped == Spec => []NothingDropped
<1>1. KeptInv => NothingDropped
  BY DEF KeptInv
<1> QED BY <1>1, EntriesKept, PTL

-----------------------------------------------------------------------------
(* No false alarm.                                                         *)

LEMMA TrueStep ==
    ASSUME TypeOK, KeptInv, TrueInv, PackInv, [Next]_vars PROVE TrueInv'
<1> DEFINE Names == [k \in DOMAIN entries |-> entries[k].file]
<1>0. /\ ListedOnce
      /\ pc \in Packing => \A i \in DOMAIN staging : Fits(staging[i])
      /\ pc = "idle" => ~touched /\ files = <<>> /\ entries = <<>>
      /\ ~touched =>
            /\ \A k \in DOMAIN entries :
                  /\ SizeTrue(entries[k])
                  /\ EntryTrue(entries[k]) \/ (pc = "hash" /\ k = Len(entries))
            /\ pc = "copy" => src[NextMember] # Gone /\ info = Size[src[NextMember]]
            /\ VolumeTrue(writing)
            /\ pc \in Packing => \A i \in DOMAIN staging : VolumeTrue(staging[i])
      /\ IsInjective(files) /\ IsInjective(Names)
      /\ \A k \in DOMAIN entries, m \in DOMAIN files :
            entries[k].file = files[m] <=> pc = "hash" /\ k = Len(entries) /\ m = 1
  BY DEF TrueInv, ListedOnce
<1>a. /\ files \in Seq(Files) /\ entries \in Seq(Entry) /\ writing \in Seq(Member)
      /\ groups \in Seq(Seq(Entry)) /\ hints \in Seq(Seq(Entry)) /\ staging \in Seq(Seq(Member))
      /\ src \in [Files -> Held] /\ touched \in BOOLEAN
  BY DEF TypeOK
<1>b. "pack" \in Packing /\ "copy" \in Packing /\ {"check", "publish"} \subseteq Packing
      /\ "idle" \notin Packing /\ "stat" \notin Packing /\ "hash" \notin Packing
  BY DEF Packing
<1>c. ASSUME Ended PROVE TrueInv'
  <2>1. /\ pc' = "idle" /\ touched' = FALSE /\ files' = <<>> /\ entries' = <<>> /\ writing' = <<>>
        /\ DOMAIN <<>> = {}
    BY <1>c DEF Ended
  <2> QED BY <1>b, <2>1 DEF TrueInv, ListedOnce, IsInjective, VolumeTrue
\* Nothing but the volumes changes while a run packs.
<1>d. ASSUME pc' \notin {"idle", "hash"}, pc # "hash", UNCHANGED <<src, touched, files, entries>>,
             pc' \in Packing => \A i \in DOMAIN staging' : Fits(staging'[i]),
             ~touched =>
                /\ pc' = "copy" => (src[NextMember] # Gone /\ info = Size[src[NextMember]])'
                /\ VolumeTrue(writing)'
                /\ pc' \in Packing => (\A i \in DOMAIN staging : VolumeTrue(staging[i]))'
      PROVE  TrueInv'
  <2>1. ListedOnce'
    BY <1>0, <1>d DEF ListedOnce, IsInjective
  <2> QED BY <1>0, <1>d, <2>1 DEF TrueInv, SizeTrue, EntryTrue
<1>1. ASSUME NEW n \in 0..Len(Present), Start(n) PROVE TrueInv'
  <2>1. /\ pc = "idle" /\ pc' = "stat" /\ files' = SubSeq(Present, 1, n) /\ entries = <<>>
        /\ UNCHANGED <<src, touched, entries, writing>> /\ DOMAIN <<>> = {} /\ writing = <<>>
    BY <1>0, <1>1, <1>b DEF Start, KeptInv
  <2>2. IsInjective(SubSeq(Present, 1, n))
    <3>1. Present \in Seq(Files)
      BY PresentIs
    <3>2. /\ DOMAIN SubSeq(Present, 1, n) = 1..n /\ 1..n \subseteq DOMAIN Present
          /\ \A i \in 1..n : SubSeq(Present, 1, n)[i] = Present[i]
      BY <3>1
    <3> QED BY <3>2, PresentIs DEF IsInjective
  <2>3. ListedOnce'
    BY <2>1, <2>2 DEF ListedOnce, IsInjective
  <2> QED BY <1>b, <2>1, <2>3 DEF TrueInv, VolumeTrue
<1>2. CASE StatFile
  <2> DEFINE f == Head(files)
             e == [file |-> f, size |-> Size[src[f]], sha |-> Gone]
             n == Len(entries)
             all == Append(entries, e)
  <2>1. /\ pc = "stat" /\ pc' = "hash" /\ files # <<>> /\ src[f] # Gone /\ entries' = all
        /\ UNCHANGED <<src, touched, files, writing>> /\ writing = <<>> /\ DOMAIN <<>> = {}
    BY <1>2, <1>b DEF StatFile, KeptInv
  <2>2. f = files[1] /\ 1 \in DOMAIN files
    BY <1>a, <2>1
  <2>3. /\ n \in Nat /\ Len(all) = n + 1 /\ DOMAIN all = 1..(n + 1) /\ DOMAIN entries = 1..n
        /\ all[n + 1] = e /\ \A k \in 1..n : all[k] = entries[k]
    <3> HIDE DEF e
    <3> QED BY <1>a
  <2>4. e.file = f /\ e.size = Size[src[f]]
    OBVIOUS
  <2> HIDE DEF f, e, n, all
  <2>5. \A k \in 1..n, m \in DOMAIN files : entries[k].file # files[m]
    BY <1>0, <2>1, <2>3
  <2>6. \A k \in 1..(n + 1) : k \in 1..n \/ k = n + 1
    BY <2>3
  <2>7. \A k \in 1..n : k # n + 1
    BY <2>3
  <2>8. ListedOnce'
    <3>1. ASSUME NEW k \in 1..(n + 1), NEW m \in DOMAIN files
          PROVE  all[k].file = files[m] <=> k = n + 1 /\ m = 1
      BY <1>0, <2>2, <2>3, <2>4, <2>5, <2>6, <2>7 DEF IsInjective
    <3>2. ASSUME NEW k \in 1..(n + 1), NEW m \in 1..(n + 1), all[k].file = all[m].file
          PROVE  k = m
      <4>1. CASE k \in 1..n /\ m \in 1..n
        BY <1>0, <2>3, <3>2, <4>1 DEF IsInjective
      <4>2. CASE k = n + 1 \/ m = n + 1
        BY <2>2, <2>3, <2>4, <2>5, <2>6, <3>2, <4>2
      <4> QED BY <2>6, <4>1, <4>2
    <3>3. IsInjective([k \in DOMAIN all |-> all[k].file])
      BY <2>3, <3>2 DEF IsInjective
    <3> QED BY <1>0, <2>1, <2>3, <3>1, <3>3 DEF ListedOnce
  <2>9. ~touched => \A k \in 1..(n + 1) : SizeTrue(all[k]) /\ (EntryTrue(all[k]) \/ k = n + 1)
    BY <1>0, <2>1, <2>3, <2>4, <2>6 DEF SizeTrue
  <2>10. ~touched' => \A k \in DOMAIN entries' :
                         /\ SizeTrue(entries[k])'
                         /\ EntryTrue(entries[k])' \/ (pc' = "hash" /\ k = Len(entries'))
    BY <2>1, <2>3, <2>9 DEF SizeTrue, EntryTrue
  <2> QED BY <1>b, <2>1, <2>8, <2>10 DEF TrueInv, VolumeTrue
<1>3. CASE HashFile
  <2> DEFINE f == Head(files)
             n == Len(entries)
             all == [entries EXCEPT ![n].sha = src[f]]
  <2>1. /\ pc = "hash" /\ pc' = "stat" /\ src[f] # Gone /\ entries' = all /\ files' = Tail(files)
        /\ UNCHANGED <<src, touched, writing>> /\ writing = <<>> /\ DOMAIN <<>> = {}
        /\ files # <<>> /\ entries # <<>>
    BY <1>3, <1>b DEF HashFile, KeptInv
  <2>2. f = files[1] /\ 1 \in DOMAIN files
    BY <1>a, <2>1
  <2>3. /\ n \in Nat /\ n \in 1..n /\ DOMAIN entries = 1..n
        /\ \A k \in 1..n : entries[k] \in [file : Files, size : Sizes, sha : Held]
    <3>1. n \in Nat /\ n # 0 /\ DOMAIN entries = 1..n
      BY <1>a, <2>1
    <3>2. \A k \in 1..n : entries[k] \in Entry
      BY <1>a
    <3> HIDE DEF n
    <3> QED BY <3>1, <3>2 DEF Entry
  <2>4. /\ DOMAIN all = 1..n /\ \A k \in 1..n : k # n => all[k] = entries[k]
        /\ all[n].file = entries[n].file /\ all[n].size = entries[n].size /\ all[n].sha = src[f]
    <3> HIDE DEF f, n
    <3> QED BY <2>3
  <2>5. /\ \A m \in DOMAIN Tail(files) : /\ m + 1 \in DOMAIN files /\ m \in Nat /\ m + 1 # 1
                                         /\ Tail(files)[m] = files[m + 1]
    BY <1>a, <2>1
  <2> HIDE DEF f, n, all
  <2>6. \A k \in 1..n : all[k].file = entries[k].file /\ all[k].size = entries[k].size
    BY <2>4
  <2>7. entries[n].file = f
    BY <1>0, <2>1, <2>2, <2>3 DEF n
  <2>8. ListedOnce'
    <3>1. IsInjective(Tail(files))
      <4> SUFFICES ASSUME NEW k \in DOMAIN Tail(files), NEW m \in DOMAIN Tail(files),
                          Tail(files)[k] = Tail(files)[m]
                   PROVE  k = m
        BY DEF IsInjective
      <4>1. k + 1 = m + 1 /\ k \in Nat /\ m \in Nat
        BY <1>0, <2>5 DEF IsInjective
      <4> QED BY <4>1
    <3>2. IsInjective([k \in DOMAIN all |-> all[k].file])
      BY <1>0, <2>3, <2>4, <2>6 DEF IsInjective
    <3>3. \A k \in 1..n, m \in DOMAIN Tail(files) : all[k].file # Tail(files)[m]
      BY <1>0, <2>3, <2>5, <2>6
    <3> QED BY <2>1, <2>4, <3>1, <3>2, <3>3 DEF ListedOnce
  <2>9. ~touched => \A k \in 1..n : EntryTrue(all[k])
    <3> SUFFICES ASSUME ~touched, NEW k \in 1..n PROVE EntryTrue(all[k])
      OBVIOUS
    <3>1. SizeTrue(entries[k]) /\ (k # n => EntryTrue(entries[k]))
      BY <1>0, <2>3 DEF n
    <3> QED BY <2>4, <2>6, <2>7, <3>1 DEF EntryTrue, SizeTrue
  <2>10. ~touched' => \A k \in DOMAIN entries' : SizeTrue(entries[k])' /\ EntryTrue(entries[k])'
    BY <2>1, <2>4, <2>9 DEF SizeTrue, EntryTrue
  <2> QED BY <1>b, <2>1, <2>8, <2>10 DEF TrueInv, VolumeTrue
<1>4. CASE Open
  <2>1. /\ pc = "stat" /\ pc' = "pack" /\ staging' = <<>> /\ DOMAIN <<>> = {}
        /\ writing = <<>> /\ UNCHANGED <<src, touched, files, entries, writing>>
    BY <1>4, <1>b DEF Open, KeptInv
  <2> QED BY <1>d, <2>1 DEF VolumeTrue
<1>5. CASE Refuse
  BY <1>5, <1>c DEF Refuse
<1>6. CASE TarInfo
  <2>1. /\ pc = "pack" /\ pc' = "copy" /\ src[NextMember] # Gone /\ info' = Size[src[NextMember]]
        /\ UNCHANGED <<src, touched, files, entries, groups, writing, staging>>
    BY <1>6 DEF TarInfo
  <2>2. (src[NextMember] # Gone /\ info = Size[src[NextMember]])'
    BY <2>1 DEF NextMember
  <2>3. ~touched => VolumeTrue(writing)' /\ (\A i \in DOMAIN staging : VolumeTrue(staging[i]))'
    BY <1>0, <1>b, <2>1 DEF VolumeTrue
  <2> QED BY <1>0, <1>b, <1>d, <2>1, <2>2, <2>3
<1>7. CASE AddFile
  <2>1. /\ pc = "copy" /\ pc' = "pack" /\ src[NextMember] # Gone
        /\ UNCHANGED <<src, touched, files, entries, staging>>
    BY <1>7 DEF AddFile
  <2>2. PICK d \in FirstBytes(src[NextMember], info) :
           writing' = Append(writing, [file |-> NextMember, data |-> d])
    BY <1>7 DEF AddFile
  <2>3. ~touched => d = src[NextMember]
    BY <1>0, <2>1, <2>2 DEF FirstBytes
  <2> DEFINE n == Len(writing)
             x == [file |-> NextMember, data |-> d]
  <2>4. n \in Nat /\ DOMAIN Append(writing, x) = 1..(n + 1)
        /\ (\A j \in 1..n : Append(writing, x)[j] = writing[j])
        /\ Append(writing, x)[n + 1] = x /\ DOMAIN writing = 1..n
    <3> HIDE DEF x
    <3> QED BY <1>a
  <2>5. x.file = NextMember /\ x.data = d
    OBVIOUS
  <2> HIDE DEF x, n
  <2>6. ~touched => VolumeTrue(Append(writing, x))
    BY <1>0, <2>3, <2>4, <2>5 DEF VolumeTrue
  <2>7. ~touched => VolumeTrue(writing)' /\ (\A i \in DOMAIN staging : VolumeTrue(staging[i]))'
    BY <1>0, <1>b, <2>1, <2>2, <2>6 DEF VolumeTrue, x
  <2> QED BY <1>0, <1>b, <1>d, <2>1, <2>7
<1>8. CASE CloseVolume
  <2>1. /\ pc = "pack" /\ pc' = "pack" /\ Fits(writing) /\ staging' = Append(staging, writing)
        /\ writing' = <<>> /\ UNCHANGED <<src, touched, files, entries>> /\ DOMAIN <<>> = {}
    BY <1>8 DEF CloseVolume
  <2> DEFINE n == Len(staging)
             all == Append(staging, writing)
  <2>2. n \in Nat /\ DOMAIN all = 1..(n + 1) /\ (\A j \in 1..n : all[j] = staging[j])
        /\ all[n + 1] = writing /\ DOMAIN staging = 1..n
    BY <1>a
  <2> HIDE DEF n, all
  <2>3. \A i \in DOMAIN all : Fits(all[i])
    BY <1>0, <1>b, <2>1, <2>2
  <2>4. ~touched => \A i \in DOMAIN all : VolumeTrue(all[i])
    BY <1>0, <1>b, <2>1, <2>2
  <2>5. ~touched => VolumeTrue(writing)' /\ (\A i \in DOMAIN staging : VolumeTrue(staging[i]))'
    BY <2>1, <2>4 DEF VolumeTrue, all
  <2> QED BY <1>b, <1>d, <2>1, <2>3, <2>5 DEF all
<1>9. CASE Split
  <2>1. /\ pc = "pack" /\ pc' = "pack" /\ writing' = <<>> /\ DOMAIN <<>> = {}
        /\ UNCHANGED <<src, touched, files, entries, staging>>
    BY <1>9 DEF Split
  <2>2. ~touched => VolumeTrue(writing)' /\ (\A i \in DOMAIN staging : VolumeTrue(staging[i]))'
    BY <1>0, <1>b, <2>1 DEF VolumeTrue
  <2> QED BY <1>0, <1>b, <1>d, <2>1, <2>2
<1>10. CASE Seal \/ Check
  <2>1. /\ pc \in Packing \ {"copy"} /\ pc' \in {"check", "publish"}
        /\ UNCHANGED <<src, touched, files, entries, staging, writing>>
    BY <1>10 DEF Seal, Check, work, Packing
  <2>2. ~touched => VolumeTrue(writing)' /\ (\A i \in DOMAIN staging : VolumeTrue(staging[i]))'
    BY <1>0, <2>1 DEF VolumeTrue
  <2> QED BY <1>0, <1>b, <1>d, <2>1, <2>2
<1>11. CASE Publish \/ GiveUp \/ Interrupt \/ Die
  BY <1>11, <1>c DEF Publish, GiveUp, Interrupt, Die, Raise
<1>12. ASSUME NEW f \in Live, NEW c \in Held, Change(f, c) PROVE TrueInv'
  <2>1. /\ touched' = (pc # "idle")
        /\ UNCHANGED <<pc, files, entries, writing, staging>>
    BY <1>12 DEF Change, work
  <2>2. ListedOnce'
    BY <1>0, <2>1 DEF ListedOnce, IsInjective
  <2>3. CASE pc = "idle"
    <3>1. files' = <<>> /\ entries' = <<>> /\ writing' = <<>> /\ pc' = "idle" /\ ~touched'
          /\ DOMAIN <<>> = {}
      <4>1. writing = <<>> /\ files = <<>> /\ entries = <<>>
        BY <1>0, <1>b, <2>3 DEF KeptInv
      <4>2. ~touched'
        BY <2>1, <2>3
      <4> QED BY <2>1, <2>3, <4>1, <4>2
    <3> QED BY <1>b, <2>2, <3>1 DEF TrueInv, VolumeTrue
  <2>4. CASE pc # "idle"
    <3>1. touched'
      BY <2>1, <2>4
    <3>2. pc' \in Packing => (\A i \in DOMAIN staging : Fits(staging[i]))'
      BY <1>0, <2>1
    <3> QED BY <2>1, <2>2, <2>4, <3>1, <3>2 DEF TrueInv
  <2> QED BY <2>3, <2>4
<1>13. CASE Rot \/ Restore \/ UNCHANGED vars
  <2>1. UNCHANGED <<src, touched, pc, files, entries, groups, info, writing, staging>>
    BY <1>13 DEF Rot, Restore, vars, work
  <2> QED
    BY <1>0, <2>1 DEF TrueInv, ListedOnce, IsInjective, SizeTrue, EntryTrue, VolumeTrue, NextMember
<1> QED
  BY <1>1, <1>2, <1>3, <1>4, <1>5, <1>6, <1>7, <1>8, <1>9, <1>10, <1>11, <1>12, <1>13
  DEF Next, Work

LEMMA TrueIsChecked ==
    ASSUME TypeOK, KeptInv, TrueInv, pc = "check", ~touched PROVE CheckOK(Staged)
<1>1. /\ FlattenSeq(hints) = entries /\ Len(staging) = Len(hints)
      /\ \A i \in DOMAIN staging : [j \in DOMAIN staging[i] |-> staging[i][j].file] =
                                   [j \in DOMAIN hints[i] |-> hints[i][j].file]
  <2>1. groups = <<>> /\ pc \in Packing
    BY DEF KeptInv, Packing
  <2>2. hints \o <<>> = hints
    BY ConcatEmptySeq DEF TypeOK
  <2> QED BY <2>1, <2>2 DEF KeptInv, NothingDropped
<1>2. /\ \A i \in DOMAIN staging : Fits(staging[i]) /\ VolumeTrue(staging[i])
      /\ \A k \in DOMAIN entries : EntryTrue(entries[k])
      /\ IsInjective([k \in DOMAIN entries |-> entries[k].file])
  BY DEF TrueInv, ListedOnce, Packing
<1>3. /\ staging \in Seq(Seq(Member)) /\ hints \in Seq(Seq(Entry)) /\ entries \in Seq(Entry)
      /\ DOMAIN hints = DOMAIN staging
  BY <1>1 DEF TypeOK
<1>4. ASSUME NEW i \in DOMAIN staging PROVE VolumeOK(staging[i], hints[i])
  <2> DEFINE v == staging[i]
             h == hints[i]
  <2>1. /\ v \in Seq(Member) /\ h \in Seq(Entry) /\ VolumeTrue(v)
        /\ [j \in DOMAIN v |-> v[j].file] = [j \in DOMAIN h |-> h[j].file]
    BY <1>1, <1>2, <1>3
  <2>2. PICK n \in Nat : \A j \in DOMAIN h : n + j \in DOMAIN entries /\ entries[n + j] = h[j]
    <3>1. i \in DOMAIN hints /\ hints \in Seq(Seq(Entry))
      BY <1>3
    <3>2. \E k \in Nat : \A j \in DOMAIN hints[i] :
             /\ k + j \in DOMAIN FlattenSeq(hints)
             /\ FlattenSeq(hints)[k + j] = hints[i][j]
      BY <3>1, FlattenHolds, Zenon
    <3> QED BY <1>1, <3>2
  <2> HIDE DEF v, h
  <2>3. DOMAIN v = DOMAIN h /\ DOMAIN h = 1..Len(h) /\ \A j \in DOMAIN h : v[j].file = h[j].file
    <3>1. DOMAIN [j \in DOMAIN v |-> v[j].file] = DOMAIN [j \in DOMAIN h |-> h[j].file]
      BY <2>1
    <3>2. DOMAIN v = DOMAIN h
      BY <3>1
    <3>3. \A j \in DOMAIN h : [i_1 \in DOMAIN v |-> v[i_1].file][j]
                              = [i_1 \in DOMAIN h |-> h[i_1].file][j]
      BY <2>1
    <3>4. DOMAIN h = 1..Len(h)
      BY <2>1
    <3> QED BY <3>2, <3>3, <3>4
  <2>4. \A j \in DOMAIN h : EntryTrue(h[j])
    BY <1>2, <2>2
  <2>5. \A j \in DOMAIN h : Matches(v[j], h[j])
    BY <2>1, <2>3, <2>4 DEF Matches, EntryTrue, SizeTrue, VolumeTrue
  <2>6. \A j, k \in DOMAIN h : h[j].file = h[k].file => j = k
    <3> SUFFICES ASSUME NEW j \in DOMAIN h, NEW k \in DOMAIN h, h[j].file = h[k].file
                 PROVE  j = k
      OBVIOUS
    <3>1. n + j = n + k
      BY <1>2, <2>2 DEF IsInjective
    <3>2. j \in Nat /\ k \in Nat
      BY <2>3
    <3> QED BY <3>1, <3>2
  <2>7. IsInjective([j \in DOMAIN v |-> v[j].file])
    BY <2>3, <2>6 DEF IsInjective
  <2>8. VolumeOK(v, h)
    BY <2>3, <2>5, <2>7 DEF VolumeOK, ToSet
  <2> QED BY <2>8 DEF v, h
<1>5. /\ Staged.intact = TRUE /\ Staged.volumes = staging /\ Staged.sealed = staging
      /\ Staged.hints = hints /\ Staged.count = Len(entries)
  BY DEF Staged
<1> QED BY <1>1, <1>2, <1>3, <1>4, <1>5 DEF CheckOK, Fits

LEMMA TrueAtFirst == Init => TrueInv
<1> SUFFICES ASSUME Init PROVE TrueInv
  OBVIOUS
<1>1. /\ pc = "idle" /\ files = <<>> /\ entries = <<>> /\ writing = <<>> /\ touched = FALSE
      /\ DOMAIN <<>> = {}
  BY DEF Init
<1> QED BY <1>1 DEF TrueInv, ListedOnce, IsInjective, VolumeTrue, Packing

(* Only a pack whose files have changed under it is refused.                *)
THEOREM NeverFalseAlarm == Spec => []NoFalseAlarm
<1>1. TypeOK /\ KeptInv /\ TrueInv => NoFalseAlarm
  BY TrueIsChecked DEF NoFalseAlarm
<1> QED BY <1>1, TrueAtFirst, TrueStep, EntriesKept, PackInvariant, PTL DEF Spec
=============================================================================
