-------------------------- MODULE LocalFilesProofs --------------------------
(***************************************************************************)
(* Proofs that no stored file is lost, that every quarantined row tells    *)
(* where its file is, and that linked rows have the same hash, for any     *)
(* files, contents, suspicions and rot, two processes and their deaths.    *)
(***************************************************************************)
EXTENDS LocalFilesProperties, TLAPS, FiniteSetTheorems, WellFoundedInduction

LEMMA Constants == Nothing \notin Contents /\ Files \subseteq Nat \ {NoFile}
  BY LocalFilesAssumption

(* A set of numbers has a least one: a group has a canonical file.          *)
LEMMA MinIsIn ==
    ASSUME NEW S, S \subseteq Nat, S # {}
    PROVE  Min(S) \in S
<1>1. \E x \in S : \A y \in S : ~ (<<y, x>> \in OpToRel(<, Nat))
  BY WFMin, NatLessThanWellFounded
<1>2. PICK x \in S : \A y \in S : ~ (<<y, x>> \in OpToRel(<, Nat))
  BY <1>1
<1>3. \A y \in S : x =< y
  <2> SUFFICES ASSUME NEW y \in S PROVE x =< y
    OBVIOUS
  <2>1. ~ (y < x)
    BY <1>2 DEF OpToRel
  <2> QED BY <2>1
<1> QED BY <1>3 DEF Min

(* Types: every variable has its type whatever is verified or linked.       *)
THEOREM TypeCorrect == Spec => []TypeOK
<1>1. Init => TypeOK
  BY Constants DEF Init, TypeOK, Held, Points
<1>2. TypeOK /\ [Next]_vars => TypeOK'
  <2> SUFFICES ASSUME TypeOK, [Next]_vars PROVE TypeOK'
    OBVIOUS
  <2> USE Constants DEF TypeOK, Held, Points, Procs
  <2>1. ASSUME NEW f \in Files, NEW c \in Contents, Store(f, c) PROVE TypeOK'
    BY <2>1 DEF Store, LookAt, run, jobs
  <2>2. ASSUME NEW f \in Files, NEW c \in Contents, Rot(f, c) PROVE TypeOK'
    BY <2>2 DEF Rot, cat, proc, run, jobs
  <2>3. ASSUME NEW full \in BOOLEAN, Select(full) PROVE TypeOK'
    BY <2>3 DEF Select, Goto, Selectable, Pending, store, cat, jobs
  <2>4. ASSUME NEW f \in Files, NextFile(f) PROVE TypeOK'
    BY <2>4 DEF NextFile, LookAt, store, cat, jobs
  <2>5. CASE EndLoop
    BY <2>5 DEF EndLoop, Goto, store, cat, run, jobs
  <2>6. ASSUME NEW p \in Procs, VerifyFile(p) PROVE TypeOK'
    <3>1. CASE Missing(p)
      BY <3>1 DEF Missing, Leave, Goto, After, store, cat, run, jobs
    <3>2. CASE Reject(p)
      BY <3>2 DEF Reject, Goto, store, cat, run, jobs
    <3>3. CASE Accept(p)
      BY <3>3 DEF Accept, Goto, Hash, store, cat, run, jobs
    <3>4. CASE Commit(p)
      <4>1. link' \in [Files -> Files \cup {NoFile}]
        BY <3>4 DEF Commit, Twins, LinkTo
      <4> QED BY <3>4, <4>1 DEF Commit, Goto, store, run, jobs
    <3>5. CASE Move(p)
      BY <3>5 DEF Move, MoveFile, Goto, cat, run, jobs
    <3>6. CASE Record(p)
      BY <3>6 DEF Record, HashAside, Goto, store, run, jobs
    <3>7. CASE AddEvent(p)
      BY <3>7 DEF AddEvent, Leave, Goto, After, store, cat, run, jobs
    <3> QED BY <2>6, <3>1, <3>2, <3>3, <3>4, <3>5, <3>6, <3>7 DEF VerifyFile
  <2>7. ASSUME NEW p \in Procs, Die(p) PROVE TypeOK'
    BY <2>7 DEF Die, Leave, Goto, store, cat, run, jobs
  <2>8. CASE Deduplicate
    <3>1. \A h : Cardinality(Group(h)) > 1 => Group(h) # {}
      BY FS_EmptySet
    <3>2. ASSUME NEW h, Group(h) # {} PROVE Canonical(h) \in Files
      <4>1. Group(h) \subseteq Files /\ Group(h) \subseteq Nat
        BY DEF Group
      <4>2. Min(Group(h)) \in Group(h)
        BY <3>2, <4>1, MinIsIn
      <4> QED BY <4>1, <4>2 DEF Canonical
    <3>3. link' \in [Files -> Files \cup {NoFile}]
      BY <2>8, <3>1, <3>2 DEF Deduplicate
    <3> QED BY <2>8, <3>3 DEF Deduplicate, Goto, store, run, jobs
  <2>9. CASE Index
    BY <2>9 DEF Index, store, proc, run, jobs
  <2>10. CASE UNCHANGED vars
    BY <2>10 DEF vars
  <2>11. ASSUME NEW f \in Files, Recheck(f) PROVE TypeOK'
    BY <2>11 DEF Recheck, LookAt, store, run
  <2>12. CASE Raise
    BY <2>12 DEF Raise, Leave, Goto, store, cat, run
  <2> QED
    BY <2>1, <2>2, <2>3, <2>4, <2>5, <2>6, <2>7, <2>8, <2>9, <2>10, <2>11, <2>12
    DEF Next
<1> QED BY <1>1, <1>2, PTL DEF Spec

-----------------------------------------------------------------------------
(* StoreInv is inductive.                                                   *)
THEOREM StoreInvariant == Spec => []StoreInv
<1>1. Init => StoreInv
  BY DEF Init, StoreInv, NothingLost, QuarantineRecorded, Busy
<1>2. TypeOK /\ StoreInv /\ [Next]_vars => StoreInv'
  <2> SUFFICES ASSUME TypeOK, StoreInv, [Next]_vars PROVE StoreInv'
    OBVIOUS
  <2> USE Constants
      DEF TypeOK, Held, Procs, StoreInv, NothingLost, QuarantineRecorded, Busy
  <2>1. ASSUME NEW f \in Files, NEW c \in Contents, Store(f, c) PROVE StoreInv'
    <3>1. row[f] = "none" /\ originals[f] = Nothing /\ aside[f] = Nothing /\ f \notin todo
      BY <2>1 DEF Store
    <3> QED BY <2>1, <3>1 DEF Store, LookAt, run, jobs
  <2>2. ASSUME NEW f \in Files, NEW c \in Contents, Rot(f, c) PROVE StoreInv'
    <3>1. originals[f] # Nothing
      BY <2>2, LocalFilesAssumption DEF Rot
    <3> QED BY <2>2, <3>1 DEF Rot, cat, proc, run, jobs
  <2>3. ASSUME NEW full \in BOOLEAN, Select(full) PROVE StoreInv'
    BY <2>3 DEF Select, Goto, Selectable, Pending, store, cat, jobs
  <2>4. ASSUME NEW f \in Files, NextFile(f) PROVE StoreInv'
    BY <2>4 DEF NextFile, LookAt, store, cat, jobs
  <2>5. CASE EndLoop
    BY <2>5 DEF EndLoop, Goto, store, cat, run, jobs
  <2>6. ASSUME NEW p \in Procs, VerifyFile(p) PROVE StoreInv'
    <3>1. CASE Missing(p)
      BY <3>1 DEF Missing, Leave, Goto, After, store, cat, run, jobs
    <3>2. CASE Reject(p)
      BY <3>2 DEF Reject, Goto, store, cat, run, jobs
    <3>3. CASE Accept(p)
      BY <3>3 DEF Accept, Goto, store, cat, run, jobs
    <3>4. CASE Commit(p)
      BY <3>4 DEF Commit, Goto, store, run, jobs
    <3>5. CASE Move(p)
      <4> DEFINE f == cur[p]
      <4>1. f \in Files /\ status[f] # "absent"
        BY <3>5 DEF Move
      <4>2. originals' = [originals EXCEPT ![f] = Nothing]
        BY <3>5 DEF Move
      <4>3. aside' = [aside EXCEPT ![f] = IF originals[f] # Nothing THEN originals[f] ELSE @]
        BY <3>5 DEF Move, MoveFile
      <4>4. pc' = [pc EXCEPT ![p] = "record"] /\ UNCHANGED <<cat, cur, todo>>
        BY <3>5 DEF Move, Goto, run
      <4>5. aside'[f] # Nothing
        BY <4>1, <4>3
      <4>6. \A g \in Files : g # f => aside'[g] = aside[g] /\ originals'[g] = originals[g]
        BY <4>2, <4>3
      <4>7. originals[f] # Nothing => row[f] # "bad"
        BY <4>1
      <4>8. row[f] = "bad" => aside'[f] = aside[f]
        BY <4>1, <4>3, <4>7
      <4> HIDE DEF f
      <4>9. NothingLost' /\ QuarantineRecorded'
        BY <4>1, <4>4, <4>5, <4>6, <4>8 DEF cat
      <4> QED BY <4>1, <4>2, <4>4, <4>5, <4>6, <4>9 DEF cat, f
    <3>6. CASE Record(p)
      BY <3>6 DEF Record, HashAside, Goto, store, run, jobs
    <3>7. CASE AddEvent(p)
      BY <3>7 DEF AddEvent, Leave, Goto, After, store, cat, run, jobs
    <3> QED BY <2>6, <3>1, <3>2, <3>3, <3>4, <3>5, <3>6, <3>7 DEF VerifyFile
  <2>7. ASSUME NEW p \in Procs, Die(p) PROVE StoreInv'
    BY <2>7 DEF Die, Leave, Goto, store, cat, run, jobs
  <2>8. CASE Deduplicate
    BY <2>8 DEF Deduplicate, Goto, store, run, jobs
  <2>9. CASE Index
    BY <2>9 DEF Index, store, proc, run, jobs
  <2>10. CASE UNCHANGED vars
    BY <2>10 DEF vars
  <2>11. ASSUME NEW f \in Files, Recheck(f) PROVE StoreInv'
    BY <2>11 DEF Recheck, LookAt, store, run
  <2>12. CASE Raise
    BY <2>12 DEF Raise, Leave, Goto, store, cat, run
  <2> QED
    BY <2>1, <2>2, <2>3, <2>4, <2>5, <2>6, <2>7, <2>8, <2>9, <2>10, <2>11, <2>12
    DEF Next
<1> QED BY <1>1, <1>2, TypeCorrect, PTL DEF Spec

(* No stored file is ever lost, by verification, quarantine or a death.     *)
THEOREM FilesAreNeverLost == Spec => []NothingLost
<1>1. StoreInv => NothingLost
  BY DEF StoreInv
<1> QED BY <1>1, StoreInvariant, PTL

(* A quarantined row has its file in quarantine/, with its hash.            *)
THEOREM QuarantineAlwaysRecorded == Spec => []QuarantineRecorded
<1>1. StoreInv => QuarantineRecorded
  BY DEF StoreInv
<1> QED BY <1>1, StoreInvariant, PTL

-----------------------------------------------------------------------------
(* Links.                                                                  *)

\* After a step the claims for a file agree if there are no new ones, or if
\* they are all the same.
LEMMA ClaimsAgree ==
    ASSUME OneHash, rehashed \subseteq rehashed',
           \A f \in Files \ rehashed' :
              \/ \A x \in Held : Claim(f, x)' => Claim(f, x)
              \/ \E h : \A x \in Held : Claim(f, x)' => x = h
    PROVE  OneHash'
<1> SUFFICES ASSUME NEW f \in Files \ rehashed', NEW x \in Held, NEW y \in Held,
                    Claim(f, x)', Claim(f, y)'
             PROVE  x = y
  BY DEF OneHash
<1>1. CASE \A z \in Held : Claim(f, z)' => Claim(f, z)
  BY <1>1 DEF OneHash
<1>2. CASE \E h : \A z \in Held : Claim(f, z)' => z = h
  BY <1>2
<1> QED BY <1>1, <1>2

\* The same for a step that leaves the rows alone.
LEMMA RowsAlone ==
    ASSUME LinkInv, UNCHANGED <<row, sha, link>>, rehashed \subseteq rehashed', InHand',
           \A f \in Files \ rehashed' :
              \/ \A x \in Held : HandClaim(f, x)' => Claim(f, x)
              \/ \E h : \A x \in Held : RowClaim(f, x) \/ HandClaim(f, x)' => x = h
    PROVE  LinkInv'
<1>1. \A f, x : RowClaim(f, x)' <=> RowClaim(f, x)
  BY DEF RowClaim
<1>2. OneHash'
  <2>1. ASSUME NEW f \in Files \ rehashed'
        PROVE  \/ \A x \in Held : Claim(f, x)' => Claim(f, x)
               \/ \E h : \A x \in Held : Claim(f, x)' => x = h
    BY <1>1 DEF Claim
  <2> QED BY <2>1, ClaimsAgree DEF LinkInv
<1> QED BY <1>2 DEF LinkInv

\* A step after which there is less in hand.
LEMMA LessInHand ==
    ASSUME LinkInv, UNCHANGED <<row, sha, link, rehashed>>, InHand',
           \A f, x : HandClaim(f, x)' => HandClaim(f, x)
    PROVE  LinkInv'
<1>1. \A f \in Files \ rehashed' : \A x \in Held : HandClaim(f, x)' => Claim(f, x)
  BY DEF Claim
<1> QED BY <1>1, RowsAlone

\* Of a file without a row all there is to know is what it holds.
LEMMA Fresh ==
    ASSUME TypeOK, LinkInv, NEW f \in Files, row[f] = "none", originals[f] # Nothing
    PROVE  \A x : ~RowClaim(f, x) /\ (HandClaim(f, x) => x = originals[f])
<1>1. \A x : ~RowClaim(f, x)
  BY Constants DEF LinkInv, RowClaim, TypeOK
<1>2. ASSUME NEW x, HandClaim(f, x) PROVE x = originals[f]
  <2>1. CASE \E p \in Procs : cur[p] = f /\ pc[p] = "commit" /\ x = digest[p]
    BY <2>1 DEF LinkInv, InHand
  <2>2. CASE \E p \in Procs : cur[p] = f /\ pc[p] = "look" /\ x = Hash(originals[f], known[p])
    BY <2>2 DEF LinkInv, InHand, Hash, Procs
  <2>3. CASE pc["verify"] # "idle" /\ f \in todo /\ x = Hash(originals[f], noted[f])
    BY <2>3 DEF LinkInv, InHand, Hash
  <2> QED BY <1>2, <2>1, <2>2, <2>3 DEF HandClaim
<1> QED BY <1>1, <1>2

LEMMA StoreLinks ==
    ASSUME TypeOK, StoreInv, LinkInv, NEW f \in Files, NEW c \in Contents, Store(f, c)
    PROVE  LinkInv'
<1> USE Constants DEF TypeOK, Held, Procs
<1>1. /\ UNCHANGED <<row, sha, link, todo, noted, rehashed>>
      /\ originals' = [originals EXCEPT ![f] = c]
      /\ pc' = [pc EXCEPT !["acquire"] = "look"]
      /\ cur' = [cur EXCEPT !["acquire"] = f]
      /\ known' = [known EXCEPT !["acquire"] = c]
      /\ digest' = [digest EXCEPT !["acquire"] = Nothing]
  BY DEF Store, LookAt, run, jobs
<1>2. row[f] = "none" /\ f \notin todo /\ (Busy("verify") => cur["verify"] # f)
  BY DEF Store, StoreInv
<1>3. InHand'
  BY <1>1, <1>2 DEF LinkInv, InHand, Busy
<1>4. \A x : ~RowClaim(f, x)
  BY <1>2 DEF LinkInv, RowClaim
<1>5. \A x : HandClaim(f, x)' => x = c
  BY <1>1, <1>2 DEF HandClaim, Hash, Busy
<1>6. ASSUME NEW e \in Files, e # f, NEW x, HandClaim(e, x)' PROVE Claim(e, x)
  BY <1>1, <1>6 DEF HandClaim, Claim
<1> QED BY <1>1, <1>3, <1>4, <1>5, <1>6, RowsAlone

LEMMA RecheckLinks ==
    ASSUME TypeOK, StoreInv, LinkInv, NEW f \in Files, Recheck(f)
    PROVE  LinkInv'
<1> USE Constants DEF TypeOK, Held, Procs
<1>1. /\ UNCHANGED <<originals, row, sha, link, todo, noted>>
      /\ originals[f] # Nothing
      /\ rehashed' = IF row[f] = "good" /\ sha[f] # originals[f]
                     THEN rehashed \cup {f} ELSE rehashed
      /\ pc' = [pc EXCEPT !["acquire"] = "look"]
      /\ cur' = [cur EXCEPT !["acquire"] = f]
      /\ known' = [known EXCEPT !["acquire"] = Nothing]
      /\ digest' = [digest EXCEPT !["acquire"] = Nothing]
  BY DEF Recheck, LookAt, store, run
<1>2. row[f] \in {"none", "good"}
  BY <1>1 DEF StoreInv, QuarantineRecorded
<1>3. InHand'
  BY <1>1 DEF LinkInv, InHand
<1>4. ASSUME NEW x, HandClaim(f, x)' PROVE x = originals[f] \/ HandClaim(f, x)
  BY <1>1, <1>4 DEF HandClaim, Hash
<1>5. ASSUME NEW e \in Files, e # f, NEW x, HandClaim(e, x)' PROVE Claim(e, x)
  BY <1>1, <1>5 DEF HandClaim, Claim
<1>6. ASSUME NEW e \in Files \ rehashed'
      PROVE  \/ \A x \in Held : HandClaim(e, x)' => Claim(e, x)
             \/ \E h : \A x \in Held : RowClaim(e, x) \/ HandClaim(e, x)' => x = h
  <2>1. CASE e # f
    BY <1>5, <2>1
  <2>2. CASE e = f /\ row[f] = "good"
    <3>1. Claim(f, originals[f])
      BY <1>1, <1>6, <2>2 DEF Claim, RowClaim
    <3> QED BY <1>4, <2>2, <3>1 DEF Claim
  <2>3. CASE e = f /\ row[f] = "none"
    <3>1. \A x : ~RowClaim(f, x) /\ (HandClaim(f, x) => x = originals[f])
      BY <1>1, <2>3, Fresh
    <3> QED BY <1>4, <2>3, <3>1
  <2> QED BY <1>2, <2>1, <2>2, <2>3
<1> QED BY <1>1, <1>3, <1>6, RowsAlone

LEMMA SelectLinks ==
    ASSUME TypeOK, StoreInv, LinkInv, NEW full \in BOOLEAN, Select(full)
    PROVE  LinkInv'
<1> USE Constants DEF TypeOK, Held, Procs
<1>1. /\ UNCHANGED <<originals, row, sha, link, cur, known, digest, rehashed>>
      /\ pc["verify"] = "idle" /\ pc' = [pc EXCEPT !["verify"] = "next"]
      /\ todo' = Selectable(full) \cup Pending /\ noted' = sha
  BY DEF Select, Goto, store, cat, jobs
<1>2. InHand'
  <2>1. pc'["verify"] = "next" /\ pc'["acquire"] = pc["acquire"]
    BY <1>1
  <2>2. \A f \in Files : row[f] = "none" => noted'[f] = Nothing
    BY <1>1 DEF LinkInv
  <2>3. todo' \subseteq Files
    BY <1>1 DEF Selectable, Pending
  <2> QED BY <1>1, <2>1, <2>2, <2>3 DEF LinkInv, InHand
<1>3. ASSUME NEW f \in Files, NEW x, HandClaim(f, x)', ~HandClaim(f, x)
      PROVE  /\ originals[f] # Nothing /\ row[f] \in {"none", "good"}
             /\ x = Hash(originals[f], sha[f])
  BY <1>1, <1>3 DEF HandClaim, Selectable, Pending
<1>4. ASSUME NEW f \in Files
      PROVE  \/ \A x \in Held : HandClaim(f, x)' => Claim(f, x)
             \/ \E h : \A x \in Held : RowClaim(f, x) \/ HandClaim(f, x)' => x = h
  <2>1. CASE row[f] = "good"
    <3>1. sha[f] # Nothing
      BY <2>1 DEF LinkInv
    <3> QED BY <1>3, <2>1, <3>1 DEF Claim, RowClaim, Hash
  <2>2. CASE row[f] = "none" /\ originals[f] # Nothing
    <3>1. sha[f] = Nothing
      BY <2>2 DEF LinkInv
    <3>2. \A x : ~RowClaim(f, x) /\ (HandClaim(f, x) => x = originals[f])
      BY <2>2, Fresh
    <3>3. \A x : HandClaim(f, x)' => x = originals[f]
      BY <1>3, <3>1, <3>2 DEF Hash
    <3> QED BY <3>2, <3>3
  <2>3. CASE row[f] \notin {"none", "good"} \/ originals[f] = Nothing
    BY <1>3, <2>3 DEF Claim
  <2> QED BY <2>1, <2>2, <2>3
<1> QED BY <1>1, <1>2, <1>4, RowsAlone

LEMMA CommitLinks ==
    ASSUME TypeOK, LinkInv, NEW p \in Procs, Commit(p)
    PROVE  LinkInv'
<1> USE Constants DEF TypeOK, Held, Procs
<1> DEFINE f == cur[p]
           h == digest[p]
<1>1. /\ UNCHANGED <<originals, cur, known, digest, todo, noted, rehashed>>
      /\ pc[p] = "commit" /\ pc' = [pc EXCEPT ![p] = "event"]
      /\ row' = [row EXCEPT ![f] = "good"] /\ sha' = [sha EXCEPT ![f] = h]
  BY DEF Commit, Goto, store, run, jobs
<1>2. PICK t \in IF Twins(f, h) = {} THEN {NoFile} ELSE Twins(f, h) :
         link' = [link EXCEPT ![f] = t]
  BY DEF Commit, LinkTo
<1>3. t = NoFile \/ (t \in Files /\ t # f /\ row[t] = "good" /\ sha[t] = h)
  BY <1>2 DEF Twins
<1>4. f \in Files /\ h # Nothing
  BY <1>1 DEF LinkInv, InHand
<1>5. /\ row'[f] = "good" /\ sha'[f] = h /\ link'[f] = t
      /\ \A g \in Files : g # f => row'[g] = row[g] /\ sha'[g] = sha[g] /\ link'[g] = link[g]
  BY <1>1, <1>2, <1>4
<1>6. HandClaim(f, h)
  BY <1>1 DEF HandClaim
<1> HIDE DEF f, h
<1>7. \A e, x : HandClaim(e, x)' => HandClaim(e, x)
  BY <1>1 DEF HandClaim
<1>8. ASSUME NEW e \in Files, NEW x, RowClaim(e, x)' PROVE Claim(e, x)
  <2>1. CASE row'[e] = "good" /\ x = sha'[e]
    BY <2>1, <1>5, <1>6 DEF Claim, RowClaim
  <2>2. ASSUME NEW g \in Files, link'[g] = e, x = sha'[g] PROVE Claim(e, x)
    BY <2>2, <1>3, <1>5 DEF Claim, RowClaim
  <2> QED BY <1>8, <2>1, <2>2 DEF RowClaim
<1>9. OneHash'
  BY <1>1, <1>7, <1>8, ClaimsAgree DEF LinkInv, Claim
<1>10. InHand'
  BY <1>1, <1>4, <1>5 DEF LinkInv, InHand
<1>11. \A g \in Files : link'[g] # NoFile => link'[g] # g /\ row'[link'[g]] # "none"
  BY <1>3, <1>5 DEF LinkInv
<1>12. /\ \A g \in Files : row'[g] = "good" => sha'[g] # Nothing
       /\ \A g \in Files : row'[g] = "none" => sha'[g] = Nothing
  BY <1>4, <1>5 DEF LinkInv
<1> QED BY <1>9, <1>10, <1>11, <1>12 DEF LinkInv

LEMMA RecordLinks ==
    ASSUME TypeOK, LinkInv, NEW p \in Procs, Record(p)
    PROVE  LinkInv'
<1> USE Constants DEF TypeOK, Held, Procs
<1> DEFINE f == cur[p]
<1>1. /\ UNCHANGED <<originals, cur, known, digest, todo, noted, rehashed>>
      /\ pc[p] = "record" /\ pc' = [pc EXCEPT ![p] = "event"]
      /\ row' = [row EXCEPT ![f] = "bad"] /\ sha' = [sha EXCEPT ![f] = aside[f]]
      /\ link' = [link EXCEPT ![f] = NoFile]
  BY DEF Record, HashAside, Goto, store, run, jobs
<1>2. f \in Files
  OBVIOUS
<1>3. /\ row'[f] = "bad" /\ link'[f] = NoFile
      /\ \A g \in Files : g # f => row'[g] = row[g] /\ sha'[g] = sha[g] /\ link'[g] = link[g]
  BY <1>1, <1>2
<1> HIDE DEF f
<1>4. \A e, x : HandClaim(e, x)' => HandClaim(e, x)
  BY <1>1 DEF HandClaim
<1>5. \A e \in Files : \A x : RowClaim(e, x)' => RowClaim(e, x)
  BY <1>3 DEF RowClaim
<1>6. OneHash'
  BY <1>1, <1>4, <1>5, ClaimsAgree DEF LinkInv, Claim
<1>7. InHand'
  BY <1>1, <1>3 DEF LinkInv, InHand
<1>8. \A g \in Files : link'[g] # NoFile => link'[g] # g /\ row'[link'[g]] # "none"
  BY <1>3 DEF LinkInv
<1>9. /\ \A g \in Files : row'[g] = "good" => sha'[g] # Nothing
      /\ \A g \in Files : row'[g] = "none" => sha'[g] = Nothing
  BY <1>3 DEF LinkInv
<1> QED BY <1>6, <1>7, <1>8, <1>9 DEF LinkInv

LEMMA DeduplicateLinks ==
    ASSUME TypeOK, LinkInv, Deduplicate
    PROVE  LinkInv'
<1> USE Constants DEF TypeOK, Held, Procs
<1>1. /\ UNCHANGED <<originals, row, sha, cur, known, digest, todo, noted, rehashed>>
      /\ pc["verify"] = "dedupe" /\ pc' = [pc EXCEPT !["verify"] = "idle"]
  BY DEF Deduplicate, Goto, store, run, jobs
<1>2. ASSUME NEW f \in Files, link'[f] # link[f]
      PROVE  /\ link'[f] \in Files /\ link'[f] # f
             /\ row[link'[f]] = "good" /\ sha[link'[f]] = sha[f]
  <2>1. /\ Cardinality(Group(sha[f])) > 1 /\ f # Canonical(sha[f])
        /\ link'[f] = Canonical(sha[f])
    BY <1>2 DEF Deduplicate
  <2>2. Group(sha[f]) # {}
    <3> SUFFICES ASSUME Group(sha[f]) = {} PROVE FALSE
      OBVIOUS
    <3>1. Cardinality({}) > 1
      BY <2>1
    <3> QED BY <3>1, FS_EmptySet
  <2>3. Group(sha[f]) \subseteq Nat
    BY DEF Group
  <2>4. Canonical(sha[f]) \in Group(sha[f])
    BY <2>2, <2>3, MinIsIn DEF Canonical
  <2> QED BY <2>1, <2>4 DEF Group
<1>3. \A e, x : HandClaim(e, x)' => HandClaim(e, x)
  BY <1>1 DEF HandClaim
<1>4. \A e \in Files : \A x : RowClaim(e, x)' => RowClaim(e, x)
  BY <1>1, <1>2 DEF RowClaim
<1>5. OneHash'
  BY <1>1, <1>3, <1>4, ClaimsAgree DEF LinkInv, Claim
<1>6. InHand'
  BY <1>1 DEF LinkInv, InHand
<1>7. \A g \in Files : link'[g] # NoFile => link'[g] # g /\ row'[link'[g]] # "none"
  BY <1>1, <1>2 DEF LinkInv
<1> QED BY <1>1, <1>5, <1>6, <1>7 DEF LinkInv

LEMMA LinkStep == TypeOK /\ StoreInv /\ LinkInv /\ [Next]_vars => LinkInv'
<1> SUFFICES ASSUME TypeOK, StoreInv, LinkInv, [Next]_vars PROVE LinkInv'
  OBVIOUS
<1> USE Constants DEF TypeOK, Held, Procs
<1>1. ASSUME NEW f \in Files, NEW c \in Contents, Rot(f, c) PROVE LinkInv'
  <2>1. UNCHANGED <<row, sha, link, pc, cur, known, digest, todo, noted, rehashed>>
        /\ \A p \in Procs : pc[p] = "idle"
    BY <1>1 DEF Rot, cat, proc, run, jobs
  <2>2. InHand'
    BY <2>1 DEF InHand
  <2>3. \A e, x : ~HandClaim(e, x)'
    BY <2>1 DEF HandClaim
  <2> QED BY <2>1, <2>2, <2>3, LessInHand
<1>2. ASSUME NEW f \in Files, NextFile(f) PROVE LinkInv'
  <2>1. /\ UNCHANGED <<originals, row, sha, link, noted, rehashed>>
        /\ pc["verify"] = "next" /\ f \in todo /\ todo' = todo \ {f}
        /\ pc' = [pc EXCEPT !["verify"] = "look"]
        /\ cur' = [cur EXCEPT !["verify"] = f]
        /\ known' = [known EXCEPT !["verify"] = noted[f]]
        /\ digest' = [digest EXCEPT !["verify"] = Nothing]
    BY <1>2 DEF NextFile, LookAt, store, cat, jobs
  <2>2. InHand'
    BY <2>1 DEF LinkInv, InHand
  <2>3. \A e, x : HandClaim(e, x)' => HandClaim(e, x)
    BY <2>1 DEF HandClaim
  <2> QED BY <2>1, <2>2, <2>3, LessInHand
\* A process moves on or ends, and what it had in hand stays or is dropped.
<1>3. ASSUME NEW p \in Procs, NEW point \in Points \ {"commit", "look"},
             p = "verify" /\ pc[p] = "idle" => point = "idle",
             pc' = [pc EXCEPT ![p] = point],
             \A q \in Procs : q # p => known'[q] = known[q] /\ digest'[q] = digest[q],
             UNCHANGED <<row, sha, link, cur, todo, noted, rehashed>>,
             \A f \in Files : originals'[f] \in {Nothing, originals[f]}
      PROVE  LinkInv'
  <2>1. InHand'
    BY <1>3 DEF LinkInv, InHand
  <2>2. ASSUME NEW e \in Files, NEW x, HandClaim(e, x)' PROVE Claim(e, x)
    BY <1>3, <2>2 DEF HandClaim, Claim
  <2> QED BY <1>3, <2>1, <2>2, RowsAlone
<1>4. CASE EndLoop
  BY <1>3, <1>4 DEF EndLoop, Goto, store, cat, run, jobs, Points
<1>5. ASSUME NEW p \in Procs, VerifyFile(p) PROVE LinkInv'
  <2>1. CASE Missing(p)
    <3>1. /\ UNCHANGED <<originals, row, sha, link, cur, todo, noted, rehashed>>
          /\ pc[p] = "look" /\ pc' = [pc EXCEPT ![p] = After(p)]
          /\ known' = [known EXCEPT ![p] = Nothing]
          /\ digest' = [digest EXCEPT ![p] = Nothing]
      BY <2>1 DEF Missing, Leave, Goto, store, cat, run, jobs
    <3>2. After(p) \in Points \ {"commit", "look"}
      BY DEF After, Points
    <3> QED BY <1>3, <3>1, <3>2
  <2>2. CASE Reject(p)
    BY <1>3, <2>2 DEF Reject, Goto, store, cat, run, jobs, Points
  <2>3. CASE Accept(p)
    <3>1. /\ UNCHANGED <<originals, row, sha, link, cur, known, todo, noted, rehashed>>
          /\ pc[p] = "look" /\ pc' = [pc EXCEPT ![p] = "commit"]
          /\ originals[cur[p]] # Nothing
          /\ digest' = [digest EXCEPT ![p] = Hash(originals[cur[p]], known[p])]
      BY <2>3 DEF Accept, Goto, store, cat, run, jobs
    <3>2. InHand'
      BY <3>1 DEF LinkInv, InHand, Hash
    <3>3. \A e, x : HandClaim(e, x)' => HandClaim(e, x)
      BY <3>1 DEF HandClaim
    <3> QED BY <3>1, <3>2, <3>3, LessInHand
  <2>4. CASE Commit(p)
    BY <2>4, CommitLinks
  <2>5. CASE Move(p)
    <3>1. /\ UNCHANGED <<row, sha, link, cur, known, digest, todo, noted, rehashed>>
          /\ pc[p] = "move" /\ pc' = [pc EXCEPT ![p] = "record"]
          /\ originals' = [originals EXCEPT ![cur[p]] = Nothing]
      BY <2>5 DEF Move, Goto, cat, run, jobs
    <3>2. \A f \in Files : originals'[f] \in {Nothing, originals[f]}
      BY <3>1
    <3> QED BY <1>3, <3>1, <3>2 DEF Points
  <2>6. CASE Record(p)
    BY <2>6, RecordLinks
  <2>7. CASE AddEvent(p)
    <3>1. /\ UNCHANGED <<originals, row, sha, link, cur, todo, noted, rehashed>>
          /\ pc[p] = "event" /\ pc' = [pc EXCEPT ![p] = After(p)]
          /\ known' = [known EXCEPT ![p] = Nothing]
          /\ digest' = [digest EXCEPT ![p] = Nothing]
      BY <2>7 DEF AddEvent, Leave, Goto, store, cat, run, jobs
    <3>2. After(p) \in Points \ {"commit", "look"}
      BY DEF After, Points
    <3> QED BY <1>3, <3>1, <3>2
  <2> QED BY <1>5, <2>1, <2>2, <2>3, <2>4, <2>5, <2>6, <2>7 DEF VerifyFile
<1>6. CASE Raise
  BY <1>3, <1>6 DEF Raise, Leave, Goto, store, cat, run, Points
<1>7. ASSUME NEW p \in Procs, Die(p) PROVE LinkInv'
  BY <1>3, <1>7 DEF Die, Leave, Goto, store, cat, run, jobs, Points
<1>8. CASE Index \/ UNCHANGED vars
  <2>1. UNCHANGED <<originals, row, sha, link, pc, cur, known, digest, todo, noted, rehashed>>
    BY <1>8 DEF Index, store, proc, run, jobs, vars
  <2>2. InHand'
    BY <2>1 DEF LinkInv, InHand
  <2>3. \A e, x : HandClaim(e, x)' => HandClaim(e, x)
    BY <2>1 DEF HandClaim
  <2> QED BY <2>1, <2>2, <2>3, LessInHand
<1> QED
  BY <1>1, <1>2, <1>4, <1>5, <1>6, <1>7, <1>8,
     StoreLinks, RecheckLinks, SelectLinks, DeduplicateLinks DEF Next

(* A duplicate is linked to another file, with a row and, while that is     *)
(* good and was not hashed anew by a later acquire, with the same hash.     *)
THEOREM LinkAlwaysSame == Spec => []LinkIsSame
<1>1. Init => LinkInv
  BY Constants DEF Init, LinkInv, OneHash, Claim, RowClaim, HandClaim, InHand, Procs
<1>2. TypeOK /\ LinkInv => LinkIsSame
  <2> SUFFICES ASSUME TypeOK, LinkInv, NEW f \in Files, link[f] # NoFile
               PROVE  /\ link[f] # f
                      /\ row[link[f]] # "none"
                      /\ row[link[f]] = "good" /\ link[f] \notin rehashed =>
                             sha[link[f]] = sha[f]
    BY DEF LinkIsSame
  <2>1. link[f] \in Files /\ sha[f] \in Held /\ sha[link[f]] \in Held
    BY DEF TypeOK
  <2>2. Claim(link[f], sha[f])
    BY DEF Claim, RowClaim
  <2>3. row[link[f]] = "good" => Claim(link[f], sha[link[f]])
    BY DEF Claim, RowClaim
  <2> QED BY <2>1, <2>2, <2>3 DEF LinkInv, OneHash
<1> QED BY <1>1, <1>2, LinkStep, TypeCorrect, StoreInvariant, PTL DEF Spec
=============================================================================
