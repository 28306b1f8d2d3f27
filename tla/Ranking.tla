------------------------------ MODULE Ranking ------------------------------
(***************************************************************************)
(* What the scheduler compares: the order in which an estimate serves      *)
(* resources, and what their sizes add up to.  A resource is a number, its *)
(* place in the order of the ids; its size is NoSize if no probe told it.  *)
(***************************************************************************)
EXTENDS Integers, FiniteSetsExt

CONSTANTS
    Resources, \* resource ids: numbers, in the order of the ids
    Priority,  \* resources.priority of each resource
    Cap,       \* initial_batch_cap_gib
    MaxFile    \* max_file_gib

ASSUME RankingAssumption ==
    /\ Resources \subseteq Nat
    /\ IsFiniteSet(Resources)
    /\ Priority \in [Resources -> Nat]
    /\ Cap \in Nat
    /\ MaxFile \in Nat

NoSize == -1
Sizes  == {n \in Int : n >= NoSize}

\* int(row["priority"] or 100): no priority and priority 0 are ranked as 100.
Rank(r) == IF Priority[r] = 0 THEN 100 ELSE Priority[r]

\* The key of rank_resources: priority, known before unknown, smaller, id.
\* Variant: an unknown size counts as the smallest.
KeyOfSize(r, size) == <<Rank(r), 0, size[r], r>>
Key(r, size)       == <<Rank(r), IF size[r] = NoSize THEN 1 ELSE 0, size[r], r>>

Before(size, a, b) ==
    \E i \in 1..4 :
        /\ Key(a, size)[i] < Key(b, size)[i]
        /\ \A k \in 1..(i - 1) : Key(a, size)[k] = Key(b, size)[k]

\* Variant: an unknown size is added as it is stored.
KnownRaw(r, size) == size[r]
Known(r, size)    == IF size[r] = NoSize THEN 0 ELSE size[r]

Bytes(S, size) == MapThenSumSet(LAMBDA r : Known(r, size), S)

\* Variant: files above the limit stay in.
FitsAnyway(S, size) == S
Fits(S, size)       == {r \in S : size[r] <= MaxFile}

\* What an estimate uses of the batches is the first, as a set: the files
\* that stay under the cap together with all that come before them.
FirstBatch(S, size) ==
    LET upto(r) == {x \in Fits(S, size) : x = r \/ Before(size, x, r)}
    IN  {r \in Fits(S, size) : upto(r) = {r} \/ Bytes(upto(r), size) <= Cap}
=============================================================================
