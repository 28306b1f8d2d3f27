----------------------- MODULE ArchivePackProperties -----------------------
(* What an archive promises: all of it, true, and not too large.            *)
EXTENDS ArchivePack

TypeOK ==
    /\ src \in [Files -> Held]
    /\ touched \in BOOLEAN
    /\ pc \in {"idle", "stat", "hash"} \cup Packing
    /\ files \in Seq(Files)
    /\ entries \in Seq(Entry)
    /\ groups \in Seq(Seq(Entry))
    /\ info \in Sizes \cup {0}
    /\ writing \in Seq(Member)
    /\ staged \in BOOLEAN
    /\ staging \in Seq(Seq(Member))
    /\ hints \in Seq(Seq(Entry))
    /\ pack.published \in BOOLEAN /\ pack.intact \in BOOLEAN /\ pack.count \in Nat
    /\ pack.volumes \in Seq(Seq(Member)) /\ pack.sealed \in Seq(Seq(Member))
    /\ pack.hints \in Seq(Seq(Entry))
    /\ restored \subseteq Files \X Data

(* However the groups are cut and split, the volumes written and the groups *)
(* still to be written are the list of entries, each once and in order, and *)
(* each volume holds the files its entries name; none is missing when the   *)
(* pack is published.                                                       *)
NothingDropped ==
    /\ pc \in Packing =>
          /\ FlattenSeq(hints \o groups) = entries
          /\ Len(staging) = Len(hints)
          /\ \A i \in DOMAIN staging :
                [j \in DOMAIN staging[i] |-> staging[i][j].file] =
                [j \in DOMAIN hints[i] |-> hints[i][j].file]
    /\ pack.published => Len(FlattenSeq(pack.hints)) = pack.count

Promised(p) ==
    UNION {{<<e.file, e.sha>> : e \in ToSet(p.hints[i])} : i \in DOMAIN p.hints}

(* A published pack holds what its manifest says, in volumes below the      *)
(* limit, although the files may change between listing, hashing and        *)
(* copying.                                                                 *)
PackIsTrue ==
    pack.published =>
        /\ Extracted(pack.sealed) = Promised(pack)
        /\ \A i \in DOMAIN pack.sealed : CompressedBytes(pack.sealed[i]) < Limit

(* A restore puts there exactly what the manifest says or nothing, whatever *)
(* has happened to the volumes or the manifest since.                       *)
RestoreIsTrue == restored # {} => pack.published /\ restored = Promised(pack)

(* What the two need of every step: a run that finds a pack stops before it *)
(* stages one, and what is about to be published has passed the check.      *)
PackInv ==
    /\ PackIsTrue
    /\ RestoreIsTrue
    /\ pc \in Packing => ~pack.published
    /\ pc = "publish" => CheckOK(Staged)
    /\ pack \in [published : {pack.published}, intact : {pack.intact},
                 count : {pack.count}, volumes : {pack.volumes},
                 sealed : {pack.sealed}, hints : {pack.hints}]

(* How nothing is dropped: before the groups are cut there are none, the     *)
(* members written so far are the first of the group in front, and what is   *)
(* checked or published has no group left to write.                          *)
KeptInv ==
    /\ NothingDropped
    /\ pc \notin Packing => groups = <<>> /\ hints = <<>> /\ writing = <<>>
    /\ pc = "hash" => files # <<>> /\ entries # <<>>
    /\ pc = "copy" => Incomplete
    /\ pc \in {"check", "publish"} => groups = <<>>
    /\ writing # <<>> => groups # <<>>
    /\ \A j \in DOMAIN writing : writing[j].file = Head(groups)[j].file

(* The check of the staged pack refuses only a pack whose files have changed *)
(* under it.                                                                 *)
NoFalseAlarm == pc = "check" /\ ~touched => CheckOK(Staged)

(* Why: a file is listed once, and as long as no file has changed the        *)
(* entries, the member being copied and the members written are true of the  *)
(* files, and every staged volume has passed the limit.                      *)
ListedOnce ==
    /\ IsInjective(files)
    /\ IsInjective([k \in DOMAIN entries |-> entries[k].file])
    /\ \A k \in DOMAIN entries, m \in DOMAIN files :
          entries[k].file = files[m] <=> pc = "hash" /\ k = Len(entries) /\ m = 1

SizeTrue(e)   == src[e.file] # Gone /\ e.size = Size[src[e.file]]
EntryTrue(e)  == SizeTrue(e) /\ e.sha = src[e.file]
VolumeTrue(v) == \A j \in DOMAIN v : v[j].data = src[v[j].file]

TrueInv ==
    /\ ListedOnce
    /\ pc \in Packing => \A i \in DOMAIN staging : Fits(staging[i])
    /\ pc = "idle" => ~touched /\ files = <<>> /\ entries = <<>>
    /\ ~touched =>
          /\ \A k \in DOMAIN entries :
                /\ SizeTrue(entries[k])
                /\ EntryTrue(entries[k]) \/ (pc = "hash" /\ k = Len(entries))
          /\ pc = "copy" => src[NextMember] # Gone /\ info = Size[src[NextMember]]
          /\ VolumeTrue(writing)
          /\ pc \in Packing => \A i \in DOMAIN staging : VolumeTrue(staging[i])

(* A run is over in the end: the splitting of a group does not go on for    *)
(* ever.                                                                    *)
PackEnds == pc # "idle" ~> pc = "idle"
=============================================================================
