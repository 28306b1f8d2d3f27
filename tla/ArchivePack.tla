---------------------------- MODULE ArchivePack ----------------------------
(***************************************************************************)
(* curation/archive_pack.py: run_archive_pack lists the files, takes size  *)
(* and hash of each, groups them by estimated size, writes the volumes     *)
(* into a staging directory, splitting a group that turns out too large,   *)
(* checks the staged pack by restoring it, and renames it into place.      *)
(* run_archive_restore_check restores a published pack.  Other commands    *)
(* may change the files at any time.                                       *)
(* An entry of the manifest is [file, size, sha]; a volume is the sequence *)
(* of its members [file, data]; a hash stands for the content it is of.    *)
(***************************************************************************)
EXTENDS Integers, SequencesExt

CONSTANTS
    Files,    \* the candidates: numbers, in the order _collect_files sorts them
    Contents, \* what a file may hold
    Size,     \* bytes of each content
    Packed,   \* what a member with this content adds to a compressed volume
    Block,    \* 512: tar header of a member, and unit of its data
    Trailer,  \* 10_240: end of a tar file
    Limit,    \* volume_limit_bytes_exclusive
    Live,     \* files that other commands may change during a run
    Crashes   \* may the process die?

Gone == "gone"    \* no such file
Torn == "torn"    \* parts of two contents

ASSUME ArchiveAssumption ==
    /\ Files \subseteq Nat
    /\ IsFiniteSet(Files)
    /\ {Gone, Torn} \cap Contents = {}
    /\ Size \in [Contents -> Nat]
    /\ Packed \in [Contents \cup {Torn} -> Nat]
    /\ Block \in Nat \ {0}
    /\ Trailer \in Nat
    /\ Limit \in Nat
    /\ Live \subseteq Files
    /\ Crashes \in BOOLEAN

VARIABLES
    src,      \* the files
    touched,  \* history: has a file changed during this run?
    pc,       \* "idle", "stat", "hash", "pack", "copy", "check" or "publish"
    files,    \* the files still to be listed
    entries,  \* manifest_entries
    groups,   \* the groups still to be written, the halves of a split in front
    info,     \* size of the member being copied
    writing,  \* members in the temporary volume
    staged,   \* is there a staging directory?
    staging,  \* its volumes
    hints,    \* published_entries: the entries of each volume
    pack,     \* what is at the destination
    restored  \* what the last good restore put there: pairs of file and content

work == <<files, entries, groups, info, writing, hints>>
vars == <<src, touched, pc, work, staged, staging, pack, restored>>

Held   == Contents \cup {Gone}
Data   == Contents \cup {Torn}
Sizes  == {Size[c] : c \in Contents}
Entry  == [file : Files, size : Sizes, sha : Held]
Member == [file : Files, data : Data]
Packing == {"pack", "copy", "check", "publish"}

NoPack == [published |-> FALSE, intact |-> TRUE, count |-> 0,
           volumes |-> <<>>, sealed |-> <<>>, hints |-> <<>>]

Init ==
    /\ src \in [Files -> Held]
    /\ touched = FALSE
    /\ pc = "idle"
    /\ files = <<>> /\ entries = <<>> /\ groups = <<>>
    /\ info = 0 /\ writing = <<>> /\ hints = <<>>
    /\ staged = FALSE /\ staging = <<>>
    /\ pack = NoPack
    /\ restored = {}

-----------------------------------------------------------------------------
(* Sizes: estimated before a volume is written, measured afterwards.       *)

Total(S(_), s) == FoldLeft(LAMBDA sum, x : sum + S(x), 0, s)

TarBytes(e) == Block + ((e.size + Block - 1) \div Block) * Block

Estimate(group) == Trailer + Total(TarBytes, group)

CompressedBytes(volume) == Total(LAMBDA x : Packed[x.data], volume)

\* Variant: up to the limit.
FitsUpTo(volume) == CompressedBytes(volume) =< Limit
Fits(volume)     == CompressedBytes(volume) < Limit

\* An entry joins the last group unless that would make it too large.
Place(gs, e) ==
    IF gs # <<>> /\ Estimate(Append(Last(gs), e)) < Limit
    THEN [gs EXCEPT ![Len(gs)] = Append(@, e)]
    ELSE Append(gs, <<e>>)

Grouped == FoldLeft(Place, <<>>, entries)

\* Variants: the second half starts one late; a group is tried again whole.
HalvesApart(g) == <<SubSeq(g, 1, Len(g) \div 2), SubSeq(g, Len(g) \div 2 + 2, Len(g))>>
Again(g)       == <<g>>
Halves(g)      == <<SubSeq(g, 1, Len(g) \div 2), SubSeq(g, Len(g) \div 2 + 1, Len(g))>>

-----------------------------------------------------------------------------
(* run_archive_restore_check.                                              *)

\* Variant: names only.
VolumeNames(volume, hint) ==
    /\ Len(volume) = Len(hint)
    /\ \A j \in DOMAIN hint : volume[j].file = hint[j].file

\* Every member is expected, none is missing, and each has its size and hash.
Matches(x, e) == x.file = e.file /\ x.data = e.sha /\ Size[e.sha] = e.size

VolumeOK(volume, hint) ==
    /\ \A x \in ToSet(volume) : \E e \in ToSet(hint) : Matches(x, e)
    /\ \A e \in ToSet(hint) : \E x \in ToSet(volume) : Matches(x, e)
    /\ IsInjective([j \in DOMAIN volume |-> volume[j].file])

CheckOK(p) ==
    /\ p.intact
    /\ p.volumes = p.sealed
    /\ DOMAIN p.hints = DOMAIN p.volumes
    /\ \A i \in DOMAIN p.volumes :
          /\ CompressedBytes(p.volumes[i]) < Limit
          /\ VolumeOK(p.volumes[i], p.hints[i])
    /\ LET listed == FlattenSeq(p.hints)
       IN  /\ p.count = Len(listed)
           /\ IsInjective([k \in DOMAIN listed |-> listed[k].file])

Extracted(volumes) ==
    UNION {{<<x.file, x.data>> : x \in ToSet(volumes[i])} : i \in DOMAIN volumes}

Staged == [published |-> TRUE, intact |-> TRUE, count |-> Len(entries),
           volumes |-> staging, sealed |-> staging, hints |-> hints]

-----------------------------------------------------------------------------
(* run_archive_pack.  First the list, with size and hash of each file ...  *)

Sorted(s) == \A i, j \in DOMAIN s : i < j => s[i] < s[j]

Present == CHOOSE s \in SetToSeqs({f \in Files : src[f] # Gone}) : Sorted(s)

\* limit_files keeps the first n.
Start(n) ==
    /\ pc = "idle"
    /\ files' = SubSeq(Present, 1, n)
    /\ pc' = "stat"
    /\ UNCHANGED <<src, touched, entries, groups, info, writing, hints, staged, staging,
                   pack, restored>>

StatFile ==
    /\ pc = "stat"
    /\ files # <<>>
    /\ src[Head(files)] # Gone
    /\ entries' = Append(entries, [file |-> Head(files), size |-> Size[src[Head(files)]],
                                   sha |-> Gone])
    /\ pc' = "hash"
    /\ UNCHANGED <<src, touched, files, groups, info, writing, hints, staged, staging,
                   pack, restored>>

HashFile ==
    /\ pc = "hash"
    /\ src[Head(files)] # Gone
    /\ entries' = [entries EXCEPT ![Len(entries)].sha = src[Head(files)]]
    /\ files' = Tail(files)
    /\ pc' = "stat"
    /\ UNCHANGED <<src, touched, groups, info, writing, hints, staged, staging, pack,
                   restored>>

\* ... then the groups; what a run that died has left is removed.
Open ==
    /\ pc = "stat"
    /\ files = <<>>
    /\ ~pack.published
    /\ groups' = Grouped
    /\ staging' = <<>>
    /\ staged' = TRUE
    /\ pc' = "pack"
    /\ UNCHANGED <<src, touched, files, entries, info, writing, hints, pack, restored>>

\* _write_deterministic_volume: the header of a member, then its data.
NextMember == Head(groups)[Len(writing) + 1].file

Incomplete == groups # <<>> /\ Len(writing) < Len(Head(groups))
Complete   == groups # <<>> /\ Len(writing) = Len(Head(groups))

TarInfo ==
    /\ pc = "pack"
    /\ Incomplete
    /\ src[NextMember] # Gone
    /\ info' = Size[src[NextMember]]
    /\ pc' = "copy"
    /\ UNCHANGED <<src, touched, files, entries, groups, writing, hints, staged, staging,
                   pack, restored>>

\* What the first n bytes of a file are that holds c.
\* Variant: a file that has grown is recorded as missing.
FirstBytesOrGone(c, n) == IF Size[c] = n THEN {c} ELSE {Gone}
FirstBytes(c, n) ==
    IF Size[c] = n THEN {c} ELSE {d \in Contents : Size[d] = n} \cup {Torn}

AddFile ==
    /\ pc = "copy"
    /\ src[NextMember] # Gone
    /\ Size[src[NextMember]] >= info
    /\ \E d \in FirstBytes(src[NextMember], info) :
          writing' = Append(writing, [file |-> NextMember, data |-> d])
    /\ pc' = "pack"
    /\ UNCHANGED <<src, touched, files, entries, groups, info, hints, staged, staging,
                   pack, restored>>

CloseVolume ==
    /\ pc = "pack"
    /\ Complete
    /\ Fits(writing)
    /\ staging' = Append(staging, writing)
    /\ hints' = Append(hints, Head(groups))
    /\ groups' = Tail(groups)
    /\ writing' = <<>>
    /\ UNCHANGED <<src, touched, pc, files, entries, info, staged, pack, restored>>

Split ==
    /\ pc = "pack"
    /\ Complete
    /\ ~Fits(writing)
    /\ Len(writing) > 1
    /\ groups' = Halves(Head(groups)) \o Tail(groups)
    /\ writing' = <<>>
    /\ UNCHANGED <<src, touched, pc, files, entries, info, hints, staged, staging, pack,
                   restored>>

Seal ==
    /\ pc = "pack"
    /\ groups = <<>>
    /\ pc' = "check"
    /\ UNCHANGED <<src, touched, work, staged, staging, pack, restored>>

Check ==
    /\ pc = "check"
    /\ CheckOK(Staged)
    /\ pc' = "publish"
    /\ UNCHANGED <<src, touched, work, staged, staging, pack, restored>>

\* The run is over and its variables are gone.
Ended ==
    /\ pc' = "idle"
    /\ files' = <<>> /\ entries' = <<>> /\ groups' = <<>>
    /\ info' = 0 /\ writing' = <<>> /\ hints' = <<>>
    /\ touched' = FALSE
    /\ UNCHANGED <<src, restored>>

Publish ==
    /\ pc = "publish"
    /\ pack' = Staged
    /\ staged' = FALSE
    /\ staging' = <<>>
    /\ Ended

\* There is a pack already: what a run that died has left is removed all the same.
Refuse ==
    /\ pc = "stat"
    /\ files = <<>>
    /\ pack.published
    /\ staged' = FALSE
    /\ staging' = <<>>
    /\ Ended
    /\ UNCHANGED pack

\* An exception: the staging directory, if this run has made one, is removed.
Raise ==
    /\ IF pc \in Packing THEN staged' = FALSE /\ staging' = <<>>
                         ELSE UNCHANGED <<staged, staging>>
    /\ Ended
    /\ UNCHANGED pack

Vanished ==
    \/ pc = "stat" /\ files # <<>> /\ src[Head(files)] = Gone
    \/ pc = "hash" /\ src[Head(files)] = Gone
    \/ pc = "pack" /\ Incomplete /\ src[NextMember] = Gone
    \/ pc = "copy" /\ src[NextMember] = Gone

Shrunk   == pc = "copy" /\ src[NextMember] # Gone /\ Size[src[NextMember]] < info
TooLarge == pc = "pack" /\ Complete /\ ~Fits(writing) /\ Len(writing) = 1
BadStage == pc = "check" /\ ~CheckOK(Staged)

GiveUp == (Vanished \/ Shrunk \/ TooLarge \/ BadStage) /\ Raise

\* External: an I/O error or Ctrl-C; the death of the process.
Interrupt == pc # "idle" /\ Raise

Die ==
    /\ Crashes
    /\ pc # "idle"
    /\ Ended
    /\ UNCHANGED <<staged, staging, pack>>

-----------------------------------------------------------------------------
\* External: another command.
Change(f, c) ==
    /\ src[f] # c
    /\ src' = [src EXCEPT ![f] = c]
    /\ touched' = (pc # "idle")
    /\ UNCHANGED <<pc, work, staged, staging, pack, restored>>

\* External: the medium the pack is kept on.  A volume is lost, a member
\* changes, or the manifest does.  Bound: one such decay.
Rotten(p) ==
    {[p EXCEPT !.intact = FALSE]}
    \cup {[p EXCEPT !.volumes = RemoveAt(@, i)] : i \in DOMAIN p.volumes}
    \cup UNION {{[p EXCEPT !.volumes[i][j].data = d] : j \in DOMAIN p.volumes[i], d \in Data} :
                i \in DOMAIN p.volumes}

Rot ==
    /\ pc = "idle"
    /\ pack.published
    /\ pack.volumes = pack.sealed /\ pack.intact
    /\ pack' \in Rotten(pack)
    /\ UNCHANGED <<src, touched, pc, work, staged, staging, restored>>

\* run_archive_restore_check with extract_to: all or nothing.
Restore ==
    /\ pc = "idle"
    /\ pack.published
    /\ CheckOK(pack)
    /\ restored' = Extracted(pack.volumes)
    /\ UNCHANGED <<src, touched, pc, work, staged, staging, pack>>

-----------------------------------------------------------------------------
Work ==
    \/ StatFile \/ HashFile \/ Open \/ Refuse
    \/ TarInfo \/ AddFile \/ CloseVolume \/ Split
    \/ Seal \/ Check \/ Publish
    \/ GiveUp

Next ==
    \/ \E n \in 0..Len(Present) : Start(n)
    \/ Work
    \/ Interrupt \/ Die
    \/ \E f \in Live, c \in Held : Change(f, c)
    \/ Rot \/ Restore

Spec == Init /\ [][Next]_vars

\* A run goes on until it ends; nobody has to start one.
FairSpec == Spec /\ WF_vars(Work)
=============================================================================
