------------------------ MODULE LocalFilesProperties ------------------------
(* What verification promises of the stored files and of their rows.        *)
EXTENDS LocalFiles

(* No file that was stored is ever lost: whatever is verified, rejected or  *)
(* interrupted, it is under originals/ or under quarantine/.                *)
NothingLost ==
    \A f \in Files : status[f] # "absent" => originals[f] # Nothing \/ aside[f] # Nothing

(* A quarantined row has its file in quarantine/ and carries the hash of    *)
(* what is there, which need not be the hash the file once had.             *)
QuarantineRecorded ==
    \A f \in Files : row[f] = "bad" => aside[f] # Nothing /\ sha[f] = aside[f]

(* What the two need of every step: before a download there is nothing, a   *)
(* file is in one place, and what is being verified was stored.             *)
Busy(p) == pc[p] \in {"look", "commit", "move", "record"}

StoreInv ==
    /\ NothingLost
    /\ QuarantineRecorded
    /\ \A f \in Files : status[f] = "absent" =>
          /\ row[f] = "none" /\ f \notin todo
          /\ originals[f] = Nothing /\ aside[f] = Nothing
    /\ \A f \in Files : aside[f] = Nothing \/ originals[f] = Nothing
    /\ \A p \in Procs : Busy(p) => status[cur[p]] # "absent"
    /\ \A p \in Procs : pc[p] = "record" => aside[cur[p]] # Nothing

(* A duplicate is a duplicate: its link names another file, with a row and, *)
(* as long as that is good, with the same hash; although rows are verified  *)
(* again, rot, are quarantined and linked by two processes.  The one way    *)
(* out is left to acquire: a file that changed after its row was good and   *)
(* is then found by a later acquire is hashed anew, and the links to it     *)
(* stay as they were.                                                       *)
LinkIsSame ==
    \A f \in Files : link[f] # NoFile =>
        /\ link[f] # f
        /\ row[link[f]] # "none"
        /\ row[link[f]] = "good" /\ link[f] \notin rehashed => sha[link[f]] = sha[f]

(* Why links stay true while two processes are at one file.  A hash is      *)
(* claimed for a file by its good row, by the rows linked to it, by what a  *)
(* process has in hand and by what verify has noted; all claims for a file  *)
(* agree.  That is so because the content of a file does not change between *)
(* a download and the end of its verification, and because verify commits   *)
(* the hash it noted.                                                       *)
RowClaim(f, x) ==
    \/ row[f] = "good" /\ x = sha[f]
    \/ \E g \in Files : link[g] = f /\ x = sha[g]

HandClaim(f, x) ==
    \/ \E p \in Procs : cur[p] = f /\ pc[p] = "commit" /\ x = digest[p]
    \/ /\ originals[f] # Nothing
       /\ \/ \E p \in Procs : cur[p] = f /\ pc[p] = "look"
                            /\ x = Hash(originals[f], known[p])
          \/ pc["verify"] # "idle" /\ f \in todo /\ x = Hash(originals[f], noted[f])

Claim(f, x) == RowClaim(f, x) \/ HandClaim(f, x)

OneHash ==
    \A f \in Files \ rehashed : \A x, y \in Held : Claim(f, x) /\ Claim(f, y) => x = y

\* What acquire has in hand is the hash of what is there, and so is what verify
\* has of a file without a row; of any file it has a hash.
InHand ==
    /\ pc["acquire"] = "look" /\ known["acquire"] # Nothing =>
          originals[cur["acquire"]] \in {Nothing, known["acquire"]}
    /\ \A p \in Procs :
          pc[p] = "commit" =>
              /\ digest[p] # Nothing
              /\ p = "acquire" \/ row[cur[p]] = "none" =>
                    originals[cur[p]] \in {Nothing, digest[p]}
    /\ pc["verify"] = "look" /\ row[cur["verify"]] = "none" => known["verify"] = Nothing
    /\ pc["verify"] # "idle" => \A f \in todo : row[f] = "none" => noted[f] = Nothing

LinkInv ==
    /\ \A f \in Files : link[f] # NoFile => link[f] # f /\ row[link[f]] # "none"
    /\ OneHash
    /\ InHand
    /\ \A f \in Files : row[f] = "good" => sha[f] # Nothing
    /\ \A f \in Files : row[f] = "none" => sha[f] = Nothing
=============================================================================
