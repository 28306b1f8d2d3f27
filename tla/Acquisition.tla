---------------------------- MODULE Acquisition ----------------------------
(***************************************************************************)
(* What the downloader promises the rest of the program about each job,    *)
(* without processes, requests, chunks or crashes: where its file is and   *)
(* what the job ledger and the local_files table say of it.                *)
(*                                                                         *)
(* A file is staged, then stored, then perhaps set aside; the ledger is    *)
(* closed as done only over a stored file and as failed only without one;  *)
(* a file is admitted, and an admission withdrawn, only while the ledger   *)
(* says it is done.  An exception may reopen the ledger over a file that   *)
(* is admitted: it is then checked again, and may be set aside before its  *)
(* admission is withdrawn.                                                 *)
(***************************************************************************)
CONSTANT Jobs

VARIABLES
    place,      \* "remote", "staged", "stored" or "aside"
    ledger,     \* "open", "done" or "failed"
    admitted    \* the jobs with a good local_files row

avars == <<place, ledger, admitted>>

Places  == {"remote", "staged", "stored", "aside"}
Ledgers == {"open", "done", "failed"}

Init ==
    /\ place = [j \in Jobs |-> "remote"]
    /\ ledger = [j \in Jobs |-> "open"]
    /\ admitted = {}

\* Bytes arrive, or those that had are thrown away.
Stage(j) ==
    /\ ledger[j] = "open"
    /\ place[j] \in {"remote", "staged"}
    /\ \E p \in {"remote", "staged"} : place' = [place EXCEPT ![j] = p]
    /\ UNCHANGED <<ledger, admitted>>

\* The whole file appears under originals/, before the ledger knows.
Store(j) ==
    /\ ledger[j] = "open"
    /\ place[j] \in {"staged", "aside"}
    /\ place' = [place EXCEPT ![j] = "stored"]
    /\ UNCHANGED <<ledger, admitted>>

Close(j) ==
    /\ ledger[j] = "open"
    /\ place[j] = "stored"
    /\ ledger' = [ledger EXCEPT ![j] = "done"]
    /\ UNCHANGED <<place, admitted>>

Fail(j) ==
    /\ ledger[j] = "open"
    /\ place[j] # "stored"
    /\ ledger' = [ledger EXCEPT ![j] = "failed"]
    /\ UNCHANGED <<place, admitted>>

Admit(j) ==
    /\ ledger[j] = "done"
    /\ place[j] = "stored"
    /\ admitted' = admitted \cup {j}
    /\ UNCHANGED <<place, ledger>>

SetAside(j) ==
    /\ ledger[j] = "done"
    /\ place[j] = "stored"
    /\ place' = [place EXCEPT ![j] = "aside"]
    /\ UNCHANGED <<ledger, admitted>>

Withdraw(j) ==
    /\ ledger[j] = "done"
    /\ place[j] = "aside"
    /\ admitted' = admitted \ {j}
    /\ UNCHANGED <<place, ledger>>

\* An exception puts the job back in the queue.
Reopen(j) ==
    /\ ledger[j] \in {"done", "failed"}
    /\ ledger' = [ledger EXCEPT ![j] = "open"]
    /\ UNCHANGED <<place, admitted>>

Next ==
    \E j \in Jobs :
        \/ Stage(j)
        \/ Store(j)
        \/ Close(j)
        \/ Fail(j)
        \/ Admit(j)
        \/ SetAside(j)
        \/ Withdraw(j)
        \/ Reopen(j)

Spec == Init /\ [][Next]_avars
=============================================================================
