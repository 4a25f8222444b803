----------------------------- MODULE Downloads ------------------------------
(***************************************************************************)
(* The downloads of one model (crates/daemon/src/catalog.rs): a job per    *)
(* request, all into the same directory, file by file through a ".part"    *)
(* file that is renamed at its end; and the clients that cancel them.      *)
(* Every patch_job takes the lock of the map on its own, so a status can   *)
(* be written by the job and by a cancellation in any order.               *)
(***************************************************************************)
EXTENDS Integers

CONSTANTS Jobs, FileCount, None

DownloadsAssumption == FileCount \in Nat \ {0} /\ None \notin Jobs

Files == 1..FileCount
Terminal == {"completed", "failed", "cancelled"}

VARIABLES
    pc,         \* pc[j]: where execute_download is
    file,       \* file[j]: the file it is at
    status,     \* DownloadJob::status
    canCancel,  \* DownloadJob::can_cancel
    flag,       \* flag[j]: the cancel flag: "none", "down", "up"
    asked,      \* asked[j]: where a cancel_download of the job is, or None
    inode,      \* inode[j]: the file it writes, named by the job that created it
    owner,      \* owner[i][f]: the job that truncated that inode last
    content,    \* content[i][f]: "torn" or "whole"
    part,       \* part[f]: the inode of the ".part" file, or None
    target,     \* target[f]: the inode of the file itself, or None
    crowded,    \* ghost: the jobs made before or as two were alive at once
    late        \* ghost: jobs that a cancellation wrote "cancelling" over their end

inodes == <<inode, owner, content>>
disk == <<part, target>>
vars == <<pc, file, status, canCancel, flag, asked, inodes, disk, crowded, late>>

Alive(j) == pc[j] \notin {"none", "over"}

Init == /\ pc = [j \in Jobs |-> "none"] /\ file = [j \in Jobs |-> 1]
        /\ status = [j \in Jobs |-> "none"] /\ canCancel = [j \in Jobs |-> FALSE]
        /\ flag = [j \in Jobs |-> "none"] /\ asked = [j \in Jobs |-> None]
        /\ inode = [j \in Jobs |-> None]
        /\ owner = [j \in Jobs |-> [f \in Files |-> None]]
        /\ content = [j \in Jobs |-> [f \in Files |-> "torn"]]
        /\ part = [f \in Files |-> None] /\ target = [f \in Files |-> None]
        /\ crowded = {} /\ late = {}

Go(j, p) == pc' = [pc EXCEPT ![j] = p]
Show(j, s) == status' = [status EXCEPT ![j] = s]

Create(j) ==
    /\ pc[j] = "none" /\ Go(j, "start") /\ Show(j, "queued")
    /\ canCancel' = [canCancel EXCEPT ![j] = TRUE] /\ flag' = [flag EXCEPT ![j] = "down"]
    /\ crowded' = IF \E k \in Jobs : Alive(k) THEN {k \in Jobs : pc[k] # "none"} \cup {j} ELSE crowded
    /\ UNCHANGED <<file, asked, inodes, disk, late>>

\* execute_download, to its first request: "running" whatever a cancellation said.
Start(j) ==
    /\ pc[j] = "start" /\ Show(j, "running")
    /\ \E p \in {"file", "fail"} : Go(j, p)
    /\ UNCHANGED <<file, canCancel, flag, asked, inodes, disk, crowded, late>>

\* The next file: the flag, the request, and the ".part" file made or emptied.
Open(j) ==
    LET f == file[j]
        i == IF part[f] = None THEN j ELSE part[f]
    IN  /\ pc[j] = "file"
        /\ \/ flag[j] = "up" /\ Go(j, "wipe") /\ UNCHANGED <<status, inodes, part>>
           \/ flag[j] # "up" /\ Go(j, "fail") /\ Show(j, "running") /\ UNCHANGED <<inodes, part>>
           \/ /\ flag[j] # "up" /\ Go(j, "stream") /\ Show(j, "running")
              /\ part' = [part EXCEPT ![f] = i] /\ inode' = [inode EXCEPT ![j] = i]
              /\ owner' = [owner EXCEPT ![i][f] = j] /\ content' = [content EXCEPT ![i][f] = "torn"]
        /\ UNCHANGED <<file, canCancel, flag, asked, target, crowded, late>>

\* What it has written is the whole file, but for what somebody emptied meanwhile.
Written(j) == LET f == file[j] i == inode[j]
              IN  \E c \in {"whole"} \cup IF owner[i][f] = j THEN {} ELSE {content[i][f]} :
                      content' = [content EXCEPT ![i][f] = c]

\* Mutant: a cancelled stream is left as one that ended.
Stream_Break(j) ==
    /\ pc[j] = "stream"
    /\ \/ flag[j] = "up" /\ Go(j, "rename") /\ UNCHANGED <<content, part>>
       \/ Go(j, "fail") /\ UNCHANGED <<content, part>>
       \/ Written(j) /\ Go(j, "rename") /\ UNCHANGED part
    /\ UNCHANGED <<file, status, canCancel, flag, asked, inode, owner, target, crowded, late>>

\* The chunks of a file: the flag is looked at with each, not at the end.
Stream(j) ==
    /\ pc[j] = "stream"
    /\ \/ flag[j] = "up" /\ Go(j, "wipe") /\ part' = [part EXCEPT ![file[j]] = None] /\ UNCHANGED content
       \/ Go(j, "fail") /\ UNCHANGED <<content, part>>
       \/ Written(j) /\ Go(j, "rename") /\ UNCHANGED part
    /\ UNCHANGED <<file, status, canCancel, flag, asked, inode, owner, target, crowded, late>>

\* The ".part" file takes its name, whoever made it; without one it is an error.
Rename(j) ==
    LET f == file[j]
    IN  /\ pc[j] = "rename"
        /\ \/ part[f] = None /\ Go(j, "fail") /\ UNCHANGED <<file, disk>>
           \/ /\ part[f] # None
              /\ target' = [target EXCEPT ![f] = part[f]] /\ part' = [part EXCEPT ![f] = None]
              /\ IF f = FileCount THEN Go(j, "complete") /\ UNCHANGED file
                 ELSE Go(j, "file") /\ file' = [file EXCEPT ![j] = f + 1]
        /\ UNCHANGED <<status, canCancel, flag, asked, inodes, crowded, late>>

\* A cancelled job removes the directory, with whatever others have in it.
Wipe(j) == /\ pc[j] = "wipe" /\ Go(j, "cancel")
           /\ part' = [f \in Files |-> None] /\ target' = [f \in Files |-> None]
           /\ UNCHANGED <<file, status, canCancel, flag, asked, inodes, crowded, late>>

Outcome == [complete |-> "completed", fail |-> "failed", cancel |-> "cancelled"]

\* Mutant: a job that fails does not say so.
Settle_Silent(j) ==
    /\ pc[j] \in DOMAIN Outcome /\ Go(j, "settled")
    /\ IF pc[j] = "fail" THEN UNCHANGED status ELSE Show(j, Outcome[pc[j]])
    /\ canCancel' = [canCancel EXCEPT ![j] = FALSE]
    /\ UNCHANGED <<file, flag, asked, inodes, disk, crowded, late>>

Settle(j) == /\ pc[j] \in DOMAIN Outcome /\ Go(j, "settled")
             /\ Show(j, Outcome[pc[j]]) /\ canCancel' = [canCancel EXCEPT ![j] = FALSE]
             /\ UNCHANGED <<file, flag, asked, inodes, disk, crowded, late>>

Forget(j) == /\ pc[j] = "settled" /\ Go(j, "over") /\ flag' = [flag EXCEPT ![j] = "none"]
             /\ UNCHANGED <<file, status, canCancel, asked, inodes, disk, crowded, late>>

\* cancel_download: what it looks at, the flag it raises, the status it writes.
Ask(j) == /\ asked[j] = None /\ canCancel[j] /\ asked' = [asked EXCEPT ![j] = "looked"]
          /\ UNCHANGED <<pc, file, status, canCancel, flag, inodes, disk, crowded, late>>

Raise(j) ==
    /\ asked[j] = "looked"
    /\ \/ flag[j] = "none" /\ asked' = [asked EXCEPT ![j] = None] /\ UNCHANGED flag
       \/ flag[j] # "none" /\ asked' = [asked EXCEPT ![j] = "raised"] /\ flag' = [flag EXCEPT ![j] = "up"]
    /\ UNCHANGED <<pc, file, status, canCancel, inodes, disk, crowded, late>>

Cancelling(j) ==
    /\ asked[j] = "raised" /\ asked' = [asked EXCEPT ![j] = None]
    /\ Show(j, "cancelling") /\ canCancel' = [canCancel EXCEPT ![j] = FALSE]
    /\ late' = IF status[j] \in Terminal THEN late \cup {j} ELSE late
    /\ UNCHANGED <<pc, file, flag, inodes, disk, crowded>>

-----------------------------------------------------------------------------
Step(j) == Start(j) \/ Open(j) \/ Stream(j) \/ Rename(j) \/ Wipe(j) \/ Settle(j) \/ Forget(j)
Client(j) == Ask(j) \/ Raise(j) \/ Cancelling(j)
Next == \E j \in Jobs : Create(j) \/ Step(j) \/ Client(j)

Spec == Init /\ [][Next]_vars
\* Every request and every chunk of a download has a timeout, every lock is let go.
Fairness == \A j \in Jobs : WF_vars(Step(j)) /\ WF_vars(Raise(j) \/ Cancelling(j))
FairSpec == Spec /\ Fairness

-----------------------------------------------------------------------------
PC == {"none", "start", "file", "stream", "rename", "wipe", "settled", "over"} \cup DOMAIN Outcome

TypeOK == /\ pc \in [Jobs -> PC] /\ file \in [Jobs -> Files] /\ asked \in [Jobs -> {None, "looked", "raised"}]
          /\ status \in [Jobs -> Terminal \cup {"none", "queued", "running", "cancelling"}]
          /\ flag \in [Jobs -> {"none", "down", "up"}]
          /\ canCancel \in [Jobs -> BOOLEAN] /\ inode \in [Jobs -> Jobs \cup {None}]
          /\ owner \in [Jobs -> [Files -> Jobs \cup {None}]]
          /\ content \in [Jobs -> [Files -> {"torn", "whole"}]]
          /\ crowded \subseteq Jobs /\ late \subseteq Jobs
          /\ part \in [Files -> Jobs \cup {None}] /\ target \in [Files -> Jobs \cup {None}]

\* Two downloads of the model were at its directory at once, with j or after it,
\* or one that was cancelled has removed it.
Disturbed(j) == j \in crowded \/ \E k \in Jobs : pc[k] = "cancel" \/ status[k] = "cancelled" \/ k \in late

(* What a download's status says is so on the disk: every file is whole if  *)
(* it is complete, whatever the jobs that failed before or after it left,   *)
(* unless two were at the directory at once since it began; and nothing it  *)
(* made is left if it was cancelled (catalog.rs L364-365, L385-569).        *)
StatusTellsDisk ==
    \A j \in Jobs :
        /\ status[j] = "completed" /\ ~Disturbed(j) =>
               \A f \in Files : target[f] # None /\ content[target[f]][f] = "whole"
        /\ status[j] = "cancelled" => \A f \in Files : part[f] # j /\ target[f] # j

(* Every download comes to an end and says so for good, but for one whose   *)
(* end a cancellation that had looked at it before wrote over: that one is  *)
(* "cancelling" ever after (L269-294).                                      *)
EveryDownloadSettles ==
    \A j \in Jobs : pc[j] = "start" ~> [](status[j] \in Terminal \/ j \in late)
=============================================================================
