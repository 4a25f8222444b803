----------------------------- MODULE FlowStore ------------------------------
(***************************************************************************)
(* How FlowStore of crates/flow/src/store.rs keeps one flow on disk: save  *)
(* reads the old file, writes `<id>.json.tmp` and renames it over          *)
(* `<id>.json`; requests run concurrently and no lock is taken.  The file  *)
(* system is external: names refer to inodes, an open file keeps its inode *)
(* when the name moves, create truncates, rename replaces.                 *)
(***************************************************************************)
EXTENDS Integers

CONSTANTS
    Savers,     \* requests that save this flow (POST /flows)
    Deleters,   \* requests that delete it (DELETE /flows/{id})
    None        \* no inode

ASSUME RequestsAssumption == /\ Savers \cap Deleters = {} /\ None \notin Savers
                             /\ {"empty", "mixed"} \cap Savers = {}

VARIABLES
    file,       \* the inode behind <id>.json, or None
    temp,       \* the inode behind <id>.json.tmp, or None
    content,    \* content[i]: the bytes of inode i, named after the saver that
                \* created it: none, a saver's version of the flow, or a mixture
    fd,         \* fd[s]: the inode saver s has open
    at,         \* at[r]: where request r is
    up,         \* the daemon runs
    overlapped  \* ghost: two saves were under way at once

vars == <<file, temp, content, fd, at, up, overlapped>>

\* "orphaned": the request is gone and its blocking write goes on.
Stages == {"idle", "checking", "reading", "opening", "writing", "orphaned", "renaming",
           "cleaning", "deleting", "saved", "failed"}
Busy == {s \in Savers : at[s] \notin {"idle", "saved", "failed"}}
Torn == file # None /\ content[file] \notin Savers

Init == /\ file = None /\ temp = None
        /\ content = [s \in Savers |-> "empty"]
        /\ fd = [s \in Savers |-> None]
        /\ at = [r \in Savers \cup Deleters |-> "idle"]
        /\ up = TRUE
        /\ overlapped = FALSE

Goes(r, from, to) == up /\ at[r] = from /\ at' = [at EXCEPT ![r] = to]
disk == <<file, temp, content>>

-----------------------------------------------------------------------------
StartSave(s) == /\ Goes(s, "idle", "checking")
                /\ overlapped' = (overlapped \/ Busy # {})
                /\ UNCHANGED <<disk, fd, up>>

\* self.get(id) looks whether there is an old file ...
FindOld(s) == /\ \/ file # None /\ Goes(s, "checking", "reading")
                 \/ file = None /\ Goes(s, "checking", "opening")
              /\ UNCHANGED <<disk, fd, up, overlapped>>

\* ... which must still be there, and parse, or the save fails.
ReadOld(s) == /\ \/ file # None /\ ~Torn /\ Goes(s, "reading", "opening")
                 \/ (file = None \/ Torn) /\ Goes(s, "reading", "failed")
              /\ UNCHANGED <<disk, fd, up, overlapped>>

\* Mutant: the file itself is written.
OpenTemp_InPlace(s) ==
    LET i == IF file = None THEN s ELSE file
    IN  /\ Goes(s, "opening", "writing")
        /\ file' = i
        /\ content' = [content EXCEPT ![i] = "empty"]
        /\ fd' = [fd EXCEPT ![s] = i]
        /\ UNCHANGED <<temp, up, overlapped>>

\* fs::write opens the temporary name: creates it, or truncates what is there.
OpenTemp(s) ==
    LET i == IF temp = None THEN s ELSE temp
    IN  /\ Goes(s, "opening", "writing")
        /\ temp' = i
        /\ content' = [content EXCEPT ![i] = "empty"]
        /\ fd' = [fd EXCEPT ![s] = i]
        /\ UNCHANGED <<file, up, overlapped>>

\* The bytes go to the open inode from offset 0: over those of another saver
\* that wrote it since, whose tail stays when it was longer.
WriteTemp(s) == /\ Goes(s, "writing", "renaming")
                /\ \E bytes \in IF content[fd[s]] = "empty" THEN {s} ELSE {s, "mixed"} :
                      content' = [content EXCEPT ![fd[s]] = bytes]
                /\ UNCHANGED <<file, temp, fd, up, overlapped>>

\* Mutant: a failed write goes on to the rename.
WriteFails_Ignored(s) == /\ Goes(s, "writing", "renaming")
                         /\ UNCHANGED <<disk, fd, up, overlapped>>

\* A full disk: the temporary file stays with what got there.
WriteFails(s) == /\ Goes(s, "writing", "failed")
                 /\ content' \in {content, [content EXCEPT ![fd[s]] = "mixed"]}
                 /\ UNCHANGED <<file, temp, fd, up, overlapped>>

\* Mutant: the temporary name is kept.
Rename_Link(s) == /\ temp # None
                  /\ Goes(s, "renaming", "saved")
                  /\ file' = temp
                  /\ UNCHANGED <<temp, content, fd, up, overlapped>>

Rename(s) == /\ temp # None
             /\ Goes(s, "renaming", "saved")
             /\ file' = temp /\ temp' = None
             /\ UNCHANGED <<content, fd, up, overlapped>>

\* The rename is refused, or another saver's rename took the temporary name ...
RenameFails(s) == /\ Goes(s, "renaming", "cleaning")
                  /\ UNCHANGED <<disk, fd, up, overlapped>>

\* ... and the error path removes whatever has that name by now.
CleanUp(s) == /\ Goes(s, "cleaning", "failed")
              /\ temp' = None
              /\ UNCHANGED <<file, content, fd, up, overlapped>>

-----------------------------------------------------------------------------
\* The client goes away and the request's future is dropped at an await.  A
\* blocking write already handed to the runtime is not called back.
Abandon(s) == /\ \/ \E from \in {"checking", "reading", "opening", "renaming"} :
                        Goes(s, from, "failed")
                 \/ Goes(s, "writing", "orphaned")
              /\ UNCHANGED <<disk, fd, up, overlapped>>

OrphanWrites(s) == /\ Goes(s, "orphaned", "failed")
                   /\ \E bytes \in {content[fd[s]], s, "mixed"} :
                         content' = [content EXCEPT ![fd[s]] = bytes]
                   /\ UNCHANGED <<file, temp, fd, up, overlapped>>

-----------------------------------------------------------------------------
\* FlowStore::delete looks for the file and then removes it.
FindDoomed(d) == /\ \/ file # None /\ Goes(d, "idle", "deleting")
                    \/ file = None /\ Goes(d, "idle", "failed")
                 /\ UNCHANGED <<disk, fd, up, overlapped>>

Remove(d) == /\ \/ file # None /\ Goes(d, "deleting", "saved")
                \/ file = None /\ Goes(d, "deleting", "failed")
             /\ file' = None
             /\ UNCHANGED <<temp, content, fd, up, overlapped>>

\* The process dies; what the names refer to stays.
Crash == /\ up /\ Busy # {}
         /\ up' = FALSE
         /\ UNCHANGED <<disk, fd, at, overlapped>>

SaveStep(s) == \/ FindOld(s) \/ ReadOld(s) \/ OpenTemp(s) \/ WriteTemp(s) \/ WriteFails(s)
               \/ Rename(s) \/ RenameFails(s) \/ CleanUp(s) \/ OrphanWrites(s)

Next == \/ \E s \in Savers : StartSave(s) \/ SaveStep(s) \/ Abandon(s)
        \/ \E d \in Deleters : FindDoomed(d) \/ Remove(d)
        \/ Crash

Spec == Init /\ [][Next]_vars

-----------------------------------------------------------------------------
TypeOK == /\ file \in Savers \cup {None} /\ temp \in Savers \cup {None}
          /\ content \in [Savers -> Savers \cup {"empty", "mixed"}]
          /\ fd \in [Savers -> Savers \cup {None}]
          /\ at \in [Savers \cup Deleters -> Stages]
          /\ up \in BOOLEAN /\ overlapped \in BOOLEAN
          /\ file = temp => file = None

(* As long as saves of one flow never overlap, the file is whole at every   *)
(* moment, a crash and a failed write included, and no save misses its      *)
(* temporary file when it renames it (L4-6).                                *)
WholeWithoutOverlap ==
    ~overlapped => /\ ~Torn
                   /\ \A s \in Savers : at[s] = "renaming" => temp # None

(* ... and until a save's rename, readers keep seeing the old version.      *)
OldVersionUntilRename ==
    [][(~overlapped' /\ file # None /\ file' = file) => content'[file] = content[file]]_vars

\* What those who read and save see of this: a version, and how requests ended.
Value == IF file = None THEN None ELSE content[file]
Ended == [r \in Savers \cup Deleters |-> CASE at[r] = "saved"  -> "done"
                                         [] at[r] = "failed" -> "failed"
                                         [] OTHER            -> "open"]

Cell == INSTANCE FlowCell WITH value <- Value, ended <- Ended, void <- overlapped

(* The store is a cell as long as saves of the flow do not overlap: a save  *)
(* or delete takes effect whole and in one step, at its rename or removal;  *)
(* one that fails, is dropped or is cut off by a crash before that leaves   *)
(* what readers get as it is (store.rs L90-128, L262-277).                  *)
ImplementsCell == Cell!Spec

(* store.rs L5: "A escrita e atomica (arquivo temporario + rename) para que *)
(* um desligamento no meio da gravacao nao deixe um fluxo truncado": once   *)
(* all requests are over, or the process is, the file is whole.             *)
NeverLeftTruncated == (~up \/ Busy = {}) => ~Torn
=============================================================================
