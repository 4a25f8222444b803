------------------------------ MODULE FlowCell -------------------------------
(***************************************************************************)
(* What FlowStore of crates/flow/src/store.rs promises to those who save,  *)
(* read and delete one flow: a cell with one version, or none.  A save     *)
(* that succeeds puts its version there at once, a delete that succeeds    *)
(* takes away what is there, and a request that fails, or whose client is  *)
(* gone, changes nothing.  The promise is void once two saves overlap.     *)
(*                                                                         *)
(* Nothing here says how it is kept: there is no temporary file, no inode, *)
(* no crash.  FlowStore is shown to implement this module.                 *)
(***************************************************************************)
CONSTANTS Savers, Deleters, None

VARIABLES
    value,  \* whose version readers get, or None
    ended,  \* ended[r]: how request r ended, if it did
    void    \* two saves have overlapped

vars == <<value, ended, void>>

Init == /\ value = None
        /\ ended = [r \in Savers \cup Deleters |-> "open"]
        /\ void = FALSE

Ends(r, how) == ended[r] = "open" /\ ended' = [ended EXCEPT ![r] = how] /\ UNCHANGED void

Save(s) == Ends(s, "done") /\ value' = s

Delete(d) == value # None /\ Ends(d, "done") /\ value' = None

Fail(r) == Ends(r, "failed") /\ UNCHANGED value

Breach == void'

Next == \/ \E s \in Savers : Save(s) \/ Fail(s)
        \/ \E d \in Deleters : Delete(d) \/ Fail(d)
        \/ Breach

Spec == Init /\ [][Next]_vars
=============================================================================
