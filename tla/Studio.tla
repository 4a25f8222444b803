------------------------------- MODULE Studio -------------------------------
(***************************************************************************)
(* StudioService (crates/daemon/src/presentations.rs, plugin_host.rs): one *)
(* document with its revisions, one plugin beside the bundled one, what    *)
(* the plugin may touch, and those who use them at once: requests of pages *)
(* and tools, administrators, and invocations of the plugin, which call    *)
(* back into the host.  host_gate is held by every administration and for  *)
(* the length of each call of an invocation; what runs under `gate` alone  *)
(* is one step.  A document is the set of the changes made to it, a change *)
(* being named by the revision it made.  An invocation is one that may     *)
(* write: a mutating tool in full execution mode.                          *)
(***************************************************************************)
EXTENDS Naturals, Sequences

CONSTANTS
    Editors,     \* requests of pages and tools
    Runs,        \* invocations of the plugin
    Marks,       \* the fingerprints a package may have
    Kept,        \* old revisions that are kept, 20
    MaxRev,      \* bound: revisions
    MaxAdmin,    \* bound: administrations from now on
    MaxFaults,   \* bound: saves that fail half way
    None

StudioAssumption == Kept \in Nat \ {0} /\ MaxRev \in Nat \ {0} /\ None \notin Runs

VARIABLES
    doc,         \* <id>.json: [rev, text]
    hist,        \* hist[r]: the text in <id>/<r>.json, or None
    bundled,     \* the presentation plugin is there and enabled
    pkg,         \* the plugin: [mark, enabled, granted], or None
    access,      \* plugin-access/<scope>/<plugin>.json: [mark, doc], or None
    hostGate,    \* who holds host_gate: an invocation, or None
    edit,        \* edit[e]: the request e
    run,         \* run[i]: the invocation i
    admins, faults,
    past,        \* ghost: past[r]: the text of revision r when it was saved
    restored,    \* ghost: the revisions a restore made
    pruned,      \* ghost: the revisions pruned for a save that then failed
    said         \* ghost: the last word on the plugin's use of the document

vars == <<doc, hist, bundled, pkg, access, hostGate, edit, run, admins, faults, past, restored, pruned, said>>
documents == <<doc, hist, faults, past, restored, pruned>>
rights == <<bundled, pkg, access, admins, said>>

Idle == [stage |-> "idle"]

\* The document is new; the plugin is as earlier administrations left it.
Init == /\ doc = [rev |-> 1, text |-> {1}] /\ hist = [r \in 1..MaxRev |-> None]
        /\ bundled = TRUE /\ hostGate = None
        /\ \/ pkg = None /\ access = None
           \/ \E m \in Marks : /\ pkg = [mark |-> m, enabled |-> TRUE, granted |-> TRUE]
                               /\ access \in {None, [mark |-> m, doc |-> TRUE]}
        /\ edit = [e \in Editors |-> Idle] /\ run = [i \in Runs |-> Idle]
        /\ admins = 0 /\ faults = 0
        /\ past = <<{1}>> /\ restored = {} /\ pruned = {} /\ said = (access # None)

-----------------------------------------------------------------------------
\* Mutant: the revision is not compared.
Accepts_Any(base) == bundled

\* save, under gate: the document is still at the revision it was changed from.
Accepts(base) == bundled /\ base = doc.rev

\* Mutant: one revision too many is pruned.
Pruned_More(new) == new - Kept

\* The revision that is pruned when revision new is saved.
Pruned(new) == new - (Kept + 1)

\* The old text goes to the history, one is pruned there, and the new text
\* takes its place by a rename; before the rename the save may fail.
Replace(text, ok) ==
    LET new == doc.rev + 1
    IN  /\ new \in DOMAIN hist
        /\ hist' = [r \in DOMAIN hist |-> CASE r = doc.rev                   -> doc.text
                                            [] new > Kept /\ r = Pruned(new) -> None
                                            [] OTHER                         -> hist[r]]
        /\ \/ /\ ok
              /\ doc' = [rev |-> new, text |-> text] /\ past' = Append(past, text)
              /\ UNCHANGED <<faults, pruned>>
           \/ /\ ~ok /\ faults < MaxFaults
              /\ faults' = faults + 1 /\ pruned' = pruned \cup {Pruned(new)}
              /\ UNCHANGED <<doc, past>>

\* A page or a tool gets the document.
Open(e) ==
    /\ edit[e] = Idle /\ bundled
    /\ edit' = [edit EXCEPT ![e] = [stage |-> "open", base |-> doc.rev, text |-> doc.text, back |-> FALSE]]
    /\ UNCHANGED <<documents, rights, hostGate, run>>

\* preview_edit, without gate: the operations are applied to the document if it
\* is at their base, and what comes out is to be saved.
Preview(e) ==
    /\ edit[e].stage = "open"
    /\ edit' = [edit EXCEPT ![e] = IF bundled /\ @.base = doc.rev THEN [@ EXCEPT !.stage = "ready", !.text = doc.text]
                                                                   ELSE Idle]
    /\ UNCHANGED <<documents, rights, hostGate, run>>

\* restore reads an old revision, which is to be saved over the page's base.
Restore(e, r) ==
    /\ edit[e].stage = "open" /\ bundled /\ hist[r] # None
    /\ edit' = [edit EXCEPT ![e] = [@ EXCEPT !.stage = "ready", !.text = hist[r], !.back = TRUE]]
    /\ UNCHANGED <<documents, rights, hostGate, run>>

\* save: by a page that changed what it got, or at the end of edit and restore.
SaveEdit(e, ok) ==
    /\ edit[e].stage \in {"open", "ready"}
    /\ IF Accepts(edit[e].base)
       THEN /\ Replace(IF edit[e].back THEN edit[e].text ELSE edit[e].text \cup {doc.rev + 1}, ok)
            /\ restored' = IF ok /\ edit[e].back THEN restored \cup {doc.rev + 1} ELSE restored
       ELSE UNCHANGED documents
    /\ edit' = [edit EXCEPT ![e] = Idle]
    /\ UNCHANGED <<rights, hostGate, run>>

-----------------------------------------------------------------------------
\* Mutant: plugins are administered without host_gate.
Admin_Free == admins < MaxAdmin /\ admins' = admins + 1

\* An administration takes host_gate and gate, and is one step.
Admin == hostGate = None /\ admins < MaxAdmin /\ admins' = admins + 1

Install(mark, granted) ==
    /\ Admin
    /\ pkg' = [mark |-> mark, enabled |-> TRUE, granted |-> granted]
    /\ UNCHANGED <<documents, bundled, access, said, hostGate, edit, run>>

Enable(to) ==
    /\ Admin /\ pkg # None
    /\ pkg' = [pkg EXCEPT !.enabled = to]
    /\ UNCHANGED <<documents, bundled, access, said, hostGate, edit, run>>

\* configure: the permissions granted, and whether the document may be used.
Configure(granted, may) ==
    /\ Admin /\ pkg # None /\ (may => bundled)
    /\ access' = [mark |-> pkg.mark, doc |-> may]
    /\ pkg' = [pkg EXCEPT !.granted = granted]
    /\ said' = may
    /\ UNCHANGED <<documents, bundled, hostGate, edit, run>>

Uninstall ==
    /\ Admin /\ pkg # None
    /\ pkg' = None /\ access' = None /\ said' = FALSE
    /\ UNCHANGED <<documents, bundled, hostGate, edit, run>>

\* The bundled plugin is disabled, enabled or removed.
Bundle(to) ==
    /\ Admin /\ bundled' = to
    /\ UNCHANGED <<documents, pkg, access, said, hostGate, edit, run>>

\* restore_bundled takes gate only.
RestoreBundled ==
    /\ ~bundled /\ admins < MaxAdmin
    /\ bundled' = TRUE /\ admins' = admins + 1
    /\ UNCHANGED <<documents, pkg, access, said, hostGate, edit, run>>

-----------------------------------------------------------------------------
\* invoke_plugin: the package is copied, its fingerprint kept.
Invoke(i) ==
    /\ run[i] = Idle /\ pkg # None /\ pkg.enabled /\ pkg.granted
    /\ run' = [run EXCEPT ![i] = [stage |-> "running", mark |-> pkg.mark, base |-> 0, text |-> {}, copy |-> None]]
    /\ UNCHANGED <<documents, rights, hostGate, edit>>

\* ScopedHost.call: what is asked of the package and of its access at each call.
Allowed(i) == /\ pkg # None /\ pkg.enabled /\ pkg.granted /\ pkg.mark = run[i].mark
              /\ access # None /\ access.mark = pkg.mark

Call(i) == run[i].stage = "running" /\ hostGate = None /\ Allowed(i)

\* documents.get
CallGet(i) ==
    /\ Call(i) /\ access.doc /\ bundled
    /\ run' = [run EXCEPT ![i].base = doc.rev]
    /\ UNCHANGED <<documents, rights, hostGate, edit>>

\* documents.edit up to its save, from the revision the plugin got.
CallEdit(i) ==
    /\ Call(i) /\ access.doc /\ bundled /\ run[i].base = doc.rev
    /\ hostGate' = i
    /\ run' = [run EXCEPT ![i] = [@ EXCEPT !.stage = "save", !.text = doc.text]]
    /\ UNCHANGED <<documents, rights, edit>>

SaveCall(i, ok) ==
    /\ run[i].stage = "save"
    /\ IF Accepts(run[i].base) THEN Replace(run[i].text \cup {doc.rev + 1}, ok) ELSE UNCHANGED <<doc, hist, faults, past, pruned>>
    /\ hostGate' = None
    /\ run' = [run EXCEPT ![i] = [@ EXCEPT !.stage = "running", !.text = {}]]
    /\ UNCHANGED <<restored, rights, edit>>

\* documents.create makes another document and adds it to the access it read.
CallCreate(i) ==
    /\ Call(i) /\ bundled
    /\ hostGate' = i
    /\ run' = [run EXCEPT ![i] = [@ EXCEPT !.stage = "create", !.copy = access]]
    /\ UNCHANGED <<documents, rights, edit>>

AddAccess(i) ==
    /\ run[i].stage = "create"
    /\ access' = run[i].copy
    /\ hostGate' = None
    /\ run' = [run EXCEPT ![i] = [@ EXCEPT !.stage = "running", !.copy = None]]
    /\ UNCHANGED <<documents, bundled, pkg, admins, said, edit>>

Return(i) ==
    /\ run[i].stage = "running"
    /\ run' = [run EXCEPT ![i] = Idle]
    /\ UNCHANGED <<documents, rights, hostGate, edit>>

-----------------------------------------------------------------------------
Next ==
    \/ \E e \in Editors : \/ Open(e) \/ Preview(e)
                          \/ \E r \in 1..MaxRev : Restore(e, r)
                          \/ \E ok \in BOOLEAN : SaveEdit(e, ok)
    \/ \E granted \in BOOLEAN : \/ \E mark \in Marks : Install(mark, granted)
                                \/ \E may \in BOOLEAN : Configure(granted, may)
    \/ \E to \in BOOLEAN : Enable(to) \/ Bundle(to)
    \/ Uninstall \/ RestoreBundled
    \/ \E i \in Runs : \/ Invoke(i) \/ CallGet(i) \/ CallEdit(i) \/ CallCreate(i) \/ AddAccess(i) \/ Return(i)
                       \/ \E ok \in BOOLEAN : SaveCall(i, ok)

Spec == Init /\ [][Next]_vars

-----------------------------------------------------------------------------
TypeOK == /\ doc.rev \in 1..MaxRev /\ Len(past) = doc.rev
          /\ hostGate \in Runs \cup {None}
          /\ \A i \in Runs : (hostGate = i) = (run[i].stage \in {"save", "create"})

(* No change to a document is lost to another that was made beside it, by a *)
(* page, a tool or a plugin: a revision has all that the one before had,    *)
(* but for one that a restore made (presentations.rs L123-165, L283-328).   *)
NoLostEdit == \A r \in 1..doc.rev-1 : past[r] \subseteq past[r + 1] \/ r + 1 \in restored

(* Every revision that history lists is there to be restored, as it was     *)
(* saved; but for the oldest of them after a save that pruned and then did  *)
(* not happen (presentations.rs L147-163, L445-455).                        *)
ListedIsThere ==
    \A r \in 1..doc.rev-1 : r + Kept >= doc.rev => hist[r] = past[r] \/ r \in pruned

\* Invocation i is changing the document.
Changes(i) == run[i].stage = "save" /\ run'[i].stage # "save" /\ doc' # doc

(* Taking a plugin away, disabling it, or taking back its permissions or    *)
(* the document takes effect on the invocations that are running: none      *)
(* changes the document after that (plugin_host.rs L349-376, L203-290).     *)
RevokedStaysOut ==
    [][\A i \in Runs : Changes(i) => said /\ pkg # None /\ pkg.enabled /\ pkg.granted]_vars
=============================================================================
