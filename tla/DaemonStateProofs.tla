------------------------- MODULE DaemonStateProofs --------------------------
(***************************************************************************)
(* What the daemon keeps between requests, for any number of requests,     *)
(* clients, plugins, accounts, sessions and faults: the documents and      *)
(* plugins of Studio, the settings and the vault of Settings, a channel's  *)
(* file and sessions of ChannelPolicy, and the rows, events and index of   *)
(* SessionStore.  Each has a section of its own: what has its types, the   *)
(* invariant, one lemma per kind of step, and the theorems.                *)
(***************************************************************************)
EXTENDS DaemonState, Integers, Sequences, FiniteSetTheorems, TLAPS

-----------------------------------------------------------------------------
(* Studio *)

Texts == SUBSET Nat

\* An edit that was opened or is ready to be saved, and an invocation.
EditRecord == [stage : {"open", "ready"}, base : Nat, text : Texts, back : BOOLEAN]
RunRecord == [stage : {"running", "save", "create"}, mark : Marks, base : Nat, text : Texts,
              copy : {Nobody} \cup [mark : Marks, doc : BOOLEAN]]

PapersTyping ==
    /\ doc \in [rev : 1..MaxRev, text : Texts]
    /\ hist \in [1..MaxRev -> Texts \cup {Nobody}]
    /\ past \in Seq(Texts)
    /\ page \in [Editors -> {Papers!Idle} \cup EditRecord]
    /\ run \in [Runs -> {Papers!Idle} \cup RunRecord]
    /\ pkg \in {Nobody} \cup [mark : Marks, enabled : BOOLEAN, granted : BOOLEAN]
    /\ access \in {Nobody} \cup [mark : Marks, doc : BOOLEAN]
    /\ bundled \in BOOLEAN
    /\ said \in BOOLEAN
    /\ hostGate \in Runs \cup {Nobody}

\* The document is its last revision, and what was saved is still known.
Current == Len(past) = doc.rev /\ past[doc.rev] = doc.text

\* What a page, a tool or a plugin is about to save is that of its base with its
\* change, or a revision that is restored.
BasedPage(e) == page[e].stage \in {"open", "ready"} =>
                  /\ page[e].base \in 1..doc.rev
                  /\ ~page[e].back => page[e].text = past[page[e].base]
BasedRun(i) == run[i].stage = "save" => run[i].base \in 1..doc.rev /\ run[i].text = past[run[i].base]
Based == (\A e \in Editors : BasedPage(e)) /\ (\A i \in Runs : BasedRun(i))

\* host_gate belongs to the invocation that is in the middle of a call.
Gated == \A i \in Runs : run[i].stage \in {"save", "create"} <=> hostGate = i

\* While it does, what the call was allowed by cannot be taken back.
Entitled ==
    /\ \A i \in Runs : /\ run[i].stage = "save" => Papers!Allowed(i) /\ access.doc
                       /\ run[i].stage = "create" => run[i].copy = access
    /\ access # Nobody /\ access.doc => said

PapersInv == /\ PapersTyping /\ Current /\ Based /\ Gated /\ Entitled
             /\ Papers!NoLostEdit /\ Papers!ListedIsThere

-----------------------------------------------------------------------------
(* The records of an edit and of an invocation under the updates they get.  *)
LEMMA EditRecords ==
  ASSUME NEW q \in EditRecord, NEW t \in Texts
  PROVE  /\ [q EXCEPT !.stage = "ready", !.text = t] \in EditRecord
         /\ [q EXCEPT !.stage = "ready", !.text = t].text = t
         /\ [q EXCEPT !.stage = "ready", !.text = t].base = q.base
         /\ [q EXCEPT !.stage = "ready", !.text = t, !.back = TRUE] \in EditRecord
         /\ [q EXCEPT !.stage = "ready", !.text = t, !.back = TRUE].base = q.base
         /\ [q EXCEPT !.stage = "ready", !.text = t, !.back = TRUE].back
  <1> DEFINE r == [q EXCEPT !.stage = "ready"]
             n == [r EXCEPT !.text = t]
  <1>1. r \in EditRecord /\ r.base = q.base
    BY DEF EditRecord
  <1>2. n = [q EXCEPT !.stage = "ready", !.text = t]
    OBVIOUS
  <1>3. [n EXCEPT !.back = TRUE] = [q EXCEPT !.stage = "ready", !.text = t, !.back = TRUE]
    OBVIOUS
  <1> HIDE DEF r
  <1>4. n \in EditRecord /\ n.text = t /\ n.base = q.base
    BY <1>1 DEF EditRecord
  <1> HIDE DEF n
  <1>5. [n EXCEPT !.back = TRUE] \in EditRecord /\ [n EXCEPT !.back = TRUE].base = q.base
    BY <1>4 DEF EditRecord
  <1>6. [n EXCEPT !.back = TRUE].back
    BY <1>4 DEF EditRecord
  <1> QED
    BY <1>2, <1>3, <1>4, <1>5, <1>6

\* An invocation that has read a revision.
LEMMA RunGets ==
  ASSUME NEW q \in RunRecord, NEW n \in Nat
  PROVE  [q EXCEPT !.base = n] \in RunRecord /\ [q EXCEPT !.base = n].stage = q.stage
  BY DEF RunRecord

\* An invocation that is about to save a text, or has saved it.
LEMMA RunEdits ==
  ASSUME NEW q \in RunRecord, NEW t \in Texts, NEW st \in {"running", "save", "create"}
  PROVE  /\ [q EXCEPT !.stage = st, !.text = t] \in RunRecord
         /\ [q EXCEPT !.stage = st, !.text = t].stage = st
         /\ [q EXCEPT !.stage = st, !.text = t].text = t
         /\ [q EXCEPT !.stage = st, !.text = t].base = q.base
         /\ [q EXCEPT !.stage = st, !.text = t].mark = q.mark
  <1> DEFINE r == [q EXCEPT !.stage = st]
  <1>1. r \in RunRecord /\ r.stage = st /\ r.base = q.base /\ r.mark = q.mark
    BY DEF RunRecord
  <1>2. [r EXCEPT !.text = t] = [q EXCEPT !.stage = st, !.text = t]
    OBVIOUS
  <1> HIDE DEF r
  <1>3. /\ [r EXCEPT !.text = t] \in RunRecord /\ [r EXCEPT !.text = t].stage = st
        /\ [r EXCEPT !.text = t].text = t /\ [r EXCEPT !.text = t].base = q.base
        /\ [r EXCEPT !.text = t].mark = q.mark
    BY <1>1 DEF RunRecord
  <1> QED
    BY <1>2, <1>3

\* An invocation that is about to write down the access it has read.
LEMMA RunCopies ==
  ASSUME NEW q \in RunRecord, NEW c \in {Nobody} \cup [mark : Marks, doc : BOOLEAN],
         NEW st \in {"running", "save", "create"}
  PROVE  /\ [q EXCEPT !.stage = st, !.copy = c] \in RunRecord
         /\ [q EXCEPT !.stage = st, !.copy = c].stage = st
         /\ [q EXCEPT !.stage = st, !.copy = c].copy = c
  <1> DEFINE r == [q EXCEPT !.stage = st]
  <1>1. r \in RunRecord /\ r.stage = st
    BY DEF RunRecord
  <1>2. [r EXCEPT !.copy = c] = [q EXCEPT !.stage = st, !.copy = c]
    OBVIOUS
  <1> HIDE DEF r
  <1>3. [r EXCEPT !.copy = c] \in RunRecord /\ [r EXCEPT !.copy = c].stage = st /\ [r EXCEPT !.copy = c].copy = c
    BY <1>1 DEF RunRecord
  <1> QED
    BY <1>2, <1>3

-----------------------------------------------------------------------------
\* What a step that saves does to the documents.
Saved == /\ doc' \in [rev : 1..MaxRev, text : Texts]
         /\ hist' \in [1..MaxRev -> Texts \cup {Nobody}]
         /\ past' \in Seq(Texts)
         /\ doc'.rev >= doc.rev
         /\ \A r \in 1..doc.rev : past'[r] = past[r]
         /\ Current' /\ Papers!NoLostEdit' /\ Papers!ListedIsThere'

(* A save of a text that has all of the document's, or of one that is       *)
(* restored, keeps the revisions and their history; one that fails half way *)
(* loses at most the revision it has pruned.                                *)
LEMMA Replacing ==
  ASSUME Papers!StudioAssumption, PapersInv, NEW text \in Texts, NEW ok \in BOOLEAN, Papers!Replace(text, ok),
         restored \subseteq restored',
         ok => doc.text \subseteq text \/ doc.rev + 1 \in restored'
  PROVE  Saved
  <1> DEFINE rev == doc.rev
             new == rev + 1
  <1> USE DEF Papers!StudioAssumption, PapersInv
  <1>0. rev \in 1..MaxRev /\ doc.text \in Texts /\ Len(past) = rev /\ past[rev] = doc.text /\ MaxRev \in Nat
        /\ past \in Seq(Texts) /\ hist \in [1..MaxRev -> Texts \cup {Nobody}] /\ Kept \in Nat \ {0}
    BY DEF PapersTyping, Current
  <1>1. new \in 1..MaxRev
    BY <1>0 DEF Papers!Replace, PapersTyping
  <1>2. /\ hist' \in [1..MaxRev -> Texts \cup {Nobody}]
        /\ hist'[rev] = doc.text
        /\ \A r \in 1..MaxRev : r # rev /\ ~(new > Kept /\ r = new - (Kept + 1)) => hist'[r] = hist[r]
    BY <1>0 DEF Papers!Replace, Papers!Pruned
  <1>3. \A r \in 1..(rev - 1) : past[r] \subseteq past[r + 1] \/ r + 1 \in restored
    BY DEF Papers!NoLostEdit
  <1>4. \A r \in 1..(rev - 1) : r + Kept >= rev => hist[r] = past[r] \/ r \in pruned
    BY DEF Papers!ListedIsThere
  <1>5. CASE ok
    <2>1. doc' = [rev |-> new, text |-> text] /\ past' = Append(past, text) /\ pruned' = pruned
      BY <1>5 DEF Papers!Replace
    <2>2. past' \in Seq(Texts) /\ Len(past') = new /\ past'[new] = text /\ \A r \in 1..rev : past'[r] = past[r]
      BY <1>0, <2>1
    <2>3. doc' \in [rev : 1..MaxRev, text : Texts] /\ doc'.rev = new /\ doc'.text = text
      BY <1>1, <2>1
    <2>4. Papers!NoLostEdit'
      <3> SUFFICES ASSUME NEW r \in 1..(new - 1)
                   PROVE  past'[r] \subseteq past'[r + 1] \/ r + 1 \in restored'
        BY <2>3 DEF Papers!NoLostEdit
      <3>1. CASE r = rev
        <4>1. past'[r] = doc.text /\ past'[r + 1] = text
          BY <1>0, <2>2, <3>1
        <4> QED
          BY <1>5, <3>1, <4>1
      <3>2. CASE r # rev
        <4>1. r \in 1..(rev - 1) /\ r \in 1..rev /\ r + 1 \in 1..rev
          BY <1>0, <3>2
        <4>2. past'[r] = past[r] /\ past'[r + 1] = past[r + 1]
          BY <2>2, <4>1
        <4> QED
          BY <1>3, <4>1, <4>2
      <3> QED
        BY <3>1, <3>2
    <2>5. Papers!ListedIsThere'
      <3> SUFFICES ASSUME NEW r \in 1..(new - 1), r + Kept >= new
                   PROVE  hist'[r] = past'[r] \/ r \in pruned
        BY <2>1, <2>3 DEF Papers!ListedIsThere
      <3>1. CASE r = rev
        BY <1>0, <1>2, <2>2, <3>1
      <3>2. CASE r # rev
        <4>1. hist'[r] = hist[r]
          BY <1>0, <1>2, <3>2
        <4>2. r \in 1..(rev - 1) /\ r \in 1..rev /\ r + Kept >= rev
          BY <1>0, <3>2
        <4>3. past'[r] = past[r]
          BY <2>2, <4>2
        <4> QED
          BY <1>4, <4>1, <4>2, <4>3
      <3> QED
        BY <3>1, <3>2
    <2> QED
      BY <1>0, <1>2, <2>2, <2>3, <2>4, <2>5 DEF Saved, Current
  <1>6. CASE ~ok
    <2>1. doc' = doc /\ past' = past /\ pruned' = pruned \cup {new - (Kept + 1)}
      BY <1>6 DEF Papers!Replace, Papers!Pruned
    <2>2. Papers!NoLostEdit'
      BY <1>3, <2>1 DEF Papers!NoLostEdit
    <2>3. Papers!ListedIsThere'
      <3> SUFFICES ASSUME NEW r \in 1..(rev - 1), r + Kept >= rev
                   PROVE  hist'[r] = past[r] \/ r \in pruned'
        BY <2>1 DEF Papers!ListedIsThere
      <3> QED
        BY <1>0, <1>2, <1>4, <2>1
    <2> QED
      BY <1>0, <1>2, <2>1, <2>2, <2>3 DEF Saved, Current, PapersTyping
  <1> QED
    BY <1>5, <1>6

\* A step that does not save.
LEMMA Untouched ==
  ASSUME PapersInv, UNCHANGED Papers!documents
  PROVE  Saved
  BY DEF PapersInv, Saved, Papers!documents, PapersTyping, Current, Papers!NoLostEdit, Papers!ListedIsThere

(* What a page, a tool or a plugin has in hand goes on being based on a     *)
(* revision when another saves.                                             *)
LEMMA StaysBased ==
  ASSUME PapersInv, Saved
  PROVE  /\ \A e \in Editors : page'[e] = page[e] => BasedPage(e)'
         /\ \A i \in Runs : run'[i] = run[i] => BasedRun(i)'
  <1> USE DEF PapersInv, Saved, PapersTyping, Based
  <1>1. doc.rev \in 1..MaxRev /\ doc'.rev \in 1..MaxRev /\ doc'.rev >= doc.rev
    OBVIOUS
  <1>2. \A r \in 1..doc.rev : r \in 1..doc'.rev /\ past'[r] = past[r]
    BY <1>1
  <1> QED
    BY <1>2 DEF BasedPage, BasedRun

\* A step of a page or a tool.
LEMMA PageStep ==
  ASSUME PapersInv, Saved, UNCHANGED <<Papers!rights, hostGate, run>>,
         NEW e \in Editors, NEW r \in {Papers!Idle} \cup EditRecord, page' = [page EXCEPT ![e] = r],
         r.stage \in {"open", "ready"} =>
             r.base \in 1..doc'.rev /\ (~r.back => r.text = past'[r.base])
  PROVE  PapersInv'
  <1>1. page' \in [Editors -> {Papers!Idle} \cup EditRecord] /\ page'[e] = r /\ \A f \in Editors : f # e => page'[f] = page[f]
    BY DEF PapersInv, PapersTyping
  <1>2. PapersTyping'
    BY <1>1 DEF PapersInv, Saved, PapersTyping, Papers!rights
  <1>3. Based'
    BY <1>1, StaysBased DEF Based, BasedPage
  <1>4. Gated' /\ Entitled'
    BY DEF PapersInv, Gated, Entitled, Papers!Allowed, Papers!rights
  <1> QED
    BY <1>2, <1>3, <1>4 DEF PapersInv, Saved

\* A step of an administrator.
LEMMA AdminStep ==
  ASSUME Papers!StudioAssumption, PapersInv, hostGate = Nobody,
         UNCHANGED <<Papers!documents, hostGate, page, run>>,
         pkg' \in {Nobody} \cup [mark : Marks, enabled : BOOLEAN, granted : BOOLEAN],
         access' \in {Nobody} \cup [mark : Marks, doc : BOOLEAN],
         bundled' \in BOOLEAN, said' \in BOOLEAN,
         access' # Nobody /\ access'.doc => said'
  PROVE  PapersInv'
  <1>1. Saved
    BY Untouched
  <1>2. PapersTyping'
    BY <1>1 DEF PapersInv, Saved, PapersTyping
  <1>3. Based'
    BY <1>1, StaysBased DEF Based
  <1>4. Gated' /\ Entitled'
    <2>1. \A i \in Runs : run[i].stage \notin {"save", "create"}
      BY DEF PapersInv, Gated, Papers!StudioAssumption
    <2> QED
      BY <2>1 DEF PapersInv, Gated, Entitled
  <1> QED
    BY <1>1, <1>2, <1>3, <1>4 DEF PapersInv, Saved

\* A step of an invocation.
LEMMA RunStep ==
  ASSUME PapersInv, Saved, UNCHANGED <<Papers!rights, page>>,
         NEW i \in Runs, NEW r \in {Papers!Idle} \cup RunRecord, run' = [run EXCEPT ![i] = r],
         hostGate' \in Runs \cup {Nobody},
         r.stage \in {"save", "create"} <=> hostGate' = i,
         \A j \in Runs : j # i => (hostGate' = j <=> hostGate = j),
         r.stage = "save" => /\ r.base \in 1..doc'.rev /\ r.text = past'[r.base]
                             /\ Papers!Allowed(i) /\ access.doc /\ r.mark = run[i].mark,
         r.stage = "create" => r.copy = access
  PROVE  PapersInv'
  <1>1. run' \in [Runs -> {Papers!Idle} \cup RunRecord] /\ run'[i] = r /\ \A j \in Runs : j # i => run'[j] = run[j]
    BY DEF PapersInv, PapersTyping
  <1>2. PapersTyping'
    BY <1>1 DEF PapersInv, Saved, PapersTyping, Papers!rights
  <1>3. Based'
    <2>1. BasedRun(i)'
      BY <1>1 DEF BasedRun
    <2> QED
      BY <1>1, <2>1, StaysBased DEF Based
  <1>4. Gated'
    BY <1>1 DEF PapersInv, Gated
  <1>5. Entitled'
    BY <1>1 DEF PapersInv, Entitled, Papers!Allowed, Papers!rights
  <1> QED
    BY <1>2, <1>3, <1>4, <1>5 DEF PapersInv, Saved

-----------------------------------------------------------------------------
\* A document as it is made, without a plugin or with one, is as PapersInv says.
LEMMA PapersInit ==
  ASSUME Papers!StudioAssumption, Papers!Init
  PROVE  PapersInv
  <1> USE DEF Papers!StudioAssumption, Papers!Init, Papers!Idle
  <1>1. {1} \in Texts /\ Len(past) = 1 /\ past[1] = {1} /\ past \in Seq(Texts)
    BY DEF Texts
  <1>2. PapersTyping
    <2>1. doc \in [rev : 1..MaxRev, text : Texts] /\ hist \in [1..MaxRev -> Texts \cup {Nobody}]
      BY <1>1
    <2>2. /\ pkg \in {Nobody} \cup [mark : Marks, enabled : BOOLEAN, granted : BOOLEAN]
          /\ access \in {Nobody} \cup [mark : Marks, doc : BOOLEAN]
      <3>1. CASE pkg = Nobody /\ access = Nobody
        BY <3>1
      <3>2. ASSUME NEW m \in Marks, pkg = [mark |-> m, enabled |-> TRUE, granted |-> TRUE],
                   access \in {Nobody, [mark |-> m, doc |-> TRUE]}
            PROVE  pkg \in [mark : Marks, enabled : BOOLEAN, granted : BOOLEAN]
                   /\ access \in {Nobody} \cup [mark : Marks, doc : BOOLEAN]
        <4>1. pkg \in [mark : Marks, enabled : BOOLEAN, granted : BOOLEAN]
          BY <3>2
        <4>2. [mark |-> m, doc |-> TRUE] \in [mark : Marks, doc : BOOLEAN]
          OBVIOUS
        <4> QED
          BY <3>2, <4>1, <4>2
      <3> QED
        BY <3>1, <3>2
    <2>3. page \in [Editors -> {Papers!Idle} \cup EditRecord] /\ run \in [Runs -> {Papers!Idle} \cup RunRecord]
      OBVIOUS
    <2> QED
      BY <1>1, <2>1, <2>2, <2>3 DEF PapersTyping
  <1>3. Current /\ Based /\ Gated /\ Entitled
    BY <1>1 DEF Current, Based, BasedPage, BasedRun, Gated, Entitled
  <1>4. Papers!NoLostEdit /\ Papers!ListedIsThere
    BY DEF Papers!NoLostEdit, Papers!ListedIsThere
  <1> QED
    BY <1>2, <1>3, <1>4 DEF PapersInv

\* Every step of a page, a tool, an administrator or an invocation keeps PapersInv.
LEMMA PapersStep ==
  ASSUME Papers!StudioAssumption, PapersInv, [Papers!Next]_(Papers!vars)
  PROVE  PapersInv'
  <1> USE DEF Papers!StudioAssumption
  <1>0. /\ doc.rev \in 1..MaxRev /\ doc.text \in Texts /\ past[doc.rev] = doc.text /\ MaxRev \in Nat
        /\ \A e \in Editors : page[e] \in {Papers!Idle} \cup EditRecord /\ BasedPage(e)
        /\ \A i \in Runs : run[i] \in {Papers!Idle} \cup RunRecord /\ BasedRun(i)
        /\ pkg \in {Nobody} \cup [mark : Marks, enabled : BOOLEAN, granted : BOOLEAN]
        /\ access \in {Nobody} \cup [mark : Marks, doc : BOOLEAN]
        /\ bundled \in BOOLEAN /\ said \in BOOLEAN
        /\ access # Nobody /\ access.doc => said
    BY DEF PapersInv, PapersTyping, Current, Based, Entitled
  <1>1. CASE UNCHANGED Papers!vars
    <2>1. Saved /\ UNCHANGED <<doc, hist, bundled, pkg, access, hostGate, page, run, past, restored, pruned, said>>
      BY <1>1, Untouched DEF Papers!vars, Papers!documents
    <2> QED
      BY <2>1, StaysBased DEF PapersInv, Saved, PapersTyping, Based, Gated, Entitled, Papers!Allowed
  <1>2. ASSUME NEW e \in Editors, Papers!Open(e)
        PROVE  PapersInv'
    <2> DEFINE r == [stage |-> "open", base |-> doc.rev, text |-> doc.text, back |-> FALSE]
    <2>1. Saved /\ UNCHANGED <<Papers!documents, Papers!rights, hostGate, run>> /\ page' = [page EXCEPT ![e] = r]
      BY <1>2, Untouched DEF Papers!Open
    <2>2. r \in EditRecord
      BY <1>0 DEF EditRecord
    <2>3. r.base \in 1..doc'.rev /\ r.text = past'[r.base]
      BY <1>0, <2>1 DEF Papers!documents
    <2> HIDE DEF r
    <2> QED
      BY <2>1, <2>2, <2>3, PageStep
  <1>3. ASSUME NEW e \in Editors, Papers!Preview(e)
        PROVE  PapersInv'
    <2>1. Saved /\ UNCHANGED <<Papers!documents, Papers!rights, hostGate, run>> /\ page[e].stage = "open"
      BY <1>3, Untouched DEF Papers!Preview
    <2>2. page[e] \in EditRecord
      BY <1>0, <2>1 DEF Papers!Idle
    <2> DEFINE r == [page[e] EXCEPT !.stage = "ready", !.text = doc.text]
    <2>3. CASE bundled /\ page[e].base = doc.rev
      <3>1. page' = [page EXCEPT ![e] = r]
        BY <1>3, <2>3 DEF Papers!Preview
      <3>2. r \in EditRecord /\ r.text = doc.text /\ r.base = doc.rev
        BY <1>0, <2>2, <2>3, EditRecords
      <3> HIDE DEF r
      <3>3. r.base \in 1..doc'.rev /\ r.text = past'[r.base]
        BY <1>0, <2>1, <3>2 DEF Papers!documents
      <3> QED
        BY <2>1, <3>1, <3>2, <3>3, PageStep
    <2>4. CASE ~(bundled /\ page[e].base = doc.rev)
      <3>1. page' = [page EXCEPT ![e] = Papers!Idle] /\ Papers!Idle.stage \notin {"open", "ready"}
        BY <1>3, <2>4 DEF Papers!Preview, Papers!Idle
      <3> QED
        BY <2>1, <3>1, PageStep
    <2> QED
      BY <2>3, <2>4
  <1>4. ASSUME NEW e \in Editors, NEW v \in 1..MaxRev, Papers!Restore(e, v)
        PROVE  PapersInv'
    <2> DEFINE r == [page[e] EXCEPT !.stage = "ready", !.text = hist[v], !.back = TRUE]
    <2>1. /\ Saved /\ UNCHANGED <<Papers!documents, Papers!rights, hostGate, run>>
          /\ page[e].stage = "open" /\ hist[v] # Nobody /\ page' = [page EXCEPT ![e] = r]
      BY <1>4, Untouched DEF Papers!Restore
    <2>2. page[e] \in EditRecord /\ hist[v] \in Texts /\ page[e].base \in 1..doc.rev
      BY <1>0, <2>1 DEF Papers!Idle, PapersInv, PapersTyping, BasedPage
    <2>3. r \in EditRecord /\ r.base = page[e].base /\ r.back
      BY <2>2, EditRecords
    <2> HIDE DEF r
    <2>4. r.base \in 1..doc'.rev
      BY <2>1, <2>2, <2>3 DEF Papers!documents
    <2> QED
      BY <2>1, <2>3, <2>4, PageStep
  <1>5. ASSUME NEW e \in Editors, NEW ok \in BOOLEAN, Papers!SaveEdit(e, ok)
        PROVE  PapersInv'
    <2> DEFINE text == IF page[e].back THEN page[e].text ELSE page[e].text \cup {doc.rev + 1}
    <2>1. /\ UNCHANGED <<Papers!rights, hostGate, run>> /\ page[e].stage \in {"open", "ready"}
          /\ page' = [page EXCEPT ![e] = Papers!Idle] /\ Papers!Idle.stage \notin {"open", "ready"}
      BY <1>5 DEF Papers!SaveEdit, Papers!Idle
    <2>2. page[e] \in EditRecord
      BY <1>0, <2>1 DEF Papers!Idle
    <2>3. CASE Papers!Accepts(page[e].base)
      <3>1. page[e].base = doc.rev
        BY <2>3 DEF Papers!Accepts
      <3>2. text \in Texts
        BY <1>0, <2>2 DEF EditRecord, Texts
      <3>3. Papers!Replace(text, ok) /\ restored' = IF ok /\ page[e].back THEN restored \cup {doc.rev + 1} ELSE restored
        BY <1>5, <2>3 DEF Papers!SaveEdit
      <3>4. ok => doc.text \subseteq text \/ doc.rev + 1 \in restored'
        BY <1>0, <2>1, <3>1, <3>3 DEF BasedPage
      <3> HIDE DEF text
      <3>5. Saved
        BY <3>2, <3>3, <3>4, Replacing
      <3> QED
        BY <2>1, <3>5, PageStep
    <2>4. CASE ~Papers!Accepts(page[e].base)
      <3>1. Saved
        BY <1>5, <2>4, Untouched DEF Papers!SaveEdit
      <3> QED
        BY <2>1, <3>1, PageStep
    <2> QED
      BY <2>3, <2>4
  <1>6. ASSUME NEW m \in Marks, NEW g \in BOOLEAN, Papers!Install(m, g)
        PROVE  PapersInv'
    BY <1>0, <1>6, AdminStep DEF Papers!Install, Papers!Admin
  <1>7. ASSUME NEW to \in BOOLEAN, Papers!Enable(to)
        PROVE  PapersInv'
    BY <1>0, <1>7, AdminStep DEF Papers!Enable, Papers!Admin
  <1>8. ASSUME NEW g \in BOOLEAN, NEW may \in BOOLEAN, Papers!Configure(g, may)
        PROVE  PapersInv'
    <2>1. /\ pkg' \in [mark : Marks, enabled : BOOLEAN, granted : BOOLEAN]
          /\ access' \in [mark : Marks, doc : BOOLEAN] /\ access'.doc = may /\ said' = may
      BY <1>0, <1>8 DEF Papers!Configure
    <2> QED
      BY <1>0, <1>8, <2>1, AdminStep DEF Papers!Configure, Papers!Admin
  <1>9. CASE Papers!Uninstall
    BY <1>0, <1>9, AdminStep DEF Papers!Uninstall, Papers!Admin
  <1>10. ASSUME NEW to \in BOOLEAN, Papers!Bundle(to)
         PROVE  PapersInv'
    BY <1>0, <1>10, AdminStep DEF Papers!Bundle, Papers!Admin
  <1>11. CASE Papers!RestoreBundled
    <2>1. /\ UNCHANGED <<Papers!documents, pkg, access, said, hostGate, page, run>> /\ bundled'
      BY <1>11 DEF Papers!RestoreBundled
    <2>2. Saved
      BY <2>1, Untouched
    <2> QED
      BY <2>1, <2>2, <1>11, StaysBased
      DEF PapersInv, Saved, PapersTyping, Based, Gated, Entitled, Papers!Allowed, Papers!RestoreBundled
  <1>12. ASSUME NEW i \in Runs, Papers!Invoke(i)
         PROVE  PapersInv'
    <2> DEFINE r == [stage |-> "running", mark |-> pkg.mark, base |-> 0, text |-> {}, copy |-> Nobody]
    <2>1. /\ Saved /\ UNCHANGED <<Papers!rights, page, hostGate>> /\ run' = [run EXCEPT ![i] = r]
          /\ run[i].stage = "idle" /\ pkg # Nobody
      BY <1>12, Untouched DEF Papers!Invoke, Papers!Idle
    <2>2. r \in RunRecord /\ r.stage = "running"
      BY <1>0, <2>1 DEF RunRecord, Texts
    <2> HIDE DEF r
    <2>3. hostGate # i /\ hostGate' \in Runs \cup {Nobody}
      BY <2>1 DEF PapersInv, PapersTyping, Gated
    <2> QED
      BY <2>1, <2>2, <2>3, RunStep
  <1>13. ASSUME NEW i \in Runs, Papers!CallGet(i)
         PROVE  PapersInv'
    <2> DEFINE r == [run[i] EXCEPT !.base = doc.rev]
    <2>1. /\ Saved /\ UNCHANGED <<Papers!rights, page, hostGate>> /\ run' = [run EXCEPT ![i] = r]
          /\ run[i].stage = "running"
      BY <1>13, Untouched DEF Papers!CallGet, Papers!Call
    <2>2. run[i] \in RunRecord
      BY <1>0, <2>1 DEF Papers!Idle
    <2>3. r \in RunRecord /\ r.stage = "running"
      BY <1>0, <2>1, <2>2, RunGets
    <2> HIDE DEF r
    <2>4. hostGate # i /\ hostGate' \in Runs \cup {Nobody}
      BY <2>1 DEF PapersInv, PapersTyping, Gated
    <2> QED
      BY <2>1, <2>3, <2>4, RunStep
  <1>14. ASSUME NEW i \in Runs, Papers!CallEdit(i)
         PROVE  PapersInv'
    <2> DEFINE r == [run[i] EXCEPT !.stage = "save", !.text = doc.text]
    <2>1. /\ Saved /\ UNCHANGED <<Papers!documents, Papers!rights, page>> /\ run' = [run EXCEPT ![i] = r]
          /\ run[i].stage = "running" /\ hostGate = Nobody /\ hostGate' = i
          /\ Papers!Allowed(i) /\ access.doc /\ run[i].base = doc.rev
      BY <1>14, Untouched DEF Papers!CallEdit, Papers!Call
    <2>2. run[i] \in RunRecord
      BY <1>0, <2>1 DEF Papers!Idle
    <2>3. r \in RunRecord /\ r.stage = "save" /\ r.text = doc.text /\ r.base = doc.rev /\ r.mark = run[i].mark
      <3>1. doc.text \in Texts
        BY <1>0
      <3>2. r \in RunRecord /\ r.stage = "save"
        BY <2>2, <3>1, RunEdits
      <3>3. r.text = doc.text
        BY <2>2, <3>1, RunEdits
      <3>4. r.base = run[i].base
        BY <2>2 DEF RunRecord
      <3>5. r.mark = run[i].mark
        BY <2>2 DEF RunRecord
      <3> QED
        BY <2>1, <3>2, <3>3, <3>4, <3>5
    <2> HIDE DEF r
    <2>4. r.base \in 1..doc'.rev /\ r.text = past'[r.base]
      BY <1>0, <2>1, <2>3 DEF Papers!documents
    <2> QED
      BY <2>1, <2>3, <2>4, RunStep
  <1>15. ASSUME NEW i \in Runs, Papers!CallCreate(i)
         PROVE  PapersInv'
    <2> DEFINE r == [run[i] EXCEPT !.stage = "create", !.copy = access]
    <2>1. /\ Saved /\ UNCHANGED <<Papers!rights, page>> /\ run' = [run EXCEPT ![i] = r]
          /\ run[i].stage = "running" /\ hostGate = Nobody /\ hostGate' = i
      BY <1>15, Untouched DEF Papers!CallCreate, Papers!Call
    <2>2. run[i] \in RunRecord
      BY <1>0, <2>1 DEF Papers!Idle
    <2>3. r \in RunRecord /\ r.stage = "create" /\ r.copy = access
      BY <1>0, <2>2, RunCopies
    <2> HIDE DEF r
    <2> QED
      BY <2>1, <2>3, RunStep
  <1>16. ASSUME NEW i \in Runs, Papers!AddAccess(i)
         PROVE  PapersInv'
    <2> DEFINE r == [run[i] EXCEPT !.stage = "running", !.copy = Nobody]
    <2>1. /\ Saved /\ UNCHANGED <<page, bundled, pkg, admins, said>> /\ run' = [run EXCEPT ![i] = r]
          /\ run[i].stage = "create" /\ hostGate' = Nobody /\ access' = run[i].copy
      BY <1>16, Untouched DEF Papers!AddAccess
    <2>2. run[i] \in RunRecord /\ hostGate = i /\ UNCHANGED Papers!rights
      BY <1>0, <2>1 DEF Papers!Idle, PapersInv, Gated, Entitled, Papers!rights
    <2>3. r \in RunRecord /\ r.stage = "running"
      BY <2>2, RunCopies
    <2> HIDE DEF r
    <2> QED
      BY <2>1, <2>2, <2>3, RunStep
  <1>17. ASSUME NEW i \in Runs, Papers!Return(i)
         PROVE  PapersInv'
    <2>1. /\ Saved /\ UNCHANGED <<Papers!rights, page, hostGate>> /\ run' = [run EXCEPT ![i] = Papers!Idle]
          /\ run[i].stage = "running" /\ Papers!Idle.stage = "idle"
      BY <1>17, Untouched DEF Papers!Return, Papers!Idle
    <2>2. hostGate # i /\ hostGate' \in Runs \cup {Nobody}
      BY <2>1 DEF PapersInv, PapersTyping, Gated
    <2> QED
      BY <2>1, <2>2, RunStep
  <1>18. ASSUME NEW i \in Runs, NEW ok \in BOOLEAN, Papers!SaveCall(i, ok)
         PROVE  PapersInv'
    <2> DEFINE r == [run[i] EXCEPT !.stage = "running", !.text = {}]
               text == run[i].text \cup {doc.rev + 1}
    <2>1. /\ UNCHANGED <<Papers!rights, page, restored>> /\ run' = [run EXCEPT ![i] = r]
          /\ run[i].stage = "save" /\ hostGate' = Nobody
      BY <1>18 DEF Papers!SaveCall
    <2>2. run[i] \in RunRecord /\ hostGate = i
      BY <1>0, <2>1 DEF Papers!Idle, PapersInv, Gated
    <2>3. r \in RunRecord /\ r.stage = "running"
      <3>1. {} \in Texts
        BY DEF Texts
      <3> QED
        BY <2>2, <3>1, RunEdits
    <2>4. Saved
      <3>1. CASE Papers!Accepts(run[i].base)
        <4>1. text \in Texts /\ Papers!Replace(text, ok)
          BY <1>0, <1>18, <2>2, <3>1 DEF RunRecord, Texts, Papers!SaveCall
        <4>2. doc.text \subseteq text
          BY <1>0, <2>1, <3>1 DEF BasedRun, Papers!Accepts
        <4> HIDE DEF text
        <4> QED
          BY <2>1, <4>1, <4>2, Replacing
      <3>2. CASE ~Papers!Accepts(run[i].base)
        BY <1>18, <2>1, <3>2, Untouched DEF Papers!SaveCall, Papers!documents
      <3> QED
        BY <3>1, <3>2
    <2> HIDE DEF r
    <2> QED
      BY <2>1, <2>2, <2>3, <2>4, RunStep
  <1> QED
    BY <1>1, <1>2, <1>3, <1>4, <1>5, <1>6, <1>7, <1>8, <1>9, <1>10, <1>11, <1>12, <1>13, <1>14, <1>15, <1>16, <1>17, <1>18
       DEF Papers!Next

(* The documents, the plugin and what is in flight agree, as PapersInv says.  *)
THEOREM PapersInvariance == Papers!Spec => []PapersInv
  <1>1. Papers!Init => PapersInv
    BY StudioAssumption, PapersInit
  <1>2. PapersInv /\ [Papers!Next]_(Papers!vars) => PapersInv'
    BY StudioAssumption, PapersStep
  <1> QED
    BY <1>1, <1>2, PTL DEF Papers!Spec

(* No change to a document is lost to another that was made beside it, by a *)
(* page, a tool or a plugin.                                                *)
THEOREM NoEditIsLost == Papers!Spec => []NoLostEdit
  <1>1. PapersInv => NoLostEdit
    BY DEF PapersInv, NoLostEdit
  <1> QED
    BY <1>1, PapersInvariance, PTL

(* Every revision that history lists is there to be restored, as it was     *)
(* saved; but for one that was pruned for a save that failed.               *)
THEOREM HistoryIsThere == Papers!Spec => []ListedIsThere
  <1>1. PapersInv => ListedIsThere
    BY DEF PapersInv, ListedIsThere
  <1> QED
    BY <1>1, PapersInvariance, PTL

(* A plugin that was taken away, disabled, or has lost its permissions or   *)
(* the document, changes the document no more, however its invocations and  *)
(* the administrations interleave: host_gate is held from the question to   *)
(* the save.                                                                *)
THEOREM RevocationHolds == Papers!Spec => RevokedStaysOut
  <1>1. PapersInv => \A i \in Runs : Papers!Changes(i) => said /\ pkg # Nobody /\ pkg.enabled /\ pkg.granted
    BY DEF PapersInv, Entitled, Papers!Changes, Papers!Allowed
  <1> QED
    BY <1>1, PapersInvariance, PTL DEF RevokedStaysOut, Papers!RevokedStaysOut

-----------------------------------------------------------------------------
(* Settings *)

Ask == [skill : {"unset", "on", "off"}, plugin : BOOLEAN]
Secrets == {Config!No} \cup [do : {"set", "remove"}, name : Config!Names]
SaveStages == {"vault", "open", "vaultWrite", "ready", "write"}
SaveRecord == [stage : SaveStages, cfg : Config!Record, ask : Ask, secret : Secrets, base : Nat,
               secrets : SUBSET Config!Names, vaultBase : Nat]
FormRecord == [stage : {"editing"}, page : {"app", "agent"}, base : Nat, form : Config!Record]

\* A request that has settings in hand, these settings, and what they are to hold.
Saves(c) == req[c].stage \in SaveStages
Edits(c) == req[c].stage = "editing"
Copy(c) == IF Edits(c) THEN req[c].form ELSE req[c].cfg
AskOf(c) == IF Edits(c) THEN asked ELSE req[c].ask

ConfigTyping ==
    /\ settings \in Config!Record \cup {Torn} /\ vault \in (SUBSET Config!Names) \cup {Torn}
    /\ version \in Nat /\ vaultVersion \in Nat /\ asked \in Ask /\ env \in BOOLEAN
    /\ req \in [Clients -> {Config!Idle} \cup SaveRecord \cup FormRecord]
    /\ \A c \in Clients : /\ Saves(c) => req[c].base <= version /\ req[c].vaultBase <= vaultVersion
                          /\ Edits(c) => req[c].base <= version
                          /\ req[c].stage \in {"vault", "open", "vaultWrite"} => req[c].secret.do # "none"

Matches(s, a) == s.skill = a.skill /\ s.plugin = a.plugin
Writing(c) == req[c].stage = "write"

\* The file is, or is going to be, written by one who has read an older one,
\* or it was left torn.
Stale == crossed \/ lost \/ \E c \in Clients : Writing(c) /\ req[c].base # version

\* The settings of the file, and those in hand that are of the same version,
\* hold what was asked for; a torn file is being written.
CopyHolds(c) == (Saves(c) \/ Edits(c)) /\ req[c].base = version =>
                    Matches(Copy(c), AskOf(c)) \/ \E w \in Clients \ {c} : Writing(w)
Acknowledged == ~Stale => /\ settings # Torn => Matches(settings, asked)
                          /\ settings = Torn => \E w \in Clients : Writing(w)
                          /\ \A c \in Clients : CopyHolds(c)

Refers(s, n) == IF n = "agent" THEN s.ref ELSE s.token

\* Somebody removes the secret n, or is about to put it there.
Removed(n) == \E c \in Clients : Config!Removing(c) /\ req[c].secret.name = n
Sets(c, n) == /\ req[c].stage \in {"vault", "open", "vaultWrite"}
              /\ req[c].secret.do = "set" /\ req[c].secret.name = n

\* The secret n is in the vault, and in every copy that may become the vault.
InEveryCopy(n) == /\ vault # Torn => n \in vault
            /\ \A c \in Clients : req[c].stage \in {"open", "vaultWrite"} /\ req[c].vaultBase = vaultVersion =>
                   n \in req[c].secrets
Held(n) == InEveryCopy(n) \/ Removed(n)

\* The vault is, or is going to be, written by one who has read an older one,
\* was left torn, or loses a secret while others go on referring to it.
Frayed == crossed \/ dangling \/ \E c \in Clients : \/ Config!Removing(c) /\ req[c].base # version
                                                    \/ req[c].stage = "vaultWrite" /\ req[c].vaultBase # vaultVersion

\* Who removes a secret does not refer to it; a reference in the file, or in
\* settings of its version in hand, has its secret or will have it.
Unreferred(c) == Saves(c) /\ req[c].secret.do = "remove" => ~Refers(req[c].cfg, req[c].secret.name)
CopyResolves(c) == (Saves(c) \/ Edits(c)) /\ req[c].base = version =>
                       \A n \in Config!Names : Refers(Copy(c), n) => Held(n) \/ Sets(c, n)
Resolved == ~Frayed => /\ vault = Torn => \E c \in Clients : req[c].stage = "vaultWrite"
                       /\ settings # Torn => \A n \in Config!Names : Refers(settings, n) => Held(n)
                       /\ \A c \in Clients : CopyResolves(c)

ConfigInv == ConfigTyping /\ Acknowledged /\ (\A c \in Clients : Unreferred(c)) /\ Resolved

-----------------------------------------------------------------------------
(* The settings under the updates they get, and what an update leaves.      *)
LEMMA RecordEntry ==
  ASSUME NEW q \in Config!Record, NEW v \in BOOLEAN
  PROVE  LET p == [q EXCEPT !.entry = v]
         IN  p \in Config!Record /\ p.skill = q.skill /\ p.plugin = q.plugin /\ p.ref = q.ref /\ p.token = q.token /\ p.entry = v
  BY DEF Config!Record

\* so is its override,
LEMMA RecordSkill ==
  ASSUME NEW q \in Config!Record, NEW v \in {"unset", "on", "off"}
  PROVE  LET p == [q EXCEPT !.skill = v]
         IN  p \in Config!Record /\ p.skill = v /\ p.plugin = q.plugin /\ p.ref = q.ref /\ p.token = q.token /\ p.entry = q.entry
  BY DEF Config!Record

\* its reference to a token,
LEMMA RecordToken ==
  ASSUME NEW q \in Config!Record, NEW v \in BOOLEAN
  PROVE  LET p == [q EXCEPT !.token = v]
         IN  p \in Config!Record /\ p.skill = q.skill /\ p.plugin = q.plugin /\ p.ref = q.ref /\ p.token = v /\ p.entry = q.entry
  BY DEF Config!Record

\* the flag of the plugin,
LEMMA RecordPlugin ==
  ASSUME NEW q \in Config!Record, NEW v \in BOOLEAN
  PROVE  LET p == [q EXCEPT !.plugin = v]
         IN  p \in Config!Record /\ p.skill = q.skill /\ p.plugin = v /\ p.ref = q.ref /\ p.token = q.token /\ p.entry = q.entry
  BY DEF Config!Record

\* the key,
LEMMA RecordKey ==
  ASSUME NEW q \in Config!Record, NEW v \in BOOLEAN
  PROVE  LET p == [q EXCEPT !.key = v]
         IN  p \in Config!Record /\ p.skill = q.skill /\ p.plugin = q.plugin /\ p.ref = q.ref /\ p.token = q.token /\ p.entry = q.entry
  BY DEF Config!Record

\* and its reference.
LEMMA RecordRef ==
  ASSUME NEW q \in Config!Record, NEW v \in BOOLEAN
  PROVE  LET p == [q EXCEPT !.ref = v]
         IN  p \in Config!Record /\ p.skill = q.skill /\ p.plugin = q.plugin /\ p.ref = v /\ p.token = q.token /\ p.entry = q.entry
  BY DEF Config!Record

\* What a request loads is settings, and those of the file if it is whole.
LEMMA Loaded ==
  ASSUME ConfigTyping
  PROVE  LET q == Config!LoadSettings
         IN  /\ q \in Config!Record
             /\ settings # Torn => q = settings
             /\ settings = Torn => ~q.ref /\ ~q.token
             /\ Config!ApplyEnv(q) \in Config!Record
             /\ Config!ApplyEnv(q).skill = q.skill /\ Config!ApplyEnv(q).plugin = q.plugin
             /\ Config!ApplyEnv(q).token = q.token
             /\ Config!ApplyEnv(q).ref => q.ref
  <1> DEFINE q == Config!LoadSettings
             p == [q EXCEPT !.key = TRUE]
             r == [p EXCEPT !.ref = FALSE]
  <1>1. /\ q \in Config!Record /\ (settings # Torn => q = settings)
        /\ settings = Torn => ~q.ref /\ ~q.token
    BY DEF Config!LoadSettings, Config!Default, Config!Record, ConfigTyping
  <1>2. r = [q EXCEPT !.key = TRUE, !.ref = FALSE]
    OBVIOUS
  <1> HIDE DEF q
  <1>3. p \in Config!Record /\ p.skill = q.skill /\ p.plugin = q.plugin /\ p.ref = q.ref /\ p.token = q.token
    BY <1>1, RecordKey
  <1> HIDE DEF p
  <1>4. r \in Config!Record /\ r.skill = q.skill /\ r.plugin = q.plugin /\ r.ref = FALSE /\ r.token = q.token
    BY <1>3, RecordRef
  <1> HIDE DEF r
  <1>5. Config!ApplyEnv(q) = IF env THEN r ELSE q
    BY <1>2 DEF Config!ApplyEnv
  <1>6. /\ Config!ApplyEnv(q) \in Config!Record
        /\ Config!ApplyEnv(q).skill = q.skill /\ Config!ApplyEnv(q).plugin = q.plugin
        /\ Config!ApplyEnv(q).token = q.token
        /\ Config!ApplyEnv(q).ref => q.ref
    BY <1>1, <1>4, <1>5
  <1> QED
    BY <1>1, <1>6 DEF q

-----------------------------------------------------------------------------
\* A request gets settings in hand: from a page, or from what it has loaded.
LEMMA Takes ==
  ASSUME ConfigInv, NEW c \in Clients, ~Saves(c), NEW r \in SaveRecord \cup FormRecord,
         req' = [req EXCEPT ![c] = r],
         UNCHANGED <<settings, vault, env, version, vaultVersion, asked, crossed, lost, dangling>>,
         r.stage \in {"ready", "vault", "editing"}, r.base <= version,
         r.stage # "editing" => r.vaultBase <= vaultVersion,
         r.stage = "vault" => r.secret.do # "none",
         r.stage = "ready" => r.secret.do = "none",
         Unreferred(c)',
         ~Stale /\ r.base = version =>
             Matches(Copy(c)', AskOf(c)') \/ \E w \in Clients \ {c} : Writing(w),
         ~Frayed /\ r.base = version =>
             \A n \in Config!Names : Refers(Copy(c)', n) => Held(n) \/ Sets(c, n)'
  PROVE  ConfigInv'
  <1>1. /\ req' \in [Clients -> {Config!Idle} \cup SaveRecord \cup FormRecord] /\ req'[c] = r
        /\ \A d \in Clients : d # c => req'[d] = req[d]
    BY DEF ConfigInv, ConfigTyping
  <1>2. ConfigTyping'
    BY <1>1 DEF ConfigInv, ConfigTyping, Saves, Edits, SaveStages
  <1>3. \A d \in Clients : Writing(d)' <=> Writing(d)
    BY <1>1 DEF Writing, Saves, SaveStages
  <1>4. Stale' <=> Stale
    BY <1>1, <1>3 DEF Stale, Writing
  <1>5. \A d \in Clients : Config!Removing(d)' <=> Config!Removing(d)
    BY <1>1 DEF Config!Removing, Saves, SaveStages
  <1>6. /\ \A d \in Clients : Config!Removing(d) => d # c
        /\ \A d \in Clients : req[d].stage \in {"open", "vaultWrite"} => d # c
        /\ \A d \in Clients : req'[d].stage \in {"open", "vaultWrite"} => d # c
    BY <1>1 DEF Config!Removing, Saves, SaveStages
  <1>7. \A n \in Config!Names : Held(n)' <=> Held(n)
    BY <1>1, <1>5, <1>6 DEF Held, InEveryCopy, Removed
  <1>8. Frayed' <=> Frayed
    BY <1>1, <1>5, <1>6 DEF Frayed
  <1>9. Acknowledged'
    <2>1. ~Stale' => \A d \in Clients : CopyHolds(d)'
      BY <1>1, <1>3, <1>4 DEF ConfigInv, Acknowledged, CopyHolds, Saves, Edits, Copy, AskOf
    <2> QED
      BY <1>3, <1>4, <2>1 DEF ConfigInv, Acknowledged
  <1>10. \A d \in Clients : Unreferred(d)'
    BY <1>1 DEF ConfigInv, Unreferred, Saves
  <1>11. Resolved'
    <2>1. ~Frayed' => \A d \in Clients : CopyResolves(d)'
      <3> SUFFICES ASSUME ~Frayed', NEW d \in Clients, NEW n \in Config!Names,
                          (Saves(d) \/ Edits(d))', req'[d].base = version, Refers(Copy(d)', n)
                   PROVE  Held(n) \/ Sets(d, n)'
        BY <1>7 DEF CopyResolves
      <3>1. CASE d = c
        BY <1>1, <1>8, <3>1
      <3>2. CASE d # c
        BY <1>1, <1>8, <3>2 DEF ConfigInv, Resolved, CopyResolves, Saves, Edits, Copy, Sets
      <3> QED
        BY <3>1, <3>2
    <2>2. ~Frayed' /\ vault = Torn => \E d \in Clients : req'[d].stage = "vaultWrite"
      BY <1>1, <1>6, <1>8 DEF ConfigInv, Resolved
    <2> QED
      BY <1>7, <1>8, <2>1, <2>2 DEF ConfigInv, Resolved
  <1> QED
    BY <1>2, <1>9, <1>10, <1>11 DEF ConfigInv

(* What a request that saves starts with.                                   *)
LEMMA SavingRecord ==
  ASSUME NEW q \in Config!Record, NEW a \in Ask, NEW s \in Secrets, NEW n \in Nat
  PROVE  LET r == Config!Saving(q, a, s, n)
         IN  /\ r \in SaveRecord /\ r.cfg = q /\ r.ask = a /\ r.secret = s /\ r.base = n /\ r.vaultBase = 0
             /\ r.stage = IF s.do = "none" THEN "ready" ELSE "vault"
  BY DEF Config!Saving, SaveRecord, SaveStages

(* The same of a request that has loaded the file, or posts a page.         *)
LEMMA SavesThat ==
  ASSUME ConfigInv, NEW c \in Clients, ~Saves(c), NEW r \in SaveRecord,
         req' = [req EXCEPT ![c] = r], r.stage = IF r.secret.do = "none" THEN "ready" ELSE "vault",
         r.base <= version, r.vaultBase = 0,
         UNCHANGED <<settings, vault, env, version, vaultVersion, asked, crossed, lost, dangling>>,
         r.secret.do = "remove" => ~Refers(r.cfg, r.secret.name),
         ~Stale /\ r.base = version => Matches(r.cfg, r.ask) \/ \E w \in Clients \ {c} : Writing(w),
         ~Frayed /\ r.base = version =>
             \A m \in Config!Names : Refers(r.cfg, m) => Held(m) \/ (r.secret.do = "set" /\ r.secret.name = m)
  PROVE  ConfigInv'
  <1>1. req'[c] = r /\ r.stage \in {"ready", "vault"}
    BY DEF ConfigInv, ConfigTyping
  <1>2. Copy(c)' = r.cfg /\ AskOf(c)' = r.ask
    BY <1>1 DEF Copy, AskOf, Edits
  <1>3. Unreferred(c)'
    BY <1>1 DEF Unreferred
  <1>4. \A m \in Config!Names : r.secret.do = "set" /\ r.secret.name = m => Sets(c, m)'
    BY <1>1 DEF Sets
  <1>5. r.vaultBase <= vaultVersion
    BY DEF ConfigInv, ConfigTyping
  <1>6. /\ r \in SaveRecord \cup FormRecord /\ r.stage \in {"ready", "vault", "editing"}
        /\ (r.stage = "vault" => r.secret.do # "none") /\ (r.stage = "ready" => r.secret.do = "none")
    BY <1>1
  <1>7. ~Stale /\ r.base = version => Matches(Copy(c)', AskOf(c)') \/ \E w \in Clients \ {c} : Writing(w)
    BY <1>2
  <1>8. ~Frayed /\ r.base = version =>
            \A m \in Config!Names : Refers(Copy(c)', m) => Held(m) \/ Sets(c, m)'
    BY <1>2, <1>4
  <1> QED
    BY <1>3, <1>5, <1>6, <1>7, <1>8, Takes

\* A request asks for the skill and leaves the plugin,
LEMMA AskSkill ==
  ASSUME NEW a \in Ask, NEW k \in {"unset", "on", "off"}
  PROVE  [a EXCEPT !.skill = k] \in Ask /\ [a EXCEPT !.skill = k].skill = k /\ [a EXCEPT !.skill = k].plugin = a.plugin
  BY DEF Ask

\* or asks for the plugin and leaves the skill.
LEMMA AskPlugin ==
  ASSUME NEW a \in Ask, NEW b \in BOOLEAN
  PROVE  [a EXCEPT !.plugin = b] \in Ask /\ [a EXCEPT !.plugin = b].skill = a.skill /\ [a EXCEPT !.plugin = b].plugin = b
  BY DEF Ask

\* What a request loads holds what was asked for and refers to what is there,
\* but for a file that another is writing.
LEMMA LoadedHolds ==
  ASSUME ConfigInv, NEW c \in Clients, ~Saves(c)
  PROVE  LET q == Config!ApplyEnv(Config!LoadSettings)
         IN  /\ ~Stale => \/ Matches(Config!LoadSettings, asked) /\ Matches(q, asked)
                          \/ \E w \in Clients \ {c} : Writing(w)
             /\ ~Frayed => \A n \in Config!Names : /\ Refers(Config!LoadSettings, n) => Held(n)
                                                   /\ Refers(q, n) => Held(n)
  <1>1. ConfigTyping /\ Acknowledged /\ Resolved /\ ~Writing(c)
    BY DEF ConfigInv, Saves, SaveStages, Writing
  <1>2. ~Stale /\ settings = Torn => \E w \in Clients \ {c} : Writing(w)
    BY <1>1 DEF Acknowledged
  <1> QED
    BY <1>1, <1>2, Loaded DEF Acknowledged, Resolved, Matches, Refers

\* What a request that goes leaves alone.
LEMMA Gone ==
  ASSUME NEW c \in Clients, NEW r, Config!Goes(c, r)
  PROVE  /\ ~Saves(c) /\ ~Edits(c) /\ req' = [req EXCEPT ![c] = r]
         /\ UNCHANGED <<settings, vault, env, version, vaultVersion, asked, crossed, lost, dangling>>
  BY DEF Config!Goes, Config!Idle, Saves, Edits, SaveStages

\* A request that has nothing to do in the vault is no removal and sets nothing,
LEMMA NoSecret == Config!No \in Secrets /\ Config!No.do = "none"
  BY DEF Config!No, Secrets

\* and one that has names its secret.
LEMMA ASecret ==
  ASSUME NEW n \in Config!Names
  PROVE  /\ Config!Set(n) \in Secrets /\ Config!Set(n).do = "set" /\ Config!Set(n).name = n
         /\ Config!Remove(n) \in Secrets /\ Config!Remove(n).do = "remove" /\ Config!Remove(n).name = n
  BY DEF Config!Set, Config!Remove, Secrets

\* A request that enables or disables the skill asks for that, and changes no reference.
LEMMA TogglesSkill ==
  ASSUME ConfigInv, NEW c \in Clients, NEW to \in {"on", "off"}, Config!ToggleSkill(c, to)
  PROVE  ConfigInv'
  <1> DEFINE q == Config!ApplyEnv(Config!LoadSettings)
             p == [q EXCEPT !.entry = TRUE]
             r == [p EXCEPT !.skill = to]
             a == [asked EXCEPT !.skill = to]
  <1>1. r = [q EXCEPT !.entry = TRUE, !.skill = to]
    OBVIOUS
  <1>2. Config!Goes(c, Config!Saving(r, a, Config!No, version))
    BY <1>1 DEF Config!ToggleSkill
  <1>3. /\ ~Saves(c) /\ req' = [req EXCEPT ![c] = Config!Saving(r, a, Config!No, version)]
        /\ UNCHANGED <<settings, vault, env, version, vaultVersion, asked, crossed, lost, dangling>>
    BY <1>2, Gone
  <1>4. ConfigTyping /\ version \in Nat /\ asked \in Ask
    BY DEF ConfigInv, ConfigTyping
  <1>5. /\ ~Stale => Matches(q, asked) \/ \E w \in Clients \ {c} : Writing(w)
        /\ ~Frayed => \A n \in Config!Names : Refers(q, n) => Held(n)
    BY <1>3, LoadedHolds
  <1>6. q \in Config!Record
    BY <1>4, Loaded
  <1> HIDE DEF q
  <1>7. p \in Config!Record /\ p.skill = q.skill /\ p.plugin = q.plugin /\ p.ref = q.ref /\ p.token = q.token
    BY <1>6, RecordEntry
  <1> HIDE DEF p
  <1>8. r \in Config!Record /\ r.skill = to /\ r.plugin = q.plugin /\ r.ref = q.ref /\ r.token = q.token
    <2>1. to \in {"unset", "on", "off"}
      OBVIOUS
    <2> QED
      BY <1>7, <2>1, RecordSkill
  <1>9. a \in Ask /\ a.skill = to /\ a.plugin = asked.plugin
    BY <1>4, AskSkill
  <1> HIDE DEF r, a
  <1>10. ~Stale => Matches(r, a) \/ \E w \in Clients \ {c} : Writing(w)
    BY <1>5, <1>8, <1>9 DEF Matches
  <1>11. ~Frayed => \A n \in Config!Names : Refers(r, n) => Held(n)
    BY <1>5, <1>8 DEF Refers
  <1> DEFINE t == Config!Saving(r, a, Config!No, version)
  <1>12. /\ t \in SaveRecord /\ t.cfg = r /\ t.ask = a /\ t.secret = Config!No /\ t.base = version
         /\ t.vaultBase = 0 /\ t.stage = IF t.secret.do = "none" THEN "ready" ELSE "vault"
    BY <1>4, <1>8, <1>9, NoSecret, SavingRecord
  <1>13. req' = [req EXCEPT ![c] = t]
    BY <1>3
  <1> HIDE DEF t
  <1>14. t.secret.do = "none" /\ t.base <= version
    BY <1>4, <1>12, NoSecret
  <1>15. /\ ~Stale => Matches(t.cfg, t.ask) \/ \E w \in Clients \ {c} : Writing(w)
         /\ ~Frayed => \A m \in Config!Names : Refers(t.cfg, m) => Held(m)
    BY <1>10, <1>11, <1>12
  <1> QED
    BY <1>3, <1>12, <1>13, <1>14, <1>15, SavesThat

\* So does one that enables or disables the plugin.
LEMMA TogglesPlugin ==
  ASSUME ConfigInv, NEW c \in Clients, NEW to \in BOOLEAN, Config!TogglePlugin(c, to)
  PROVE  ConfigInv'
  <1> DEFINE q == Config!LoadSettings
             r == [q EXCEPT !.plugin = to]
             a == [asked EXCEPT !.plugin = to]
  <1>3. /\ ~Saves(c) /\ req' = [req EXCEPT ![c] = Config!Saving(r, a, Config!No, version)]
        /\ UNCHANGED <<settings, vault, env, version, vaultVersion, asked, crossed, lost, dangling>>
    BY Gone DEF Config!TogglePlugin
  <1>4. ConfigTyping /\ version \in Nat /\ asked \in Ask
    BY DEF ConfigInv, ConfigTyping
  <1>5. /\ ~Stale => Matches(q, asked) \/ \E w \in Clients \ {c} : Writing(w)
        /\ ~Frayed => \A n \in Config!Names : Refers(q, n) => Held(n)
    BY <1>3, LoadedHolds
  <1>6. q \in Config!Record
    BY <1>4, Loaded
  <1> HIDE DEF q
  <1>8. r \in Config!Record /\ r.skill = q.skill /\ r.plugin = to /\ r.ref = q.ref /\ r.token = q.token
    BY <1>6, RecordPlugin
  <1>9. a \in Ask /\ a.skill = asked.skill /\ a.plugin = to
    BY <1>4, AskPlugin
  <1> HIDE DEF r, a
  <1>10. ~Stale => Matches(r, a) \/ \E w \in Clients \ {c} : Writing(w)
    BY <1>5, <1>8, <1>9 DEF Matches
  <1>11. ~Frayed => \A n \in Config!Names : Refers(r, n) => Held(n)
    BY <1>5, <1>8 DEF Refers
  <1> DEFINE t == Config!Saving(r, a, Config!No, version)
  <1>12. /\ t \in SaveRecord /\ t.cfg = r /\ t.ask = a /\ t.secret = Config!No /\ t.base = version
         /\ t.vaultBase = 0 /\ t.stage = IF t.secret.do = "none" THEN "ready" ELSE "vault"
    BY <1>4, <1>8, <1>9, NoSecret, SavingRecord
  <1>13. req' = [req EXCEPT ![c] = t]
    BY <1>3
  <1> HIDE DEF t
  <1>14. t.secret.do = "none" /\ t.base <= version
    BY <1>4, <1>12, NoSecret
  <1>15. /\ ~Stale => Matches(t.cfg, t.ask) \/ \E w \in Clients \ {c} : Writing(w)
         /\ ~Frayed => \A m \in Config!Names : Refers(t.cfg, m) => Held(m)
    BY <1>10, <1>11, <1>12
  <1> QED
    BY <1>3, <1>12, <1>13, <1>14, <1>15, SavesThat

\* The end of a proof about a request that saves r.
LEMMA SavesLoaded ==
  ASSUME ConfigInv, NEW c \in Clients, NEW r \in Config!Record, NEW s \in Secrets,
         Config!Goes(c, Config!Saving(r, asked, s, version)),
         LET q == Config!ApplyEnv(Config!LoadSettings)
         IN  /\ r.skill = q.skill /\ r.plugin = q.plugin /\ r.ref = q.ref
             /\ r.token => q.token \/ (s.do = "set" /\ s.name = "skill"),
         s.do = "remove" => s.name = "skill" /\ ~r.token
  PROVE  ConfigInv'
  <1> DEFINE q == Config!ApplyEnv(Config!LoadSettings)
             t == Config!Saving(r, asked, s, version)
  <1>1. /\ ~Saves(c) /\ req' = [req EXCEPT ![c] = t]
        /\ UNCHANGED <<settings, vault, env, version, vaultVersion, asked, crossed, lost, dangling>>
    BY Gone
  <1>2. version \in Nat /\ asked \in Ask
    BY DEF ConfigInv, ConfigTyping
  <1>3. /\ ~Stale => Matches(q, asked) \/ \E w \in Clients \ {c} : Writing(w)
        /\ ~Frayed => \A n \in Config!Names : Refers(q, n) => Held(n)
    BY <1>1, LoadedHolds
  <1>4. /\ r.skill = q.skill /\ r.plugin = q.plugin /\ r.ref = q.ref
        /\ r.token => q.token \/ (s.do = "set" /\ s.name = "skill")
    OBVIOUS
  <1> HIDE DEF q
  <1>5. /\ t \in SaveRecord /\ t.cfg = r /\ t.ask = asked /\ t.secret = s /\ t.base = version
        /\ t.vaultBase = 0 /\ t.stage = IF t.secret.do = "none" THEN "ready" ELSE "vault"
    BY <1>2, SavingRecord
  <1> HIDE DEF t
  <1>6. t.base <= version
    BY <1>2, <1>5
  <1>7. t.secret.do = "remove" => ~Refers(t.cfg, t.secret.name)
    BY <1>5 DEF Refers
  <1>8. ~Stale /\ t.base = version => Matches(t.cfg, t.ask) \/ \E w \in Clients \ {c} : Writing(w)
    BY <1>3, <1>4, <1>5 DEF Matches
  <1>9. ~Frayed /\ t.base = version => \A m \in Config!Names :
            Refers(t.cfg, m) => Held(m) \/ (t.secret.do = "set" /\ t.secret.name = m)
    BY <1>3, <1>4, <1>5 DEF Refers, Config!Names
  <1> QED
    BY <1>1, <1>5, <1>6, <1>7, <1>8, <1>9, SavesThat

\* A token is referred to by who is to set it in the vault.
LEMMA SetsToken ==
  ASSUME ConfigInv, NEW c \in Clients, Config!SetToken(c)
  PROVE  ConfigInv'
  <1> DEFINE q == Config!ApplyEnv(Config!LoadSettings)
             p == [q EXCEPT !.entry = TRUE]
             r == [p EXCEPT !.token = q.vaulted]
             s == IF q.vaulted THEN Config!Set("skill") ELSE Config!No
  <1>1. r = [q EXCEPT !.entry = TRUE, !.token = q.vaulted]
    OBVIOUS
  <1>2. Config!Goes(c, Config!Saving(r, asked, s, version))
    BY <1>1 DEF Config!SetToken
  <1>3. q \in Config!Record
    BY Loaded DEF ConfigInv
  <1>4. /\ s \in Secrets
        /\ s.do = "remove" => FALSE
        /\ q.vaulted => s.do = "set" /\ s.name = "skill"
    BY NoSecret, ASecret DEF Config!Names
  <1> HIDE DEF s
  <1>5. p \in Config!Record /\ p.skill = q.skill /\ p.plugin = q.plugin /\ p.ref = q.ref /\ q.vaulted \in BOOLEAN
    <2> HIDE DEF q
    <2>1. q.vaulted \in BOOLEAN
      BY <1>3 DEF Config!Record
    <2> QED
      BY <1>3, <2>1, RecordEntry
  <1>6. r \in Config!Record /\ r.skill = q.skill /\ r.plugin = q.plugin /\ r.ref = q.ref /\ r.token = q.vaulted
    <2> HIDE DEF p, q
    <2> QED
      BY <1>5, RecordToken
  <1> HIDE DEF r, p
  <1>7. /\ r.skill = q.skill /\ r.plugin = q.plugin /\ r.ref = q.ref
        /\ r.token => q.token \/ (s.do = "set" /\ s.name = "skill")
    BY <1>4, <1>6
  <1>8. s.do = "remove" => s.name = "skill" /\ ~r.token
    BY <1>4
  <1> QED
    BY <1>2, <1>4, <1>6, <1>7, <1>8, SavesLoaded

\* A token is referred to no more by who is to remove it from the vault.
LEMMA ClearsToken ==
  ASSUME ConfigInv, NEW c \in Clients, Config!ClearToken(c)
  PROVE  ConfigInv'
  <1> DEFINE q == Config!ApplyEnv(Config!LoadSettings)
             p == [q EXCEPT !.entry = TRUE]
             r == [p EXCEPT !.token = FALSE]
             s == IF q.vaulted /\ q.token THEN Config!Remove("skill") ELSE Config!No
  <1>1. r = [q EXCEPT !.entry = TRUE, !.token = FALSE]
    OBVIOUS
  <1>2. Config!Goes(c, Config!Saving(r, asked, s, version))
    BY <1>1 DEF Config!ClearToken
  <1>3. q \in Config!Record
    BY Loaded DEF ConfigInv
  <1>4. s \in Secrets /\ (s.do = "remove" => s.name = "skill")
    BY NoSecret, ASecret DEF Config!Names
  <1> HIDE DEF s
  <1>5. p \in Config!Record /\ p.skill = q.skill /\ p.plugin = q.plugin /\ p.ref = q.ref
    <2> HIDE DEF q
    <2> QED
      BY <1>3, RecordEntry
  <1>6. r \in Config!Record /\ r.skill = q.skill /\ r.plugin = q.plugin /\ r.ref = q.ref /\ r.token = FALSE
    <2> HIDE DEF p, q
    <2> QED
      BY <1>5, RecordToken
  <1> HIDE DEF r, p
  <1>7. /\ r.skill = q.skill /\ r.plugin = q.plugin /\ r.ref = q.ref
        /\ r.token => q.token \/ (s.do = "set" /\ s.name = "skill")
    BY <1>6
  <1>8. s.do = "remove" => s.name = "skill" /\ ~r.token
    BY <1>4, <1>6
  <1> QED
    BY <1>2, <1>4, <1>6, <1>7, <1>8, SavesLoaded

\* A page shows what the file holds.
LEMMA Fetches ==
  ASSUME ConfigInv, NEW c \in Clients, NEW pg \in {"app", "agent"}, Config!Fetch(c, pg)
  PROVE  ConfigInv'
  <1> DEFINE q == Config!ApplyEnv(Config!LoadSettings)
             fromVault == pg = "agent" /\ q.vaulted /\ ~q.key /\ q.ref
             p == [q EXCEPT !.key = "agent" \in vault]
             f == IF fromVault THEN p ELSE q
             r == [stage |-> "editing", page |-> pg, base |-> version, form |-> f]
  <1>1. Config!Goes(c, r)
    BY DEF Config!Fetch
  <1>2. /\ ~Saves(c) /\ req' = [req EXCEPT ![c] = r]
        /\ UNCHANGED <<settings, vault, env, version, vaultVersion, asked, crossed, lost, dangling>>
    BY <1>1, Gone
  <1>3. q \in Config!Record /\ version \in Nat
    BY Loaded DEF ConfigInv, ConfigTyping
  <1>4. /\ ~Stale => Matches(q, asked) \/ \E w \in Clients \ {c} : Writing(w)
        /\ ~Frayed => \A n \in Config!Names : Refers(q, n) => Held(n)
    BY <1>2, LoadedHolds
  <1> HIDE DEF q
  <1>5. p \in Config!Record /\ p.skill = q.skill /\ p.plugin = q.plugin /\ p.ref = q.ref /\ p.token = q.token
    <2>1. ("agent" \in vault) \in BOOLEAN
      OBVIOUS
    <2> QED
      BY <1>3, <2>1, RecordKey
  <1> HIDE DEF p, fromVault
  <1>6. f \in Config!Record /\ f.skill = q.skill /\ f.plugin = q.plugin /\ f.ref = q.ref /\ f.token = q.token
    BY <1>3, <1>5
  <1> HIDE DEF f
  <1>7. /\ r \in FormRecord /\ r.stage = "editing" /\ r.base = version /\ r.form = f
    BY <1>3, <1>6 DEF FormRecord
  <1> HIDE DEF r
  <1>8. req'[c] = r
    BY <1>2 DEF ConfigInv, ConfigTyping
  <1>9. Copy(c)' = f /\ AskOf(c)' = asked /\ Unreferred(c)' /\ r.base <= version
    BY <1>2, <1>3, <1>7, <1>8 DEF Copy, AskOf, Edits, Unreferred, Saves, SaveStages
  <1>10. /\ ~Stale => Matches(f, asked) \/ \E w \in Clients \ {c} : Writing(w)
         /\ ~Frayed => \A n \in Config!Names : Refers(f, n) => Held(n)
    BY <1>4, <1>6 DEF Matches, Refers
  <1>11. /\ ~Stale /\ r.base = version => Matches(Copy(c)', AskOf(c)') \/ \E w \in Clients \ {c} : Writing(w)
         /\ ~Frayed /\ r.base = version => \A n \in Config!Names : Refers(Copy(c)', n) => Held(n) \/ Sets(c, n)'
    BY <1>9, <1>10
  <1>12. r \in SaveRecord \cup FormRecord /\ r.stage \in {"ready", "vault", "editing"}
    BY <1>7
  <1> QED
    BY <1>2, <1>7, <1>9, <1>11, <1>12, Takes

\* A page that was filled from the file.
LEMMA Filled ==
  ASSUME ConfigInv, NEW c \in Clients, Edits(c)
  PROVE  /\ ~Saves(c) /\ req[c] \in FormRecord /\ req[c].form \in Config!Record
         /\ req[c].base \in Nat /\ req[c].base <= version
         /\ ~Stale /\ req[c].base = version => Matches(req[c].form, asked) \/ \E w \in Clients \ {c} : Writing(w)
         /\ ~Frayed /\ req[c].base = version => \A n \in Config!Names : Refers(req[c].form, n) => Held(n)
  <1>1. ~Saves(c) /\ \A n \in Config!Names : ~Sets(c, n)
    BY DEF Edits, Saves, SaveStages, Sets
  <1>2. req[c] \in FormRecord
    BY <1>1 DEF ConfigInv, ConfigTyping, Edits, Saves, Config!Idle, SaveRecord, SaveStages
  <1>3. req[c].form \in Config!Record /\ req[c].base \in Nat
    BY <1>2 DEF FormRecord
  <1>4. req[c].base <= version /\ Copy(c) = req[c].form /\ AskOf(c) = asked
    BY DEF ConfigInv, ConfigTyping, Copy, AskOf
  <1>5. ~Stale /\ req[c].base = version => Matches(req[c].form, asked) \/ \E w \in Clients \ {c} : Writing(w)
    BY <1>4 DEF ConfigInv, Acknowledged, CopyHolds
  <1>6. ~Frayed /\ req[c].base = version => \A n \in Config!Names : Refers(req[c].form, n) => Held(n)
    BY <1>1, <1>4 DEF ConfigInv, Resolved, CopyResolves
  <1> QED
    BY <1>1, <1>2, <1>3, <1>4, <1>5, <1>6

\* A page that is posted whole is the file it was filled from.
LEMMA PostsConfig ==
  ASSUME ConfigInv, NEW c \in Clients, Config!PostConfig(c)
  PROVE  ConfigInv'
  <1> DEFINE q == req[c].form
             t == Config!Saving(q, asked, Config!No, req[c].base)
  <1>1. /\ Edits(c) /\ req' = [req EXCEPT ![c] = t]
        /\ UNCHANGED <<settings, vault, env, version, vaultVersion, asked, crossed, lost, dangling>>
    BY DEF Config!PostConfig, Edits
  <1>2. /\ ~Saves(c) /\ q \in Config!Record /\ req[c].base \in Nat /\ req[c].base <= version
        /\ ~Stale /\ req[c].base = version => Matches(q, asked) \/ \E w \in Clients \ {c} : Writing(w)
        /\ ~Frayed /\ req[c].base = version => \A n \in Config!Names : Refers(q, n) => Held(n)
    BY <1>1, Filled
  <1>3. asked \in Ask
    BY DEF ConfigInv, ConfigTyping
  <1>4. /\ t \in SaveRecord /\ t.cfg = q /\ t.ask = asked /\ t.secret = Config!No /\ t.base = req[c].base
        /\ t.vaultBase = 0 /\ t.stage = IF t.secret.do = "none" THEN "ready" ELSE "vault"
    BY <1>2, <1>3, NoSecret, SavingRecord
  <1> HIDE DEF t, q
  <1>5. t.secret.do = "none" /\ t.base <= version
    BY <1>2, <1>4, NoSecret
  <1>6. /\ ~Stale /\ t.base = version => Matches(t.cfg, t.ask) \/ \E w \in Clients \ {c} : Writing(w)
        /\ ~Frayed /\ t.base = version => \A m \in Config!Names : Refers(t.cfg, m) => Held(m)
    BY <1>2, <1>4
  <1> QED
    BY <1>1, <1>2, <1>4, <1>5, <1>6, SavesThat

\* A page of the agent leaves what others asked for and refers to a key
\* that is in the vault or goes there.
LEMMA PostsAgent ==
  ASSUME ConfigInv, NEW c \in Clients, NEW key \in BOOLEAN, NEW keep \in BOOLEAN, NEW vaulted \in BOOLEAN,
         NEW bare \in BOOLEAN, Config!PostAgent(c, key, keep, vaulted, bare)
  PROVE  ConfigInv'
  <1> DEFINE f0 == req[c].form
             f1 == [f0 EXCEPT !.key = key]
             f2 == [f1 EXCEPT !.ref = keep /\ @]
             f3 == [f2 EXCEPT !.entry = ~bare /\ @]
             f4 == [f3 EXCEPT !.skill = IF bare THEN "unset" ELSE @]
             form == [f4 EXCEPT !.token = ~bare /\ @]
             cfg == Config!ApplyEnv(Config!LoadSettings)
             over == Config!Overrides(form, cfg)
             k == Config!KeyOf(form, vaulted)
             r == [entry |-> over.entry, skill |-> over.skill, token |-> over.token, plugin |-> cfg.plugin,
                   key |-> k.key, ref |-> k.ref, vaulted |-> vaulted]
             t == Config!Saving(r, asked, k.secret, req[c].base)
  <1>1. form = [req[c].form EXCEPT !.key = key, !.ref = keep /\ @, !.entry = ~bare /\ @,
                                   !.skill = IF bare THEN "unset" ELSE @, !.token = ~bare /\ @]
    OBVIOUS
  <1>2. /\ Edits(c) /\ req' = [req EXCEPT ![c] = t]
        /\ UNCHANGED <<settings, vault, env, version, vaultVersion, asked, crossed, lost, dangling>>
    BY <1>1 DEF Config!PostAgent, Edits
  <1>3. /\ ~Saves(c) /\ f0 \in Config!Record /\ req[c].base \in Nat /\ req[c].base <= version
        /\ ~Stale /\ req[c].base = version => Matches(f0, asked) \/ \E w \in Clients \ {c} : Writing(w)
        /\ ~Frayed /\ req[c].base = version => \A n \in Config!Names : Refers(f0, n) => Held(n)
    BY <1>2, Filled
  <1>4. asked \in Ask /\ cfg \in Config!Record
    BY Loaded DEF ConfigInv, ConfigTyping
  <1>5. /\ ~Stale => Matches(cfg, asked) \/ \E w \in Clients \ {c} : Writing(w)
        /\ ~Frayed => \A n \in Config!Names : Refers(cfg, n) => Held(n)
    BY <1>3, LoadedHolds
  <1> HIDE DEF cfg
  <1>6. /\ form \in Config!Record
        /\ form.ref => f0.ref
        /\ form.entry => form.skill = f0.skill /\ form.token = f0.token
    <2>0. /\ f0.ref \in BOOLEAN /\ f0.entry \in BOOLEAN /\ f0.token \in BOOLEAN
          /\ f0.skill \in {"unset", "on", "off"}
      BY <1>3 DEF Config!Record
    <2> HIDE DEF f0
    <2>1. /\ f1 \in Config!Record /\ f1.ref = f0.ref /\ f1.entry = f0.entry
          /\ f1.skill = f0.skill /\ f1.token = f0.token
      BY <1>3, RecordKey
    <2> HIDE DEF f1
    <2>2. /\ f2 \in Config!Record /\ (f2.ref => f0.ref) /\ f2.entry = f0.entry
          /\ f2.skill = f0.skill /\ f2.token = f0.token
      <3>1. (keep /\ f1.ref) \in BOOLEAN
        OBVIOUS
      <3>2. f2 = [f1 EXCEPT !.ref = (keep /\ f1.ref)]
        OBVIOUS
      <3> QED
        BY <2>1, <3>1, <3>2, RecordRef
    <2> HIDE DEF f2
    <2>3. /\ f3 \in Config!Record /\ (f3.ref => f0.ref) /\ (f3.entry => ~bare)
          /\ f3.skill = f0.skill /\ f3.token = f0.token
      <3>1. (~bare /\ f2.entry) \in BOOLEAN
        OBVIOUS
      <3>2. f3 = [f2 EXCEPT !.entry = (~bare /\ f2.entry)]
        OBVIOUS
      <3> QED
        BY <2>2, <3>1, <3>2, RecordEntry
    <2> HIDE DEF f3
    <2>4. /\ f4 \in Config!Record /\ (f4.ref => f0.ref) /\ (f4.entry => ~bare)
          /\ (~bare => f4.skill = f0.skill) /\ f4.token = f0.token
      <3> DEFINE v == IF bare THEN "unset" ELSE f3.skill
      <3>1. v \in {"unset", "on", "off"} /\ (~bare => v = f0.skill)
        BY <2>0, <2>3
      <3>2. f4 = [f3 EXCEPT !.skill = v]
        BY DEF f4
      <3> HIDE DEF v, f4
      <3> QED
        BY <2>3, <3>1, <3>2, RecordSkill
    <2> HIDE DEF f4
    <2>5. /\ form \in Config!Record /\ (form.ref => f0.ref) /\ (form.entry => ~bare)
          /\ (~bare => form.skill = f0.skill) /\ form.token = (~bare /\ f0.token)
      <3>1. (~bare /\ f4.token) \in BOOLEAN
        OBVIOUS
      <3>2. form = [f4 EXCEPT !.token = (~bare /\ f4.token)]
        OBVIOUS
      <3> QED
        BY <2>4, <3>1, <3>2, RecordToken
    <2> QED
      BY <2>0, <2>5
  <1> HIDE DEF form, f0
  <1>7. /\ over.entry \in BOOLEAN /\ over.skill \in {"unset", "on", "off"} /\ over.token \in BOOLEAN
        /\ over.skill = f0.skill \/ over.skill = cfg.skill
        /\ over.token = f0.token \/ over.token = cfg.token
    BY <1>4, <1>6 DEF Config!Overrides, Config!Record
  <1>8. /\ k.key \in BOOLEAN /\ k.ref \in BOOLEAN /\ k.secret \in Secrets
        /\ k.ref => f0.ref \/ (k.secret.do = "set" /\ k.secret.name = "agent")
        /\ k.secret.do = "remove" => k.secret.name = "agent" /\ ~k.ref
    <2>1. form.key \in BOOLEAN /\ form.ref \in BOOLEAN /\ "agent" \in Config!Names
      BY <1>6 DEF Config!Record, Config!Names
    <2>2. \/ k = [key |-> form.key, ref |-> FALSE, secret |-> Config!No]
          \/ k = [key |-> FALSE, ref |-> TRUE, secret |-> Config!Set("agent")]
          \/ k = [key |-> FALSE, ref |-> TRUE, secret |-> Config!No] /\ form.ref
          \/ k = [key |-> FALSE, ref |-> FALSE, secret |-> Config!Remove("agent")]
      BY <2>1 DEF Config!KeyOf
    <2> HIDE DEF k
    <2>4. CASE k = [key |-> form.key, ref |-> FALSE, secret |-> Config!No]
      BY <2>1, <2>4, NoSecret
    <2>5. CASE k = [key |-> FALSE, ref |-> TRUE, secret |-> Config!Set("agent")]
      BY <2>1, <2>5, ASecret
    <2>6. CASE k = [key |-> FALSE, ref |-> TRUE, secret |-> Config!No] /\ form.ref
      BY <1>6, <2>6, NoSecret
    <2>7. CASE k = [key |-> FALSE, ref |-> FALSE, secret |-> Config!Remove("agent")]
      BY <2>1, <2>7, ASecret
    <2> QED
      BY <2>2, <2>4, <2>5, <2>6, <2>7
  <1> HIDE DEF over, k
  <1>9. /\ r \in Config!Record /\ r.skill = over.skill /\ r.token = over.token /\ r.plugin = cfg.plugin /\ r.ref = k.ref
    <2>1. cfg.plugin \in BOOLEAN
      BY <1>4 DEF Config!Record
    <2> QED
      BY <1>7, <1>8, <2>1 DEF Config!Record
  <1> HIDE DEF r
  <1>10. /\ t \in SaveRecord /\ t.cfg = r /\ t.ask = asked /\ t.secret = k.secret /\ t.base = req[c].base
         /\ t.vaultBase = 0 /\ t.stage = IF t.secret.do = "none" THEN "ready" ELSE "vault"
    BY <1>3, <1>4, <1>8, <1>9, SavingRecord
  <1> HIDE DEF t
  <1>11. t.base <= version /\ (t.secret.do = "remove" => ~Refers(t.cfg, t.secret.name))
    BY <1>3, <1>8, <1>9, <1>10 DEF Refers
  <1>12. ~Stale /\ t.base = version => Matches(t.cfg, t.ask) \/ \E w \in Clients \ {c} : Writing(w)
    BY <1>3, <1>5, <1>7, <1>9, <1>10 DEF Matches
  <1>13. ~Frayed /\ t.base = version => \A m \in Config!Names :
             Refers(t.cfg, m) => Held(m) \/ (t.secret.do = "set" /\ t.secret.name = m)
    BY <1>3, <1>5, <1>7, <1>8, <1>9, <1>10 DEF Refers, Config!Names
  <1> QED
    BY <1>2, <1>3, <1>10, <1>11, <1>12, <1>13, SavesThat

-----------------------------------------------------------------------------
\* A request that saves goes to its next stage,
LEMMA SaveStage ==
  ASSUME NEW q \in SaveRecord, NEW st \in SaveStages
  PROVE  LET p == [q EXCEPT !.stage = st]
         IN  /\ p \in SaveRecord /\ p.stage = st /\ p.cfg = q.cfg /\ p.ask = q.ask /\ p.secret = q.secret
             /\ p.base = q.base /\ p.secrets = q.secrets /\ p.vaultBase = q.vaultBase
  BY DEF SaveRecord

\* gets the secrets of the vault,
LEMMA SaveSecrets ==
  ASSUME NEW q \in SaveRecord, NEW S \in SUBSET Config!Names
  PROVE  LET p == [q EXCEPT !.secrets = S]
         IN  /\ p \in SaveRecord /\ p.stage = q.stage /\ p.cfg = q.cfg /\ p.ask = q.ask /\ p.secret = q.secret
             /\ p.base = q.base /\ p.secrets = S /\ p.vaultBase = q.vaultBase
  BY DEF SaveRecord

\* and the version of the vault it got them from.
LEMMA SaveVaultBase ==
  ASSUME NEW q \in SaveRecord, NEW n \in Nat
  PROVE  LET p == [q EXCEPT !.vaultBase = n]
         IN  /\ p \in SaveRecord /\ p.stage = q.stage /\ p.cfg = q.cfg /\ p.ask = q.ask /\ p.secret = q.secret
             /\ p.base = q.base /\ p.secrets = q.secrets /\ p.vaultBase = n
  BY DEF SaveRecord

\* What a request has in hand stays what it is, or goes.
Follows(c) == (Saves(c) \/ Edits(c))' =>
    /\ Saves(c) \/ Edits(c)
    /\ Copy(c)' = Copy(c) /\ AskOf(c)' = AskOf(c) /\ req'[c].base = req[c].base
    /\ Saves(c)' <=> Saves(c)
    /\ Saves(c)' => req'[c].secret = req[c].secret /\ req'[c].cfg = req[c].cfg

(* A request that saves, and what a step of it leaves alone.                *)
LEMMA Saver ==
  ASSUME ConfigInv, NEW c \in Clients, Saves(c)
  PROVE  /\ req[c] \in SaveRecord /\ ~Edits(c) /\ req[c].base <= version /\ req[c].vaultBase <= vaultVersion
         /\ req[c].cfg \in Config!Record /\ req[c].ask \in Ask /\ req[c].secret \in Secrets
         /\ req[c].base \in Nat /\ req[c].vaultBase \in Nat /\ req[c].secrets \in SUBSET Config!Names
  <1>1. ~Edits(c)
    BY DEF Saves, SaveStages, Edits
  <1>2. req[c] \in SaveRecord
    BY <1>1 DEF ConfigInv, ConfigTyping, Edits, Saves, SaveStages, Config!Idle, FormRecord
  <1> QED
    BY <1>1, <1>2 DEF ConfigInv, ConfigTyping, SaveRecord

\* It has the settings it had in the stage it goes to.
LEMMA GoesOn ==
  ASSUME ConfigInv, NEW c \in Clients, Saves(c), NEW r \in SaveRecord, req' = [req EXCEPT ![c] = r],
         r.cfg = req[c].cfg, r.ask = req[c].ask, r.secret = req[c].secret, r.base = req[c].base,
         asked' = asked
  PROVE  /\ req' \in [Clients -> {Config!Idle} \cup SaveRecord \cup FormRecord] /\ req'[c] = r
         /\ \A d \in Clients : d # c => req'[d] = req[d]
         /\ \A d \in Clients : Follows(d)
  <1>1. /\ req' \in [Clients -> {Config!Idle} \cup SaveRecord \cup FormRecord] /\ req'[c] = r
        /\ \A d \in Clients : d # c => req'[d] = req[d]
    BY DEF ConfigInv, ConfigTyping
  <1>2. r.stage \in SaveStages /\ ~Edits(c)' /\ ~Edits(c)
    BY <1>1, Saver DEF SaveRecord, SaveStages, Edits
  <1> QED
    BY <1>1, <1>2 DEF Follows, Saves, Edits, Copy, AskOf

\* A request that ends has nothing in hand.
LEMMA GoesIdle ==
  ASSUME ConfigInv, NEW c \in Clients, req' = [req EXCEPT ![c] = Config!Idle], asked' = asked
  PROVE  /\ req' \in [Clients -> {Config!Idle} \cup SaveRecord \cup FormRecord] /\ req'[c].stage = "idle"
         /\ \A d \in Clients : d # c => req'[d] = req[d]
         /\ \A d \in Clients : Follows(d)
  <1>1. /\ req' \in [Clients -> {Config!Idle} \cup SaveRecord \cup FormRecord] /\ req'[c].stage = "idle"
        /\ \A d \in Clients : d # c => req'[d] = req[d]
    BY DEF ConfigInv, ConfigTyping, Config!Idle
  <1>2. ~Saves(c)' /\ ~Edits(c)'
    BY <1>1 DEF Saves, SaveStages, Edits
  <1> QED
    BY <1>1, <1>2 DEF Follows, Saves, Edits, Copy, AskOf

\* A step that neither begins nor ends a write of the settings keeps what was
\* asked for in them.
LEMMA AcknowledgedKept ==
  ASSUME ConfigInv, \A d \in Clients : Follows(d) /\ (Writing(d)' <=> Writing(d)),
         UNCHANGED <<settings, version, asked>>, crossed => crossed', lost => lost'
  PROVE  Acknowledged'
  <1>1. \A d \in Clients : Writing(d) => req'[d].base = req[d].base
    BY DEF Follows, Writing, Saves, SaveStages
  <1>2. Stale => Stale'
    BY <1>1 DEF Stale, Writing
  <1>3. ASSUME ~Stale, NEW d \in Clients
        PROVE  CopyHolds(d)'
    <2>1. CopyHolds(d)
      BY <1>3 DEF ConfigInv, Acknowledged
    <2> QED
      BY <2>1 DEF CopyHolds, Follows, Saves, Edits, Matches
  <1> QED
    BY <1>2, <1>3 DEF ConfigInv, Acknowledged

\* A step that loses no secret but one that is being removed keeps the
\* references resolved.
LEMMA ResolvedKept ==
  ASSUME ConfigInv, \A d \in Clients : Follows(d), version' = version,
         settings' = settings \/ settings' = Torn,
         ~Frayed' => /\ ~Frayed
                     /\ \A n \in Config!Names : Held(n) => Held(n)'
                     /\ \A d \in Clients, n \in Config!Names : Saves(d)' /\ Sets(d, n) => Sets(d, n)' \/ Held(n)'
                     /\ vault' = Torn => \E d \in Clients : req'[d].stage = "vaultWrite"
  PROVE  Resolved'
  <1> SUFFICES ASSUME ~Frayed'
               PROVE  /\ vault' = Torn => \E d \in Clients : req'[d].stage = "vaultWrite"
                      /\ settings' # Torn => \A n \in Config!Names : Refers(settings', n) => Held(n)'
                      /\ \A d \in Clients : CopyResolves(d)'
    BY DEF Resolved
  <1>1. settings' # Torn => \A n \in Config!Names : Refers(settings', n) => Held(n)'
    BY DEF ConfigInv, Resolved
  <1>2. ASSUME NEW d \in Clients
        PROVE  CopyResolves(d)'
    <2> SUFFICES ASSUME (Saves(d) \/ Edits(d))', req'[d].base = version', NEW n \in Config!Names, Refers(Copy(d)', n)
                 PROVE  Held(n)' \/ Sets(d, n)'
      BY DEF CopyResolves
    <2>1. (Saves(d) \/ Edits(d)) /\ Copy(d)' = Copy(d) /\ req[d].base = version /\ (Sets(d, n) => Saves(d)')
      BY DEF Follows, Sets, Saves, SaveStages
    <2>2. Held(n) \/ Sets(d, n)
      BY <2>1 DEF ConfigInv, Resolved, CopyResolves
    <2> QED
      BY <2>1, <2>2
  <1> QED
    BY <1>1, <1>2

\* Who removes a secret goes on not referring to it.
LEMMA UnreferredKept ==
  ASSUME ConfigInv, \A d \in Clients : Follows(d)
  PROVE  \A d \in Clients : Unreferred(d)'
  BY DEF ConfigInv, Follows, Unreferred

-----------------------------------------------------------------------------
\* A request reads the secrets of the vault, or fails for a torn one; one that
\* removes goes on.
LEMMA OpensVault ==
  ASSUME ConfigInv, NEW c \in Clients, Config!OpenVault(c)
  PROVE  ConfigInv'
  <1> DEFINE q1 == [req[c] EXCEPT !.stage = "open"]
             q2 == [q1 EXCEPT !.secrets = vault]
             r == [q2 EXCEPT !.vaultBase = vaultVersion]
             z == [req[c] EXCEPT !.stage = "ready"]
  <1>1. /\ req[c].stage = "vault" /\ Saves(c)
        /\ UNCHANGED <<settings, vault, env, version, vaultVersion, asked, crossed, lost, dangling>>
    BY DEF Config!OpenVault, Saves, SaveStages
  <1>2. /\ req[c] \in SaveRecord /\ req[c].secret \in Secrets /\ req[c].secret.do # "none"
        /\ req[c].base <= version /\ req[c].vaultBase <= vaultVersion
    BY <1>1, Saver DEF ConfigInv, ConfigTyping
  <1>3. vaultVersion \in Nat /\ vault \in (SUBSET Config!Names) \cup {Torn}
    BY DEF ConfigInv, ConfigTyping
  <1>4. \A d \in Clients : d # c /\ req'[d] = req[d] =>
            /\ (Config!Removing(d)' <=> Config!Removing(d)) /\ (Writing(d)' <=> Writing(d))
    BY DEF Config!Removing, Writing
  <1>5. CASE vault # Torn
    <2>1. req' = [req EXCEPT ![c] = r]
      <3>1. r = [req[c] EXCEPT !.stage = "open", !.secrets = vault, !.vaultBase = vaultVersion]
        OBVIOUS
      <3> QED
        BY <1>5, <3>1 DEF Config!OpenVault
    <2>2. /\ r \in SaveRecord /\ r.stage = "open" /\ r.secrets = vault /\ r.vaultBase = vaultVersion
          /\ r.cfg = req[c].cfg /\ r.ask = req[c].ask /\ r.secret = req[c].secret /\ r.base = req[c].base
      <3>1. /\ q1 \in SaveRecord /\ q1.stage = "open" /\ q1.cfg = req[c].cfg /\ q1.ask = req[c].ask
            /\ q1.secret = req[c].secret /\ q1.base = req[c].base
        BY <1>2, SaveStage DEF SaveStages
      <3> HIDE DEF q1
      <3>2. /\ q2 \in SaveRecord /\ q2.stage = "open" /\ q2.cfg = req[c].cfg /\ q2.ask = req[c].ask
            /\ q2.secret = req[c].secret /\ q2.base = req[c].base /\ q2.secrets = vault
        BY <1>3, <1>5, <3>1, SaveSecrets
      <3> HIDE DEF q2
      <3> QED
        BY <1>3, <3>2, SaveVaultBase
    <2> HIDE DEF r, q1, q2
    <2>3. /\ req' \in [Clients -> {Config!Idle} \cup SaveRecord \cup FormRecord] /\ req'[c] = r
          /\ \A d \in Clients : d # c => req'[d] = req[d]
          /\ \A d \in Clients : Follows(d)
      BY <1>1, <2>1, <2>2, GoesOn
    <2>4. ConfigTyping'
      BY <1>1, <1>2, <1>3, <2>2, <2>3 DEF ConfigInv, ConfigTyping, Saves, Edits, SaveStages
    <2>5. \A d \in Clients : Writing(d)' <=> Writing(d)
      BY <1>1, <2>2, <2>3 DEF Writing
    <2>6. \A d \in Clients : Config!Removing(d)' <=> Config!Removing(d)
      BY <1>1, <2>2, <2>3 DEF Config!Removing
    <2>7. Frayed => Frayed'
      BY <1>1, <2>2, <2>3, <2>6 DEF Frayed, Config!Removing
    <2>8. \A n \in Config!Names : Held(n) => Held(n)'
      BY <1>1, <1>5, <2>2, <2>3, <2>6 DEF Held, InEveryCopy, Removed, Config!Removing
    <2>9. \A d \in Clients, n \in Config!Names : Sets(d, n) => Sets(d, n)'
      BY <1>1, <2>2, <2>3 DEF Sets
    <2>10. Acknowledged'
      BY <1>1, <2>3, <2>5, AcknowledgedKept
    <2>11. Resolved'
      BY <1>1, <1>5, <2>3, <2>7, <2>8, <2>9, ResolvedKept
    <2> QED
      BY <2>3, <2>4, <2>10, <2>11, UnreferredKept DEF ConfigInv
  <1>6. CASE vault = Torn /\ req[c].secret.do = "set"
    <2>1. req' = [req EXCEPT ![c] = Config!Idle]
      BY <1>6 DEF Config!OpenVault
    <2>2. /\ req' \in [Clients -> {Config!Idle} \cup SaveRecord \cup FormRecord] /\ req'[c].stage = "idle"
          /\ \A d \in Clients : d # c => req'[d] = req[d]
          /\ \A d \in Clients : Follows(d)
      BY <1>1, <2>1, GoesIdle
    <2>4. ConfigTyping'
      BY <1>1, <2>2 DEF ConfigInv, ConfigTyping, Saves, Edits, SaveStages
    <2>5. \A d \in Clients : Writing(d)' <=> Writing(d)
      BY <1>1, <2>2 DEF Writing
    <2>6. \A d \in Clients : Config!Removing(d)' <=> Config!Removing(d)
      BY <1>1, <2>2 DEF Config!Removing
    <2>7. Frayed => Frayed'
      BY <1>1, <2>2, <2>6 DEF Frayed, Config!Removing
    <2>8. \A n \in Config!Names : Held(n) => Held(n)'
      BY <1>1, <2>2, <2>6 DEF Held, InEveryCopy, Removed, Config!Removing
    <2>9. \A d \in Clients, n \in Config!Names : Saves(d)' /\ Sets(d, n) => Sets(d, n)'
      BY <1>1, <2>2 DEF Sets, Saves, SaveStages
    <2>10. Acknowledged'
      BY <1>1, <2>2, <2>5, AcknowledgedKept
    <2>12. ~Frayed' => \E d \in Clients : req'[d].stage = "vaultWrite"
      BY <1>1, <1>6, <2>2, <2>7 DEF ConfigInv, Resolved
    <2>11. Resolved'
      BY <1>1, <2>2, <2>7, <2>8, <2>9, <2>12, ResolvedKept
    <2> QED
      BY <2>2, <2>4, <2>10, <2>11, UnreferredKept DEF ConfigInv
  <1>7. CASE vault = Torn /\ req[c].secret.do # "set"
    <2>1. req' = [req EXCEPT ![c] = z]
      BY <1>7 DEF Config!OpenVault
    <2>2. /\ z \in SaveRecord /\ z.stage = "ready" /\ z.vaultBase = req[c].vaultBase
          /\ z.cfg = req[c].cfg /\ z.ask = req[c].ask /\ z.secret = req[c].secret /\ z.base = req[c].base
      BY <1>2, SaveStage DEF SaveStages
    <2> HIDE DEF z
    <2>3. /\ req' \in [Clients -> {Config!Idle} \cup SaveRecord \cup FormRecord] /\ req'[c] = z
          /\ \A d \in Clients : d # c => req'[d] = req[d]
          /\ \A d \in Clients : Follows(d)
      BY <1>1, <2>1, <2>2, GoesOn
    <2>4. ConfigTyping'
      BY <1>1, <1>2, <1>3, <2>2, <2>3 DEF ConfigInv, ConfigTyping, Saves, Edits, SaveStages
    <2>5. \A d \in Clients : Writing(d)' <=> Writing(d)
      BY <1>1, <2>2, <2>3 DEF Writing
    <2>6. \A d \in Clients : Config!Removing(d) => Config!Removing(d)' /\ d # c
      BY <1>1, <2>2, <2>3 DEF Config!Removing
    <2>7. Frayed => Frayed'
      BY <1>1, <2>2, <2>3, <2>6 DEF Frayed
    <2>8. \A n \in Config!Names : Held(n) => Held(n)'
      BY <1>1, <2>2, <2>3, <2>6 DEF Held, InEveryCopy, Removed
    <2>9. \A d \in Clients, n \in Config!Names : Sets(d, n) => Sets(d, n)'
      BY <1>1, <1>7, <2>2, <2>3 DEF Sets
    <2>10. Acknowledged'
      BY <1>1, <2>3, <2>5, AcknowledgedKept
    <2>12. ~Frayed' => \E d \in Clients : req'[d].stage = "vaultWrite"
      BY <1>1, <1>7, <2>3, <2>7 DEF ConfigInv, Resolved
    <2>11. Resolved'
      BY <1>1, <2>3, <2>7, <2>8, <2>9, <2>12, ResolvedKept
    <2> QED
      BY <2>3, <2>4, <2>10, <2>11, UnreferredKept DEF ConfigInv
  <1> QED
    BY <1>5, <1>6, <1>7

\* The vault is torn while it is written.
LEMMA TruncatesVault ==
  ASSUME ConfigInv, NEW c \in Clients, Config!TruncateVault(c)
  PROVE  ConfigInv'
  <1> DEFINE r == [req[c] EXCEPT !.stage = "vaultWrite"]
  <1>1. /\ req[c].stage = "open" /\ Saves(c) /\ vault' = Torn /\ req' = [req EXCEPT ![c] = r]
        /\ UNCHANGED <<settings, env, version, vaultVersion, asked, crossed, lost, dangling>>
    BY DEF Config!TruncateVault, Saves, SaveStages
  <1>2. /\ req[c] \in SaveRecord /\ req[c].base <= version /\ req[c].vaultBase <= vaultVersion
    BY <1>1, Saver
  <1>3. /\ r \in SaveRecord /\ r.stage = "vaultWrite" /\ r.vaultBase = req[c].vaultBase /\ r.secrets = req[c].secrets
        /\ r.cfg = req[c].cfg /\ r.ask = req[c].ask /\ r.secret = req[c].secret /\ r.base = req[c].base
    BY <1>2, SaveStage DEF SaveStages
  <1> HIDE DEF r
  <1>4. /\ req' \in [Clients -> {Config!Idle} \cup SaveRecord \cup FormRecord] /\ req'[c] = r
        /\ \A d \in Clients : d # c => req'[d] = req[d]
        /\ \A d \in Clients : Follows(d)
    BY <1>1, <1>3, GoesOn
  <1>5. ConfigTyping'
    BY <1>1, <1>2, <1>3, <1>4 DEF ConfigInv, ConfigTyping, Saves, Edits, SaveStages
  <1>6. \A d \in Clients : Writing(d)' <=> Writing(d)
    BY <1>1, <1>3, <1>4 DEF Writing
  <1>7. \A d \in Clients : Config!Removing(d) => Config!Removing(d)' /\ d # c
    BY <1>1, <1>3, <1>4 DEF Config!Removing
  <1>8. Frayed => Frayed'
    BY <1>1, <1>3, <1>4, <1>7 DEF Frayed
  <1>9. \A n \in Config!Names : Held(n) => Held(n)'
    BY <1>1, <1>3, <1>4, <1>7 DEF Held, InEveryCopy, Removed
  <1>10. \A d \in Clients, n \in Config!Names : Sets(d, n) => Sets(d, n)'
    BY <1>1, <1>3, <1>4 DEF Sets
  <1>11. Acknowledged'
    BY <1>1, <1>4, <1>6, AcknowledgedKept
  <1>12. Resolved'
    BY <1>1, <1>3, <1>4, <1>8, <1>9, <1>10, ResolvedKept
  <1> QED
    BY <1>4, <1>5, <1>11, <1>12, UnreferredKept DEF ConfigInv

\* A vault that was read in its present version loses only the secret that is removed.
LEMMA WritesVault ==
  ASSUME Config!SettingsAssumption, ConfigInv, NEW c \in Clients, Config!WriteVault(c)
  PROVE  ConfigInv'
  <1> DEFINE q1 == [req[c] EXCEPT !.stage = "ready"]
             q2 == [q1 EXCEPT !.secrets = {}]
             r == [q2 EXCEPT !.vaultBase = 0]
             name == req[c].secret.name
  <1>1. /\ req[c].stage = "vaultWrite" /\ Saves(c) /\ req' = [req EXCEPT ![c] = r]
        /\ vault' = IF req[c].secret.do = "set" THEN req[c].secrets \cup {name} ELSE req[c].secrets \ {name}
        /\ vaultVersion' = vaultVersion + 1 /\ crossed' = (crossed \/ req[c].vaultBase # vaultVersion)
        /\ UNCHANGED <<settings, env, version, asked, lost, dangling>>
    BY DEF Config!WriteVault, Saves, SaveStages
  <1>2. /\ req[c] \in SaveRecord /\ req[c].base <= version /\ req[c].vaultBase <= vaultVersion
        /\ req[c].secret \in Secrets /\ req[c].secret.do # "none" /\ req[c].secrets \subseteq Config!Names
        /\ vaultVersion \in Nat
    <2>1. req[c].secret.do # "none" /\ vaultVersion \in Nat
      BY <1>1 DEF ConfigInv, ConfigTyping
    <2> QED
      BY <1>1, <2>1, Saver
  <1>3. name \in Config!Names /\ req[c].secret.do \in {"set", "remove"}
    BY <1>2 DEF Secrets, Config!No
  <1>4. vault' \in SUBSET Config!Names /\ vault' # Torn
    BY <1>1, <1>2, <1>3 DEF Config!SettingsAssumption
  <1>5. /\ r \in SaveRecord /\ r.stage = "ready" /\ r.vaultBase = 0
        /\ r.cfg = req[c].cfg /\ r.ask = req[c].ask /\ r.secret = req[c].secret /\ r.base = req[c].base
    <2>1. /\ q1 \in SaveRecord /\ q1.stage = "ready" /\ q1.cfg = req[c].cfg /\ q1.ask = req[c].ask
          /\ q1.secret = req[c].secret /\ q1.base = req[c].base
      BY <1>2, SaveStage DEF SaveStages
    <2> HIDE DEF q1
    <2>2. /\ q2 \in SaveRecord /\ q2.stage = "ready" /\ q2.cfg = req[c].cfg /\ q2.ask = req[c].ask
          /\ q2.secret = req[c].secret /\ q2.base = req[c].base
      BY <2>1, SaveSecrets
    <2> HIDE DEF q2
    <2> QED
      BY <2>2, SaveVaultBase
  <1> HIDE DEF r, q1, q2, name
  <1>6. /\ req' \in [Clients -> {Config!Idle} \cup SaveRecord \cup FormRecord] /\ req'[c] = r
        /\ \A d \in Clients : d # c => req'[d] = req[d]
        /\ \A d \in Clients : Follows(d)
    BY <1>1, <1>5, GoesOn
  <1>7. ConfigTyping'
    <2>1. vaultVersion' \in Nat
      BY <1>1, <1>2
    <2>2. ASSUME NEW d \in Clients
          PROVE  /\ Saves(d)' => req'[d].base <= version' /\ req'[d].vaultBase <= vaultVersion'
                 /\ Edits(d)' => req'[d].base <= version'
                 /\ req'[d].stage \in {"vault", "open", "vaultWrite"} => req'[d].secret.do # "none"
      <3>1. CASE d = c
        BY <1>1, <1>2, <1>5, <1>6, <3>1 DEF Edits
      <3>2. CASE d # c
        <4>1. Saves(d) => req[d].vaultBase \in Nat /\ req[d].vaultBase <= vaultVersion
          BY Saver
        <4> QED
          BY <1>1, <1>2, <1>6, <3>2, <4>1 DEF ConfigInv, ConfigTyping, Saves, Edits
      <3> QED
        BY <3>1, <3>2
    <2> QED
      BY <1>1, <1>4, <1>6, <2>1, <2>2 DEF ConfigInv, ConfigTyping
  <1>8. \A d \in Clients : Writing(d)' <=> Writing(d)
    BY <1>1, <1>5, <1>6 DEF Writing
  <1>9. \A d \in Clients : Config!Removing(d)' <=> Config!Removing(d)
    BY <1>1, <1>5, <1>6 DEF Config!Removing
  <1>10. \A d \in Clients : req'[d].stage \in {"open", "vaultWrite"} => req'[d].vaultBase # vaultVersion'
    BY <1>1, <1>2, <1>5, <1>6 DEF ConfigInv, ConfigTyping, Saves, SaveStages
  <1>11. ASSUME ~Frayed'
         PROVE  ~Frayed /\ req[c].vaultBase = vaultVersion
    <2>1. ~crossed /\ ~dangling /\ req[c].vaultBase = vaultVersion
      BY <1>1, <1>2, <1>11 DEF Frayed
    <2>2. \A d \in Clients : Config!Removing(d) => req[d].base = version
      BY <1>1, <1>5, <1>6, <1>9, <1>11 DEF Frayed
    <2>3. \A d \in Clients : d # c => req[d].stage # "vaultWrite"
      BY <1>6, <1>10, <1>11 DEF Frayed
    <2> QED
      BY <2>1, <2>2, <2>3 DEF Frayed
  <1>12. ASSUME ~Frayed', NEW n \in Config!Names, Held(n)
         PROVE  Held(n)'
    <2>1. CASE Removed(n)
      BY <1>5, <1>6, <1>9, <2>1 DEF Held, Removed
    <2>2. CASE InEveryCopy(n)
      <3>1. n \in req[c].secrets
        BY <1>1, <1>11, <1>12, <2>2 DEF InEveryCopy
      <3>2. CASE n \in vault'
        BY <1>10, <3>2 DEF Held, InEveryCopy
      <3>3. CASE n \notin vault'
        <4>1. req[c].secret.do = "remove" /\ n = name
          BY <1>1, <1>3, <3>1, <3>3
        <4>2. Config!Removing(c)' /\ req'[c].secret.name = n
          BY <1>5, <1>6, <4>1 DEF Config!Removing, name
        <4> QED
          BY <4>2 DEF Held, Removed
      <3> QED
        BY <3>2, <3>3
    <2> QED
      BY <1>12, <2>1, <2>2 DEF Held
  <1>13. ASSUME NEW d \in Clients, NEW n \in Config!Names, Sets(d, n)
         PROVE  Sets(d, n)' \/ Held(n)'
    <2>1. CASE d = c
      BY <1>1, <1>10, <1>13, <2>1 DEF Sets, Held, InEveryCopy, name
    <2>2. CASE d # c
      BY <1>6, <1>13, <2>2 DEF Sets
    <2> QED
      BY <2>1, <2>2
  <1>14. Acknowledged'
    BY <1>1, <1>2, <1>6, <1>8, AcknowledgedKept
  <1>15. Resolved'
    BY <1>1, <1>4, <1>6, <1>11, <1>12, <1>13, ResolvedKept
  <1> QED
    BY <1>6, <1>7, <1>14, <1>15, UnreferredKept DEF ConfigInv

\* The settings are torn while they are written.
LEMMA Truncates ==
  ASSUME ConfigInv, NEW c \in Clients, Config!Truncate(c)
  PROVE  ConfigInv'
  <1> DEFINE r == [req[c] EXCEPT !.stage = "write"]
  <1>1. /\ req[c].stage = "ready" /\ Saves(c) /\ settings' = Torn /\ req' = [req EXCEPT ![c] = r]
        /\ UNCHANGED <<vault, env, version, vaultVersion, asked, crossed, lost, dangling>>
    BY DEF Config!Truncate, Saves, SaveStages
  <1>2. /\ req[c] \in SaveRecord /\ req[c].base <= version /\ req[c].vaultBase <= vaultVersion
    BY <1>1, Saver
  <1>3. /\ r \in SaveRecord /\ r.stage = "write" /\ r.vaultBase = req[c].vaultBase
        /\ r.cfg = req[c].cfg /\ r.ask = req[c].ask /\ r.secret = req[c].secret /\ r.base = req[c].base
    BY <1>2, SaveStage DEF SaveStages
  <1> HIDE DEF r
  <1>4. /\ req' \in [Clients -> {Config!Idle} \cup SaveRecord \cup FormRecord] /\ req'[c] = r
        /\ \A d \in Clients : d # c => req'[d] = req[d]
        /\ \A d \in Clients : Follows(d)
    BY <1>1, <1>3, GoesOn
  <1>5. ConfigTyping'
    BY <1>1, <1>2, <1>3, <1>4 DEF ConfigInv, ConfigTyping, Saves, Edits, SaveStages
  <1>6. Writing(c)' /\ ~Writing(c) /\ \A d \in Clients : d # c => (Writing(d)' <=> Writing(d))
    BY <1>1, <1>3, <1>4 DEF Writing
  <1>7. Acknowledged'
    <2> SUFFICES ASSUME ~Stale'
                 PROVE  /\ \E w \in Clients : Writing(w)'
                        /\ \A d \in Clients : CopyHolds(d)'
      BY <1>1 DEF Acknowledged
    <2>1. ~Stale
      BY <1>1, <1>4, <1>6 DEF Stale
    <2>2. ASSUME NEW d \in Clients
          PROVE  CopyHolds(d)'
      <3>1. CASE d # c
        BY <1>6, <3>1 DEF CopyHolds
      <3>2. CASE d = c
        <4>1. CopyHolds(c)
          BY <2>1 DEF ConfigInv, Acknowledged
        <4>2. (\E w \in Clients \ {c} : Writing(w)) => \E w \in Clients \ {c} : Writing(w)'
          BY <1>6
        <4> QED
          BY <1>1, <3>2, <4>1, <4>2, <1>4 DEF CopyHolds, Follows, Matches
      <3> QED
        BY <3>1, <3>2
    <2> QED
      BY <1>6, <2>2
  <1>8. \A d \in Clients : Config!Removing(d)' <=> Config!Removing(d)
    BY <1>1, <1>3, <1>4 DEF Config!Removing
  <1>9. Frayed => Frayed'
    BY <1>1, <1>3, <1>4, <1>8 DEF Frayed, Config!Removing
  <1>10. \A n \in Config!Names : Held(n) => Held(n)'
    BY <1>1, <1>3, <1>4, <1>8 DEF Held, InEveryCopy, Removed
  <1>11. \A d \in Clients, n \in Config!Names : Sets(d, n) => Sets(d, n)'
    BY <1>1, <1>3, <1>4 DEF Sets
  <1>12. ~Frayed' /\ vault' = Torn => \E d \in Clients : req'[d].stage = "vaultWrite"
    BY <1>1, <1>4, <1>9 DEF ConfigInv, Resolved
  <1>13. Resolved'
    BY <1>1, <1>4, <1>9, <1>10, <1>11, <1>12, ResolvedKept
  <1> QED
    BY <1>4, <1>5, <1>7, <1>13, UnreferredKept DEF ConfigInv

\* Settings that were read in their present version hold what was asked for before,
\* and now.
LEMMA Writes ==
  ASSUME Config!SettingsAssumption, ConfigInv, NEW c \in Clients, Config!Write(c)
  PROVE  ConfigInv'
  <1>1. /\ req[c].stage = "write" /\ Saves(c) /\ settings' = req[c].cfg /\ version' = version + 1
        /\ crossed' = (crossed \/ req[c].base # version) /\ asked' = req[c].ask
        /\ req' = [req EXCEPT ![c] = Config!Idle]
        /\ UNCHANGED <<vault, env, vaultVersion, lost, dangling>>
    BY DEF Config!Write, Saves, SaveStages
  <1>2. /\ req[c] \in SaveRecord /\ req[c].base <= version /\ req[c].cfg \in Config!Record /\ req[c].ask \in Ask
        /\ ~Edits(c)
    BY <1>1, Saver
  <1>3. version \in Nat /\ settings' # Torn
    BY <1>1, <1>2 DEF ConfigInv, ConfigTyping, Config!SettingsAssumption
  <1>4. /\ req' \in [Clients -> {Config!Idle} \cup SaveRecord \cup FormRecord] /\ req'[c].stage = "idle"
        /\ \A d \in Clients : d # c => req'[d] = req[d]
        /\ ~Saves(c)' /\ ~Edits(c)'
    BY <1>1 DEF ConfigInv, ConfigTyping, Config!Idle, Saves, Edits, SaveStages
  <1>5. \A d \in Clients : (Saves(d) \/ Edits(d)) => req[d].base \in Nat /\ req[d].base <= version
    BY Saver, Filled
  <1>6. \A d \in Clients : (Saves(d) \/ Edits(d))' => d # c /\ req'[d] = req[d] /\ req'[d].base # version'
                                                      /\ req'[d].base <= version'
    BY <1>1, <1>3, <1>4, <1>5 DEF Saves, Edits
  <1>7. ConfigTyping'
    <2>1. ASSUME NEW d \in Clients
          PROVE  /\ Saves(d)' => req'[d].base <= version' /\ req'[d].vaultBase <= vaultVersion'
                 /\ Edits(d)' => req'[d].base <= version'
                 /\ req'[d].stage \in {"vault", "open", "vaultWrite"} => req'[d].secret.do # "none"
      BY <1>1, <1>4, <1>6 DEF ConfigInv, ConfigTyping, Saves
    <2>2. version' \in Nat
      BY <1>1, <1>3
    <2> QED
      BY <1>1, <1>2, <1>4, <2>1, <2>2 DEF ConfigInv, ConfigTyping
  <1>8. /\ \A d \in Clients : CopyHolds(d)'
        /\ \A d \in Clients : CopyResolves(d)'
    BY <1>6 DEF CopyHolds, CopyResolves
  <1>9. Acknowledged'
    <2> SUFFICES ASSUME ~Stale'
                 PROVE  Matches(settings', asked')
      BY <1>3, <1>8 DEF Acknowledged
    <2>1. req[c].base = version /\ ~crossed /\ ~lost
      BY <1>1 DEF Stale
    <2>2. \A d \in Clients : d # c => ~Writing(d)
      BY <1>4, <1>6 DEF Stale, Writing, Saves, SaveStages
    <2>3. ~Stale
      BY <2>1, <2>2 DEF Stale
    <2>4. CopyHolds(c)
      BY <2>3 DEF ConfigInv, Acknowledged
    <2> QED
      BY <1>1, <1>2, <2>1, <2>2, <2>4 DEF CopyHolds, Copy, AskOf
  <1>10. \A d \in Clients : Unreferred(d)'
    BY <1>4 DEF ConfigInv, Unreferred, Saves
  <1>11. Resolved'
    <2> SUFFICES ASSUME ~Frayed'
                 PROVE  /\ vault' = Torn => \E d \in Clients : req'[d].stage = "vaultWrite"
                        /\ \A n \in Config!Names : Refers(settings', n) => Held(n)'
      BY <1>8 DEF Resolved
    <2>1. req[c].base = version /\ ~crossed /\ ~dangling
      BY <1>1 DEF Frayed
    <2>2. \A d \in Clients : d # c => ~Config!Removing(d)
      BY <1>4, <1>6 DEF Frayed, Config!Removing, Saves, SaveStages
    <2>3. ~Frayed
      BY <1>1, <1>4, <2>1, <2>2 DEF Frayed
    <2>4. vault' = Torn => \E d \in Clients : req'[d].stage = "vaultWrite"
      BY <1>1, <1>4, <2>3 DEF ConfigInv, Resolved
    <2>5. ASSUME NEW n \in Config!Names, Refers(settings', n)
          PROVE  Held(n)'
      <3>1. Held(n) \/ Sets(c, n)
        BY <1>1, <1>2, <2>1, <2>3, <2>5 DEF ConfigInv, Resolved, CopyResolves, Copy
      <3>2. ~Sets(c, n)
        BY <1>1 DEF Sets
      <3>3. ~Removed(n)
        BY <1>1, <2>2, <2>5 DEF Removed, Config!Removing, ConfigInv, Unreferred
      <3> QED
        BY <1>1, <1>4, <3>1, <3>2, <3>3 DEF Held, InEveryCopy
    <2> QED
      BY <2>4, <2>5
  <1> QED
    BY <1>7, <1>9, <1>10, <1>11 DEF ConfigInv

\* A write that fails leaves its file torn.
LEMMA FailsToWrite ==
  ASSUME ConfigInv, NEW c \in Clients, Config!WriteFails(c)
  PROVE  ConfigInv'
  <1> DEFINE r == [req[c] EXCEPT !.stage = "ready"]
  <1>1. /\ req[c].stage \in {"vaultWrite", "write"} /\ Saves(c)
        /\ lost' = (lost \/ req[c].stage = "write")
        /\ dangling' = (dangling \/ req[c].stage = "vaultWrite" \/ Config!Removing(c))
        /\ UNCHANGED <<settings, vault, env, version, vaultVersion, asked, crossed>>
    BY DEF Config!WriteFails, Saves, SaveStages
  <1>2. /\ req[c] \in SaveRecord /\ req[c].base <= version /\ req[c].vaultBase <= vaultVersion
    BY <1>1, Saver
  <1>3. CASE req[c].stage = "vaultWrite" /\ Config!Removing(c)
    <2>1. req' = [req EXCEPT ![c] = r]
      BY <1>3 DEF Config!WriteFails
    <2>2. /\ r \in SaveRecord /\ r.stage = "ready" /\ r.vaultBase = req[c].vaultBase
          /\ r.cfg = req[c].cfg /\ r.ask = req[c].ask /\ r.secret = req[c].secret /\ r.base = req[c].base
      BY <1>2, SaveStage DEF SaveStages
    <2> HIDE DEF r
    <2>3. /\ req' \in [Clients -> {Config!Idle} \cup SaveRecord \cup FormRecord] /\ req'[c] = r
          /\ \A d \in Clients : d # c => req'[d] = req[d]
          /\ \A d \in Clients : Follows(d)
      BY <1>1, <2>1, <2>2, GoesOn
    <2>4. ConfigTyping'
      BY <1>1, <1>2, <2>2, <2>3 DEF ConfigInv, ConfigTyping, Saves, Edits, SaveStages
    <2>5. \A d \in Clients : Writing(d)' <=> Writing(d)
      BY <1>3, <2>2, <2>3 DEF Writing
    <2>6. Acknowledged' /\ Frayed'
      BY <1>1, <1>3, <2>3, <2>5, AcknowledgedKept DEF Frayed
    <2> QED
      BY <2>3, <2>4, <2>6, UnreferredKept DEF ConfigInv, Resolved
  <1>4. CASE ~(req[c].stage = "vaultWrite" /\ Config!Removing(c))
    <2>1. req' = [req EXCEPT ![c] = Config!Idle]
      BY <1>4 DEF Config!WriteFails
    <2>2. /\ req' \in [Clients -> {Config!Idle} \cup SaveRecord \cup FormRecord] /\ req'[c].stage = "idle"
          /\ \A d \in Clients : d # c => req'[d] = req[d]
          /\ \A d \in Clients : Follows(d)
      BY <1>1, <2>1, GoesIdle
    <2>3. ConfigTyping'
      BY <1>1, <2>2 DEF ConfigInv, ConfigTyping, Saves, Edits, SaveStages
    <2>4. CASE req[c].stage = "vaultWrite"
      <3>1. \A d \in Clients : Writing(d)' <=> Writing(d)
        BY <2>2, <2>4 DEF Writing
      <3>2. Acknowledged' /\ Frayed'
        BY <1>1, <2>2, <2>4, <3>1, AcknowledgedKept DEF Frayed
      <3> QED
        BY <2>2, <2>3, <3>2, UnreferredKept DEF ConfigInv, Resolved
    <2>5. CASE req[c].stage = "write"
      <3>1. Acknowledged'
        BY <1>1, <2>5 DEF Acknowledged, Stale
      <3>2. CASE Config!Removing(c)
        BY <1>1, <2>2, <2>3, <3>1, <3>2, UnreferredKept DEF ConfigInv, Resolved, Frayed
      <3>3. CASE ~Config!Removing(c)
        <4>1. \A d \in Clients : Config!Removing(d) => Config!Removing(d)' /\ d # c
          BY <2>2, <3>3 DEF Config!Removing
        <4>2. Frayed => Frayed'
          BY <1>1, <2>2, <2>5, <3>3, <4>1 DEF Frayed
        <4>3. \A n \in Config!Names : Held(n) => Held(n)'
          BY <1>1, <2>2, <4>1 DEF Held, InEveryCopy, Removed
        <4>4. \A d \in Clients, n \in Config!Names : Sets(d, n) => Sets(d, n)'
          BY <2>2, <2>5 DEF Sets
        <4>5. ~Frayed' /\ vault' = Torn => \E d \in Clients : req'[d].stage = "vaultWrite"
          BY <1>1, <2>2, <2>5, <4>2 DEF ConfigInv, Resolved
        <4>6. Resolved'
          BY <1>1, <2>2, <4>2, <4>3, <4>4, <4>5, ResolvedKept
        <4> QED
          BY <2>2, <2>3, <3>1, <4>6, UnreferredKept DEF ConfigInv
      <3> QED
        BY <3>2, <3>3
    <2> QED
      BY <1>1, <2>4, <2>5
  <1> QED
    BY <1>3, <1>4

\* So does a crash in a write; who has a page goes on having it.
LEMMA Crashes ==
  ASSUME ConfigInv, Config!Crash
  PROVE  ConfigInv'
  <1>1. /\ lost' = (lost \/ \E c \in Clients : Writing(c))
        /\ dangling' = (dangling \/ \E c \in Clients : req[c].stage = "vaultWrite" \/ Config!Removing(c))
        /\ UNCHANGED <<settings, vault, env, version, vaultVersion, asked, crossed>>
    BY DEF Config!Crash, Writing
  <1>2. \A c \in Clients : /\ Edits(c) => req'[c] = req[c]
                           /\ ~Edits(c) => req'[c] = Config!Idle /\ req'[c].stage = "idle"
    BY DEF Config!Crash, Edits, Config!Idle
  <1>3. req' \in [Clients -> {Config!Idle} \cup SaveRecord \cup FormRecord]
    BY <1>2, Filled DEF Config!Crash, Edits
  <1>4. \A c \in Clients : Follows(c)
    BY <1>1, <1>2 DEF Follows, Saves, Edits, SaveStages, Copy, AskOf
  <1>5. ConfigTyping'
    BY <1>1, <1>2, <1>3 DEF ConfigInv, ConfigTyping, Saves, Edits, SaveStages
  <1>6. \A c \in Clients : req'[c].stage \in {"idle", "editing"}
    BY <1>2 DEF Edits
  <1>7. Acknowledged'
    <2>1. CASE \E c \in Clients : Writing(c)
      BY <1>1, <2>1 DEF Acknowledged, Stale
    <2>2. CASE \A c \in Clients : ~Writing(c)
      <3>1. \A c \in Clients : ~Writing(c)'
        BY <1>6 DEF Writing
      <3> QED
        BY <1>1, <1>4, <2>2, <3>1, AcknowledgedKept
    <2> QED
      BY <2>1, <2>2
  <1>8. Resolved'
    <2>1. CASE \E c \in Clients : req[c].stage = "vaultWrite" \/ Config!Removing(c)
      BY <1>1, <2>1 DEF Resolved, Frayed
    <2>2. CASE \A c \in Clients : req[c].stage # "vaultWrite" /\ ~Config!Removing(c)
      <3>1. Frayed => Frayed'
        BY <1>1, <2>2 DEF Frayed
      <3>2. \A n \in Config!Names : Held(n) => Held(n)'
        BY <1>1, <1>6, <2>2 DEF Held, InEveryCopy, Removed
      <3>3. \A d \in Clients : ~Saves(d)'
        BY <1>6 DEF Saves, SaveStages
      <3>4. ~Frayed' => vault' # Torn
        BY <1>1, <2>2, <3>1 DEF ConfigInv, Resolved
      <3> QED
        BY <1>1, <1>4, <3>1, <3>2, <3>3, <3>4, ResolvedKept
    <2> QED
      BY <2>1, <2>2
  <1> QED
    BY <1>4, <1>5, <1>7, <1>8, UnreferredKept DEF ConfigInv

-----------------------------------------------------------------------------
\* The defaults hold what nobody has asked for yet, and refer to nothing.
LEMMA ConfigInit ==
  ASSUME Config!SettingsAssumption, Config!Init
  PROVE  ConfigInv
  <1>1. Config!Default \in Config!Record /\ {} \in SUBSET Config!Names
    BY DEF Config!Default, Config!Record
  <1>2. settings = Config!Default /\ vault = {} /\ settings # Torn /\ vault # Torn
    BY <1>1 DEF Config!Init, Config!SettingsAssumption
  <1>3. \A c \in Clients : req[c] = Config!Idle /\ ~Saves(c) /\ ~Edits(c) /\ req[c].stage = "idle"
    BY DEF Config!Init, Config!Idle, Saves, Edits, SaveStages
  <1>4. ConfigTyping
    BY <1>1, <1>2, <1>3 DEF ConfigTyping, Config!Init, Ask
  <1>5. Acknowledged
    BY <1>2, <1>3 DEF Acknowledged, CopyHolds, Matches, Config!Init, Config!Default
  <1>6. Resolved
    BY <1>2, <1>3 DEF Resolved, CopyResolves, Refers, Config!Default
  <1> QED
    BY <1>3, <1>4, <1>5, <1>6 DEF ConfigInv, Unreferred

\* A step of anything else keeps the settings and the vault as they are.
LEMMA ConfigStutters ==
  ASSUME ConfigInv, UNCHANGED Config!vars
  PROVE  ConfigInv'
  <1> USE DEF Config!vars
  <1>1. ConfigTyping'
    BY DEF ConfigInv, ConfigTyping, Saves, Edits, SaveStages
  <1>2. \A c \in Clients : Follows(c) /\ (Writing(c)' <=> Writing(c))
    BY DEF Follows, Saves, Edits, SaveStages, Copy, AskOf, Writing
  <1>3. Acknowledged'
    BY <1>2, AcknowledgedKept
  <1>4. \A c \in Clients : Config!Removing(c)' <=> Config!Removing(c)
    BY DEF Config!Removing
  <1>5. Frayed' <=> Frayed
    BY <1>4 DEF Frayed
  <1>6. \A n \in Config!Names : Held(n) => Held(n)'
    BY <1>4 DEF Held, InEveryCopy, Removed
  <1>7. \A d \in Clients, n \in Config!Names : Sets(d, n) => Sets(d, n)'
    BY DEF Sets
  <1>8. ~Frayed' /\ vault' = Torn => \E d \in Clients : req'[d].stage = "vaultWrite"
    BY <1>5 DEF ConfigInv, Resolved
  <1>9. Resolved'
    BY <1>2, <1>5, <1>6, <1>7, <1>8, ResolvedKept
  <1> QED
    BY <1>1, <1>2, <1>3, <1>9, UnreferredKept DEF ConfigInv

\* Every step of a request, a failed write and a crash keep ConfigInv.
LEMMA ConfigStep ==
  ASSUME Config!SettingsAssumption, ConfigInv, [Config!Next]_(Config!vars)
  PROVE  ConfigInv'
  <1>1. CASE UNCHANGED Config!vars
    BY <1>1, ConfigStutters
  <1>2. ASSUME NEW c \in Clients, NEW to \in {"on", "off"}, Config!ToggleSkill(c, to)
        PROVE  ConfigInv'
    BY <1>2, TogglesSkill
  <1>3. ASSUME NEW c \in Clients, NEW to \in BOOLEAN, Config!TogglePlugin(c, to)
        PROVE  ConfigInv'
    BY <1>3, TogglesPlugin
  <1>4. ASSUME NEW c \in Clients, Config!SetToken(c) \/ Config!ClearToken(c) \/ Config!PostConfig(c)
        PROVE  ConfigInv'
    BY <1>4, SetsToken, ClearsToken, PostsConfig
  <1>5. ASSUME NEW c \in Clients, NEW pg \in {"app", "agent"}, Config!Fetch(c, pg)
        PROVE  ConfigInv'
    BY <1>5, Fetches
  <1>6. ASSUME NEW c \in Clients, NEW key \in BOOLEAN, NEW keep \in BOOLEAN, NEW vaulted \in BOOLEAN,
               NEW bare \in BOOLEAN, Config!PostAgent(c, key, keep, vaulted, bare)
        PROVE  ConfigInv'
    BY <1>6, PostsAgent
  <1>7. ASSUME NEW c \in Clients, Config!Save(c)
        PROVE  ConfigInv'
    BY <1>7, OpensVault, TruncatesVault, WritesVault, Truncates, Writes, FailsToWrite DEF Config!Save
  <1>8. CASE Config!Crash
    BY <1>8, Crashes
  <1> QED
    BY <1>1, <1>2, <1>3, <1>4, <1>5, <1>6, <1>7, <1>8 DEF Config!Next

(* The settings, the vault and what the requests have in hand agree, as     *)
(* ConfigInv says.                                                          *)
THEOREM ConfigInvariance == Config!Spec => []ConfigInv
  <1>1. Config!Init => ConfigInv
    BY SettingsAssumption, ConfigInit
  <1>2. ConfigInv /\ [Config!Next]_(Config!vars) => ConfigInv'
    BY SettingsAssumption, ConfigStep
  <1> QED
    BY <1>1, <1>2, PTL DEF Config!Spec

(* What a request was acknowledged for stays in the file, through requests  *)
(* for other parts of it, failed writes of the vault and crashes, for as    *)
(* long as no request overlaps another and settings.json is not left torn.  *)
THEOREM AcknowledgedStays == Config!Spec => []AckedKept
  <1>1. ConfigInv => AckedKept
    <2> SUFFICES ASSUME ConfigInv, Config!Quiet, ~crossed, ~lost
                 PROVE  settings.skill = asked.skill /\ settings.plugin = asked.plugin
      BY DEF AckedKept, Config!AckedKept
    <2>1. \A c \in Clients : ~Writing(c)
      BY DEF Config!Quiet, Writing
    <2> QED
      BY <2>1 DEF ConfigInv, Acknowledged, Stale, Matches
  <1> QED
    BY <1>1, ConfigInvariance, PTL

(* A reference of the settings finds its secret in the vault, for as long   *)
(* as no request overlaps another and no removal from the vault or write of *)
(* it is cut short.                                                         *)
THEOREM ReferencesFind == Config!Spec => []ReferencesResolve
  <1>1. ConfigInv => ReferencesResolve
    <2> SUFFICES ASSUME ConfigInv, Config!Quiet, ~crossed, ~dangling, settings # Torn
                 PROVE  /\ vault # Torn
                        /\ settings.ref => "agent" \in vault
                        /\ settings.token => "skill" \in vault
      BY DEF ReferencesResolve, Config!ReferencesResolve
    <2>1. \A c \in Clients : ~Config!Removing(c) /\ req[c].stage # "vaultWrite"
      BY DEF Config!Quiet, Config!Removing
    <2>2. ~Frayed
      BY <2>1 DEF Frayed
    <2>3. vault # Torn /\ \A n \in Config!Names : Refers(settings, n) => Held(n)
      BY <2>1, <2>2 DEF ConfigInv, Resolved
    <2>4. \A n \in Config!Names : Refers(settings, n) => n \in vault
      BY <2>1, <2>3 DEF Held, Removed, InEveryCopy
    <2> QED
      BY <2>3, <2>4 DEF Refers, Config!Names
  <1> QED
    BY <1>1, ConfigInvariance, PTL

-----------------------------------------------------------------------------
(* ChannelPolicy *)

\* A call after it has read the health of its account, in its attempts, with its
\* result, about to save it, and about to save its session.
CallRecord ==
    [stage : {"loaded"}, kind : Channel!Kinds, acct : Accounts, health : {Nobody} \cup Channel!Health]
    \cup [stage : {"running"}, kind : Channel!Kinds, acct : Accounts, try : Nat]
    \cup [stage : {"ended"}, kind : Channel!Kinds, acct : Accounts, ok : BOOLEAN]
    \cup [stage : {"saving"}, kind : Channel!Kinds, acct : Accounts, ok : BOOLEAN, cfg : Channel!File]
    \cup [stage : {"session"}, kind : {"login", "logout"}, acct : Accounts]

ChannelTyping ==
    /\ file \in Channel!File
    /\ session \in [Accounts -> {"none", "connected", "logged_out"}]
    /\ call \in [Clients -> {Channel!Idle} \cup CallRecord]
    /\ \A c \in Clients : call[c].stage = "saving" => call[c].acct \in Channel!Known(call[c].cfg)
    /\ edit \in {Nobody} \cup Channel!Edit
    /\ clock \in Nat
    /\ streak \in [Accounts -> Nat]
    /\ overlapped \in BOOLEAN
    /\ late \subseteq Accounts

\* The health of an account tells its streak.
Tells(h, n) == IF h = Nobody THEN n = 0 ELSE h.fails = n /\ (h.until > 0 <=> n >= Threshold)

\* Until two updates of the file overlap, who has it to save has it as it is.
Tallied == ~overlapped =>
    /\ \A a \in Accounts : Tells(file.health[a], streak[a])
    /\ \A c \in Clients : call[c].stage = "saving" => call[c].cfg = file /\ call[c].acct \in Channel!Known(file)
    /\ edit # Nobody => edit.cfg = file

\* A session, or a call that is about to leave one, has its account, or was late
\* for its removal.
Explained == ~overlapped =>
    /\ \A a \in Accounts : session[a] # "none" => a \in Channel!Known(file) \cup late
    /\ \A c \in Clients : call[c].stage = "session" => call[c].acct \in Channel!Known(file) \cup late
    /\ edit # Nobody /\ edit.kind = "remove" => edit.acct \in Channel!Known(file)
    /\ edit # Nobody /\ edit.kind = "remove" /\ edit.wiped =>
           /\ session[edit.acct] # "none" => edit.acct \in late
           /\ \A c \in Clients : call[c].stage = "session" /\ call[c].acct = edit.acct => edit.acct \in late

ChannelInv == ChannelTyping /\ Tallied /\ Explained

-----------------------------------------------------------------------------
\* A channel has no accounts and no sessions at first.
LEMMA ChannelInit ==
  ASSUME Channel!PolicyAssumption, Channel!Init
  PROVE  ChannelInv
  <1> USE DEF Channel!PolicyAssumption, Channel!Init, Channel!Idle
  <1>1. file \in Channel!File /\ \A a \in Accounts : file.health[a] = Nobody
    BY DEF Channel!File
  <1>2. ChannelTyping
    BY <1>1 DEF ChannelTyping
  <1> QED
    BY <1>1, <1>2 DEF ChannelInv, Tallied, Explained, Tells

\* The call of a client changes.
LEMMA CallChanges ==
  ASSUME ChannelInv, NEW c \in Clients, NEW r \in {Channel!Idle} \cup CallRecord, call' = [call EXCEPT ![c] = r]
  PROVE  /\ call' \in [Clients -> {Channel!Idle} \cup CallRecord] /\ call'[c] = r
         /\ \A d \in Clients : d # c => call'[d] = call[d]
  BY DEF ChannelInv, ChannelTyping

\* A call comes to a point where it neither saves the file nor leaves a session,
\* or saves the file as it is.
LEMMA CallGoesOn ==
  ASSUME ChannelInv, NEW c \in Clients, NEW r \in {Channel!Idle} \cup CallRecord, call' = [call EXCEPT ![c] = r],
         UNCHANGED <<file, session, edit, clock, streak, overlapped, late>>,
         r.stage = "saving" => r.cfg = file /\ r.acct \in Channel!Known(file),
         r.stage # "session"
  PROVE  ChannelInv'
  <1>1. /\ call' \in [Clients -> {Channel!Idle} \cup CallRecord] /\ call'[c] = r
        /\ \A d \in Clients : d # c => call'[d] = call[d]
    BY CallChanges
  <1>2. ChannelTyping'
    BY <1>1 DEF ChannelInv, ChannelTyping
  <1>3. Tallied'
    BY <1>1 DEF ChannelInv, Tallied, Channel!Known
  <1>4. Explained'
    BY <1>1 DEF ChannelInv, Explained, Channel!Known
  <1> QED
    BY <1>2, <1>3, <1>4 DEF ChannelInv

\* What a call is when it is about to be admitted, attempted, ended, saved.
LEMMA CallIs ==
  ASSUME ChannelInv, NEW c \in Clients
  PROVE  /\ call[c].stage # "idle" => call[c].acct \in Accounts /\ call[c].kind \in Channel!Kinds
         /\ call[c].stage = "running" => call[c] \in [stage : {"running"}, kind : Channel!Kinds, acct : Accounts, try : Nat]
         /\ call[c].stage \in {"ended", "saving"} => call[c].ok \in BOOLEAN
         /\ call[c].stage = "saving" => call[c].cfg \in Channel!File
  <1>1. call[c] \in {Channel!Idle} \cup CallRecord
    BY DEF ChannelInv, ChannelTyping
  <1>2. CASE call[c] = Channel!Idle
    BY <1>2 DEF Channel!Idle
  <1>3. CASE call[c] \in CallRecord
    BY <1>3 DEF CallRecord, Channel!Kinds
  <1> QED
    BY <1>1, <1>2, <1>3

\* A request goes to an account there is.
LEMMA Requests ==
  ASSUME Channel!PolicyAssumption, ChannelInv, NEW c \in Clients, NEW k \in Channel!Kinds,
         NEW w \in Accounts \cup {Nobody}, Channel!Request(c, k, w)
  PROVE  ChannelInv'
  <1> DEFINE a == Channel!SelectAccount(w)
             r == [stage |-> "loaded", kind |-> k, acct |-> a, health |-> file.health[a]]
  <1>1. Channel!Known(file) \subseteq Accounts
    BY DEF Channel!Known
  <1>3. a \in Accounts
    <2>1. a # Nobody
      BY DEF Channel!Request
    <2>2. Channel!Known(file) # {} => First(Channel!Known(file)) \in Accounts
      BY <1>1 DEF Channel!PolicyAssumption
    <2> QED
      BY <1>1, <2>1, <2>2 DEF Channel!SelectAccount
  <1>4. call' = [call EXCEPT ![c] = r] /\ UNCHANGED <<file, session, edit, clock, streak, overlapped, late>>
    BY DEF Channel!Request
  <1> HIDE DEF a
  <1>5. file.health[a] \in {Nobody} \cup Channel!Health
    BY <1>3 DEF ChannelInv, ChannelTyping, Channel!File
  <1>6. r \in CallRecord /\ r.stage = "loaded"
    BY <1>3, <1>5 DEF CallRecord
  <1> HIDE DEF r
  <1> QED
    BY <1>4, <1>6, CallGoesOn

\* The limiter and the breaker let a call through or refuse it.
LEMMA Admits ==
  ASSUME ChannelInv, NEW c \in Clients, Channel!Admit(c)
  PROVE  ChannelInv'
  <1> DEFINE a == call[c].acct
             n == [stage |-> "running", kind |-> call[c].kind, acct |-> a, try |-> 0]
  <1>1. /\ UNCHANGED <<file, session, edit, clock, streak, overlapped, late>>
        /\ call[c].stage = "loaded"
        /\ call' = [call EXCEPT ![c] = Channel!Idle] \/ call' = [call EXCEPT ![c] = n]
    BY DEF Channel!Admit
  <1>2. n \in CallRecord /\ n.stage = "running"
    BY <1>1, CallIs DEF CallRecord
  <1>3. Channel!Idle.stage = "idle"
    BY DEF Channel!Idle
  <1> HIDE DEF n
  <1>4. CASE call' = [call EXCEPT ![c] = Channel!Idle]
    BY <1>1, <1>3, <1>4, CallGoesOn
  <1>5. CASE call' = [call EXCEPT ![c] = n]
    BY <1>1, <1>2, <1>5, CallGoesOn
  <1> QED
    BY <1>1, <1>4, <1>5

\* An attempt ends the call, or is made again.
LEMMA Attempts ==
  ASSUME ChannelInv, NEW c \in Clients, Channel!Attempt(c)
  PROVE  ChannelInv'
  <1> DEFINE End(ok) == [stage |-> "ended", kind |-> call[c].kind, acct |-> call[c].acct, ok |-> ok]
             again == [call[c] EXCEPT !.try = @ + 1]
  <1>1. /\ UNCHANGED <<file, session, edit, clock, streak, overlapped, late>>
        /\ call[c].stage = "running"
        /\ \/ call' = [call EXCEPT ![c] = again]
           \/ \E ok \in BOOLEAN : call' = [call EXCEPT ![c] = End(ok)]
    BY DEF Channel!Attempt
  <1>2. call[c] \in [stage : {"running"}, kind : Channel!Kinds, acct : Accounts, try : Nat]
        /\ call[c].acct \in Accounts /\ call[c].kind \in Channel!Kinds
    BY <1>1, CallIs
  <1>3. CASE call' = [call EXCEPT ![c] = again]
    <2>1. again \in [stage : {"running"}, kind : Channel!Kinds, acct : Accounts, try : Nat]
      BY <1>2
    <2>2. again \in CallRecord /\ again.stage = "running"
      BY <2>1 DEF CallRecord
    <2> HIDE DEF again
    <2> QED
      BY <1>1, <1>3, <2>2, CallGoesOn
  <1>4. ASSUME NEW ok \in BOOLEAN, call' = [call EXCEPT ![c] = End(ok)]
        PROVE  ChannelInv'
    <2> DEFINE r == End(ok)
    <2>1. r \in CallRecord /\ r.stage = "ended"
      BY <1>2 DEF CallRecord
    <2>2. call' = [call EXCEPT ![c] = r]
      BY <1>4
    <2> HIDE DEF r
    <2> QED
      BY <1>1, <2>1, <2>2, CallGoesOn
  <1> QED
    BY <1>1, <1>3, <1>4

\* Who has its result reads the file to save it, unless its account is gone.
LEMMA LoadsHealth ==
  ASSUME ChannelInv, NEW c \in Clients, Channel!LoadHealth(c)
  PROVE  ChannelInv'
  <1> DEFINE r == [stage |-> "saving", kind |-> call[c].kind, acct |-> call[c].acct, ok |-> call[c].ok, cfg |-> file]
  <1>1. /\ UNCHANGED <<file, session, edit, clock, streak, overlapped, late>>
        /\ call[c].stage = "ended"
        /\ IF call[c].acct \in Channel!Known(file) THEN call' = [call EXCEPT ![c] = r]
                                                  ELSE call' = [call EXCEPT ![c] = Channel!Idle]
    BY DEF Channel!LoadHealth
  <1>2. r \in CallRecord /\ r.stage = "saving" /\ r.cfg = file /\ r.acct = call[c].acct
    BY <1>1, CallIs DEF CallRecord, ChannelInv, ChannelTyping
  <1>3. Channel!Idle.stage = "idle"
    BY DEF Channel!Idle
  <1> HIDE DEF r
  <1>4. CASE call[c].acct \in Channel!Known(file)
    BY <1>1, <1>2, <1>4, CallGoesOn
  <1>5. CASE call[c].acct \notin Channel!Known(file)
    BY <1>1, <1>3, <1>5, CallGoesOn
  <1> QED
    BY <1>4, <1>5

\* Nothing is left of a call that is dropped.
LEMMA Abandons ==
  ASSUME ChannelInv, NEW c \in Clients, Channel!Abandon(c)
  PROVE  ChannelInv'
  <1>1. /\ UNCHANGED <<file, session, edit, clock, streak, overlapped, late>>
        /\ call' = [call EXCEPT ![c] = Channel!Idle]
    BY DEF Channel!Abandon
  <1>2. Channel!Idle.stage = "idle"
    BY DEF Channel!Idle
  <1> QED
    BY <1>1, <1>2, CallGoesOn

\* What a result makes of the health of an account tells its streak.
LEMMA OutcomeTells ==
  ASSUME Channel!PolicyAssumption, NEW h \in Channel!Health, NEW ok \in BOOLEAN, NEW n \in Nat, clock \in Nat
  PROVE  /\ Channel!Outcome(h, ok) \in Channel!Health
         /\ Tells(h, n) => Tells(Channel!Outcome(h, ok), IF ok THEN 0 ELSE n + 1)
  <1> DEFINE o == Channel!Outcome(h, ok)
  <1>1. {Threshold, OpenFor} \subseteq Nat \ {0} /\ Nobody \notin Channel!Health
    BY DEF Channel!PolicyAssumption
  <1>2. CASE ok
    <2>0. 0 \in Nat /\ ~(0 > 0) /\ ~(0 >= Threshold)
      BY <1>1
    <2>1. o = [fails |-> 0, until |-> 0]
      BY <1>2 DEF Channel!Outcome, Channel!Fresh
    <2>2. o \in Channel!Health /\ o.fails = 0 /\ o.until = 0
      BY <2>1 DEF Channel!Health
    <2> HIDE DEF o
    <2>3. o # Nobody /\ Tells(o, 0)
      BY <1>1, <2>0, <2>2 DEF Tells
    <2> QED
      BY <1>2, <2>2, <2>3 DEF o
  <1>3. CASE ~ok
    <2>1. o = [fails |-> h.fails + 1, until |-> IF h.fails + 1 >= Threshold THEN clock + OpenFor ELSE h.until]
      BY <1>3 DEF Channel!Outcome
    <2>2. h.fails \in Nat /\ h.until \in Nat
      BY DEF Channel!Health
    <2>3. /\ o \in Channel!Health /\ o.fails = h.fails + 1
          /\ o.until = IF h.fails + 1 >= Threshold THEN clock + OpenFor ELSE h.until
      BY <1>1, <2>1, <2>2 DEF Channel!Health
    <2> HIDE DEF o
    <2>4. Tells(h, n) => h.fails = n /\ (h.until > 0 <=> n >= Threshold)
      BY <1>1 DEF Tells
    <2>5. Tells(h, n) => o.fails = n + 1 /\ (o.until > 0 <=> n + 1 >= Threshold)
      BY <1>1, <2>2, <2>3, <2>4
    <2>6. o # Nobody
      BY <1>1, <2>3
    <2> QED
      BY <1>3, <2>3, <2>5, <2>6 DEF Tells, o
  <1> QED
    BY <1>2, <1>3

\* The health of one account of a file changes.
LEMMA HealthChanges ==
  ASSUME Channel!PolicyAssumption, NEW f \in Channel!File, NEW a \in Accounts, NEW h \in {Nobody} \cup Channel!Health
  PROVE  LET g == [f EXCEPT !.health[a] = h]
         IN  /\ g \in Channel!File /\ g.health[a] = h
             /\ \A b \in Accounts : b # a => g.health[b] = f.health[b]
             /\ h # Nobody /\ a \in Channel!Known(f) => Channel!Known(g) = Channel!Known(f)
  <1> DEFINE hs == [f.health EXCEPT ![a] = h]
             g == [f EXCEPT !.health = hs]
  <1>1. /\ hs \in [Accounts -> {Nobody} \cup Channel!Health] /\ hs[a] = h
        /\ \A b \in Accounts : b # a => hs[b] = f.health[b]
    BY DEF Channel!File
  <1>2. g = [f EXCEPT !.health[a] = h]
    OBVIOUS
  <1> HIDE DEF hs
  <1>3. g \in Channel!File /\ g.health = hs
    BY <1>1 DEF Channel!File
  <1> HIDE DEF g
  <1>4. h # Nobody /\ a \in Channel!Known(f) => Channel!Known(g) = Channel!Known(f)
    BY <1>1, <1>3 DEF Channel!Known
  <1> QED
    BY <1>1, <1>2, <1>3, <1>4

\* The health of an account is saved, and a login or logout goes on to its session.
LEMMA SavesHealth ==
  ASSUME Channel!PolicyAssumption, ChannelInv, NEW c \in Clients, Channel!SaveHealth(c)
  PROVE  ChannelInv'
  <1> DEFINE a == call[c].acct
             ok == call[c].ok
             f == call[c].cfg
             h == Channel!Outcome(f.health[a], ok)
             n == [stage |-> "session", kind |-> call[c].kind, acct |-> a]
             r == IF ok /\ call[c].kind # "send" THEN n ELSE Channel!Idle
  <1>1. /\ call[c].stage = "saving"
        /\ file' = [f EXCEPT !.health[a] = h]
        /\ streak' = [streak EXCEPT ![a] = IF ok THEN 0 ELSE @ + 1]
        /\ overlapped' = (overlapped \/ Channel!Holders # {c})
        /\ call' = [call EXCEPT ![c] = r]
        /\ UNCHANGED <<session, edit, clock, late>>
    BY DEF Channel!SaveHealth
  <1>2. a \in Accounts /\ ok \in BOOLEAN /\ f \in Channel!File /\ call[c].kind \in Channel!Kinds
    BY <1>1, CallIs
  <1> HIDE DEF h
  <1>3. r \in {Channel!Idle} \cup CallRecord /\ r.stage # "saving" /\ (r.stage = "session" => r.acct = a)
    BY <1>2 DEF CallRecord, Channel!Kinds, Channel!Idle
  <1> HIDE DEF r
  <1>4. /\ call' \in [Clients -> {Channel!Idle} \cup CallRecord] /\ call'[c] = r
        /\ \A d \in Clients : d # c => call'[d] = call[d]
    BY <1>1, <1>3, CallChanges
  <1>5. streak' \in [Accounts -> Nat] /\ streak'[a] = (IF ok THEN 0 ELSE streak[a] + 1) /\ streak[a] \in Nat
        /\ \A b \in Accounts : b # a => streak'[b] = streak[b]
    BY <1>1, <1>2 DEF ChannelInv, ChannelTyping
  <1> HIDE DEF a, f, ok
  <1>6. ASSUME ~overlapped'
        PROVE  /\ ~overlapped /\ edit = Nobody /\ f = file /\ a \in Channel!Known(file)
               /\ \A d \in Clients : call'[d].stage # "saving"
    <2>1. ~overlapped /\ Channel!Holders = {c}
      BY <1>1, <1>6 DEF ChannelInv, ChannelTyping
    <2>2. edit = Nobody
      BY <2>1 DEF Channel!Holders, Channel!PolicyAssumption
    <2>3. \A d \in Clients : call[d].stage = "saving" => d = c
      BY <2>1 DEF Channel!Holders
    <2> QED
      BY <1>1, <1>3, <1>4, <2>1, <2>2, <2>3 DEF ChannelInv, Tallied, f, a
  <1>7. a \in Channel!Known(f) /\ f.health[a] \in Channel!Health
    BY <1>1, <1>2 DEF ChannelInv, ChannelTyping, Channel!Known, Channel!File, f, a
  <1>8. /\ h \in Channel!Health
        /\ \A m \in Nat : Tells(f.health[a], m) => Tells(h, IF ok THEN 0 ELSE m + 1)
    BY <1>2, <1>7, OutcomeTells DEF h, ChannelInv, ChannelTyping
  <1>9. /\ file' \in Channel!File /\ file'.health[a] = h /\ h # Nobody
        /\ \A b \in Accounts : b # a => file'.health[b] = f.health[b]
        /\ Channel!Known(file') = Channel!Known(f)
    BY <1>1, <1>2, <1>7, <1>8, HealthChanges DEF Channel!PolicyAssumption
  <1>10. ChannelTyping'
    <2>1. \A d \in Clients : call'[d].stage = "saving" => call'[d].acct \in Channel!Known(call'[d].cfg)
      BY <1>3, <1>4 DEF ChannelInv, ChannelTyping, Channel!Known
    <2>2. overlapped' \in BOOLEAN
      BY <1>1 DEF ChannelInv, ChannelTyping
    <2>3. \A d \in Clients : (call[d].stage = "saving" => call[d].acct \in Channel!Known(call[d].cfg))'
      BY <2>1 DEF Channel!Known
    <2> QED
      BY <1>1, <1>4, <1>5, <1>9, <2>2, <2>3 DEF ChannelInv, ChannelTyping
  <1>11. Tallied'
    <2> SUFFICES ASSUME ~overlapped'
                 PROVE  \A b \in Accounts : Tells(file'.health[b], streak'[b])
      BY <1>1, <1>6 DEF Tallied
    <2>1. \A b \in Accounts : Tells(f.health[b], streak[b])
      BY <1>6 DEF ChannelInv, Tallied
    <2>2. Tells(file'.health[a], streak'[a])
      BY <1>2, <1>5, <1>8, <1>9, <2>1
    <2> QED
      BY <1>5, <1>9, <2>1, <2>2
  <1>12. Explained'
    <2> SUFFICES ASSUME ~overlapped'
                 PROVE  /\ \A b \in Accounts : session[b] # "none" => b \in Channel!Known(file') \cup late
                        /\ \A d \in Clients : call'[d].stage = "session" => call'[d].acct \in Channel!Known(file') \cup late
      BY <1>1, <1>6 DEF Explained
    <2>1. Channel!Known(file') = Channel!Known(file) /\ a \in Channel!Known(file')
      BY <1>6, <1>9
    <2> QED
      BY <1>3, <1>4, <1>6, <2>1 DEF ChannelInv, Explained
  <1> QED
    BY <1>10, <1>11, <1>12 DEF ChannelInv

\* A login or a logout leaves its session.
LEMMA SavesSession ==
  ASSUME Channel!PolicyAssumption, ChannelInv, NEW c \in Clients, Channel!SaveSession(c)
  PROVE  ChannelInv'
  <1> DEFINE a == call[c].acct
  <1>1. /\ call[c].stage = "session" /\ a \in Accounts
        /\ session' = [session EXCEPT ![a] = Channel!LeftBy(call[c].kind)]
        /\ call' = [call EXCEPT ![c] = Channel!Idle]
        /\ UNCHANGED <<file, edit, clock, streak, overlapped, late>>
    BY CallIs DEF Channel!SaveSession
  <1>2. session' \in [Accounts -> {"none", "connected", "logged_out"}] /\ \A b \in Accounts : b # a => session'[b] = session[b]
    BY <1>1 DEF ChannelInv, ChannelTyping, Channel!LeftBy
  <1>3. /\ call' \in [Clients -> {Channel!Idle} \cup CallRecord] /\ call'[c].stage = "idle"
        /\ \A d \in Clients : d # c => call'[d] = call[d]
    BY <1>1, CallChanges DEF Channel!Idle
  <1>4. ChannelTyping'
    BY <1>1, <1>2, <1>3 DEF ChannelInv, ChannelTyping, Channel!Known
  <1>5. Tallied'
    BY <1>1, <1>3 DEF ChannelInv, Tallied, Channel!Known
  <1>6. Explained'
    <2> SUFFICES ASSUME ~overlapped
                 PROVE  /\ \A b \in Accounts : session'[b] # "none" => b \in Channel!Known(file) \cup late
                        /\ edit # Nobody /\ edit.kind = "remove" /\ edit.wiped /\ session'[edit.acct] # "none" => edit.acct \in late
      BY <1>1, <1>3 DEF ChannelInv, Explained, Channel!Known
    <2>1. a \in Channel!Known(file) \cup late
      BY <1>1 DEF ChannelInv, Explained
    <2>2. \A b \in Accounts : session'[b] # "none" => b \in Channel!Known(file) \cup late
      BY <1>2, <2>1 DEF ChannelInv, Explained
    <2>3. ASSUME edit # Nobody, edit.kind = "remove", edit.wiped, session'[edit.acct] # "none"
          PROVE  edit.acct \in late
      <3>1. edit.acct \in Accounts
        BY <2>3 DEF ChannelInv, ChannelTyping, Channel!Edit
      <3> QED
        BY <1>1, <1>2, <2>3, <3>1 DEF ChannelInv, Explained
    <2> QED
      BY <2>2, <2>3
  <1> QED
    BY <1>4, <1>5, <1>6 DEF ChannelInv

\* An edit reads the file.
LEMMA LoadsEdit ==
  ASSUME Channel!PolicyAssumption, ChannelInv, NEW a \in Accounts,
         NEW k \in {"upsert", "default", "remove", "legacy"}, Channel!LoadEdit(k, a)
  PROVE  ChannelInv'
  <1> DEFINE e == [kind |-> k, acct |-> a, cfg |-> file, wiped |-> FALSE]
  <1>1. /\ edit = Nobody /\ (k = "remove" => a \in Channel!Known(file)) /\ edit' = e
        /\ UNCHANGED <<file, session, call, clock, streak, overlapped, late>>
    BY DEF Channel!LoadEdit
  <1>2. e \in Channel!Edit /\ e.kind = k /\ e.acct = a /\ e.cfg = file /\ ~e.wiped
    BY DEF Channel!Edit, ChannelInv, ChannelTyping
  <1> HIDE DEF e
  <1>3. ChannelTyping'
    BY <1>1, <1>2 DEF ChannelInv, ChannelTyping, Channel!Known
  <1>4. Tallied'
    BY <1>1, <1>2 DEF ChannelInv, Tallied, Channel!Known
  <1>5. Explained'
    BY <1>1, <1>2 DEF ChannelInv, Explained, Channel!Known
  <1> QED
    BY <1>3, <1>4, <1>5 DEF ChannelInv

\* A removal takes the session away, and notes who is about to bring it back.
LEMMA WipesSession ==
  ASSUME Channel!PolicyAssumption, ChannelInv, Channel!WipeSession
  PROVE  ChannelInv'
  <1> DEFINE a == edit.acct
             e == [edit EXCEPT !.wiped = TRUE]
  <1>1. /\ edit # Nobody /\ edit.kind = "remove"
        /\ session' = [session EXCEPT ![a] = "none"]
        /\ edit' = e
        /\ late' = IF \E c \in Clients : call[c].stage = "session" /\ call[c].acct = a
                   THEN late \cup {a} ELSE late \ {a}
        /\ UNCHANGED <<file, call, clock, streak, overlapped>>
    BY DEF Channel!WipeSession
  <1>2. /\ a \in Accounts /\ e \in Channel!Edit /\ e.kind = "remove" /\ e.acct = a /\ e.cfg = edit.cfg
        /\ e # Nobody
    BY <1>1 DEF ChannelInv, ChannelTyping, Channel!Edit, Channel!PolicyAssumption
  <1> HIDE DEF a, e
  <1>3. /\ session' \in [Accounts -> {"none", "connected", "logged_out"}] /\ session'[a] = "none"
        /\ \A b \in Accounts : b # a => session'[b] = session[b]
    BY <1>1, <1>2 DEF ChannelInv, ChannelTyping
  <1>4. late' \subseteq Accounts /\ \A b \in Accounts : b # a => (b \in late' <=> b \in late)
    BY <1>1, <1>2 DEF ChannelInv, ChannelTyping
  <1>5. ChannelTyping'
    BY <1>1, <1>2, <1>3, <1>4 DEF ChannelInv, ChannelTyping, Channel!Known
  <1>6. Tallied'
    BY <1>1, <1>2 DEF ChannelInv, Tallied, Channel!Known
  <1>7. Explained'
    <2> SUFFICES ASSUME ~overlapped
                 PROVE  /\ \A b \in Accounts : session'[b] # "none" => b \in Channel!Known(file) \cup late'
                        /\ \A c \in Clients : call[c].stage = "session" => call[c].acct \in Channel!Known(file) \cup late'
                        /\ a \in Channel!Known(file)
                        /\ \A c \in Clients : call[c].stage = "session" /\ call[c].acct = a => a \in late'
      BY <1>1, <1>2, <1>3 DEF Explained, Channel!Known
    <2>1. a \in Channel!Known(file)
      BY <1>1 DEF ChannelInv, Explained, a
    <2>2. \A b \in Accounts : session'[b] # "none" => b \in Channel!Known(file) \cup late'
      BY <1>3, <1>4, <2>1 DEF ChannelInv, Explained
    <2>3. ASSUME NEW c \in Clients, call[c].stage = "session"
          PROVE  call[c].acct \in Channel!Known(file) \cup late'
      <3>1. call[c].acct \in Accounts
        BY <2>3, CallIs
      <3> QED
        BY <1>4, <2>1, <2>3, <3>1 DEF ChannelInv, Explained
    <2> QED
      BY <1>1, <2>1, <2>2, <2>3
  <1> QED
    BY <1>5, <1>6, <1>7 DEF ChannelInv

\* What an edit makes of a file: an account is added with no failures, or one is
\* taken away, or all.
LEMMA EditedFile ==
  ASSUME Channel!PolicyAssumption, NEW f \in Channel!File, NEW a \in Accounts
  PROVE  /\ \A b \in BOOLEAN :
               /\ Channel!Upserted(f, a, b) \in Channel!File
               /\ Channel!Known(Channel!Upserted(f, a, b)) = Channel!Known(f) \cup {a}
               /\ \A x \in Accounts : Channel!Upserted(f, a, b).health[x] =
                      IF x = a /\ a \notin Channel!Known(f) THEN Channel!Fresh ELSE f.health[x]
         /\ Channel!Removed(f, a) \in Channel!File
         /\ Channel!Known(Channel!Removed(f, a)) = Channel!Known(f) \ {a}
         /\ \A x \in Accounts : Channel!Removed(f, a).health[x] = IF x = a THEN Nobody ELSE f.health[x]
         /\ Channel!LegacyRemoved \in Channel!File
         /\ Channel!Known(Channel!LegacyRemoved) = {}
         /\ \A x \in Accounts : Channel!LegacyRemoved.health[x] = Nobody
  <1>1. f.health \in [Accounts -> {Nobody} \cup Channel!Health] /\ f.default \in Accounts \cup {Nobody}
    BY DEF Channel!File
  <1>2. Channel!Fresh \in Channel!Health /\ Channel!Fresh # Nobody
    BY DEF Channel!Fresh, Channel!Health, Channel!PolicyAssumption
  <1>3. ASSUME NEW b \in BOOLEAN
        PROVE  /\ Channel!Upserted(f, a, b) \in Channel!File
               /\ Channel!Known(Channel!Upserted(f, a, b)) = Channel!Known(f) \cup {a}
               /\ \A x \in Accounts : Channel!Upserted(f, a, b).health[x] =
                      IF x = a /\ a \notin Channel!Known(f) THEN Channel!Fresh ELSE f.health[x]
    <2> DEFINE hs == [f.health EXCEPT ![a] = IF @ = Nobody THEN Channel!Fresh ELSE @]
               u == [health |-> hs, default |-> IF b THEN a ELSE f.default]
    <2>1. /\ hs \in [Accounts -> {Nobody} \cup Channel!Health]
          /\ \A x \in Accounts : hs[x] = IF x = a /\ f.health[a] = Nobody THEN Channel!Fresh ELSE f.health[x]
      BY <1>1, <1>2
    <2>2. Channel!Upserted(f, a, b) = u
      BY DEF Channel!Upserted
    <2> HIDE DEF hs
    <2>3. u \in Channel!File /\ u.health = hs
      BY <1>1, <2>1 DEF Channel!File
    <2> HIDE DEF u
    <2>4. a \notin Channel!Known(f) <=> f.health[a] = Nobody
      BY DEF Channel!Known
    <2>5. Channel!Known(u) = Channel!Known(f) \cup {a}
      BY <1>2, <2>1, <2>3 DEF Channel!Known
    <2> QED
      BY <2>1, <2>2, <2>3, <2>4, <2>5
  <1>4. /\ Channel!Removed(f, a) \in Channel!File
        /\ Channel!Known(Channel!Removed(f, a)) = Channel!Known(f) \ {a}
        /\ \A x \in Accounts : Channel!Removed(f, a).health[x] = IF x = a THEN Nobody ELSE f.health[x]
    <2> DEFINE hs == [f.health EXCEPT ![a] = Nobody]
               left == Channel!Known(f) \ {a}
               d == IF f.default # a THEN f.default ELSE IF left = {} THEN Nobody ELSE First(left)
               u == [health |-> hs, default |-> d]
    <2>1. /\ hs \in [Accounts -> {Nobody} \cup Channel!Health]
          /\ \A x \in Accounts : hs[x] = IF x = a THEN Nobody ELSE f.health[x]
      BY <1>1
    <2>2. left # {} => First(left) \in left
      BY DEF Channel!PolicyAssumption, Channel!Known
    <2>3. left \subseteq Accounts
      BY DEF Channel!Known
    <2>4. Channel!Removed(f, a) = u
      BY DEF Channel!Removed
    <2> HIDE DEF hs, left
    <2>5. d \in Accounts \cup {Nobody}
      BY <1>1, <2>2, <2>3
    <2> HIDE DEF d
    <2>6. u \in Channel!File /\ u.health = hs
      BY <2>1, <2>5 DEF Channel!File
    <2> HIDE DEF u
    <2>7. Channel!Known(u) = Channel!Known(f) \ {a}
      BY <2>1, <2>6 DEF Channel!Known
    <2> QED
      BY <2>1, <2>4, <2>6, <2>7
  <1>5. /\ Channel!LegacyRemoved \in Channel!File
        /\ Channel!Known(Channel!LegacyRemoved) = {}
        /\ \A x \in Accounts : Channel!LegacyRemoved.health[x] = Nobody
    BY DEF Channel!LegacyRemoved, Channel!File, Channel!Known
  <1> QED
    BY <1>3, <1>4, <1>5

\* An edit saves what it has made of the file it has read.
LEMMA SavesEdit ==
  ASSUME Channel!PolicyAssumption, ChannelInv, Channel!SaveEdit
  PROVE  ChannelInv'
  <1> DEFINE a == edit.acct
             f == edit.cfg
             k == edit.kind
  <1>1. /\ edit # Nobody /\ (k = "remove" => edit.wiped)
        /\ streak' = [x \in Accounts |-> IF x \in Channel!Known(file') THEN streak[x] ELSE 0]
        /\ overlapped' = (overlapped \/ Channel!Holders # {"edit"})
        /\ late' = (IF k = "legacy" THEN Accounts ELSE late)
        /\ edit' = Nobody
        /\ UNCHANGED <<session, call, clock>>
    BY DEF Channel!SaveEdit
  <1>2. a \in Accounts /\ f \in Channel!File /\ k \in {"upsert", "default", "remove", "legacy"}
    BY <1>1 DEF ChannelInv, ChannelTyping, Channel!Edit
  <1>3. /\ k \in {"upsert", "default"} => \E b \in BOOLEAN : file' = Channel!Upserted(f, a, b)
        /\ k = "remove" => file' = Channel!Removed(f, a)
        /\ k = "legacy" => file' = Channel!LegacyRemoved
    BY DEF Channel!SaveEdit
  <1> HIDE DEF a, f, k
  <1>4. /\ file' \in Channel!File
        /\ k \in {"upsert", "default"} =>
              /\ Channel!Known(file') = Channel!Known(f) \cup {a}
              /\ \A x \in Accounts : file'.health[x] =
                     IF x = a /\ a \notin Channel!Known(f) THEN Channel!Fresh ELSE f.health[x]
        /\ k = "remove" => /\ Channel!Known(file') = Channel!Known(f) \ {a}
                           /\ \A x \in Accounts : file'.health[x] = IF x = a THEN Nobody ELSE f.health[x]
        /\ k = "legacy" => Channel!Known(file') = {} /\ \A x \in Accounts : file'.health[x] = Nobody
    BY <1>2, <1>3, EditedFile
  <1>5. \A x \in Accounts : streak'[x] = IF x \in Channel!Known(file') THEN streak[x] ELSE 0
    BY <1>1
  <1>6. ASSUME ~overlapped'
        PROVE  /\ ~overlapped /\ f = file
               /\ \A c \in Clients : call[c].stage # "saving"
    <2>1. ~overlapped /\ Channel!Holders = {"edit"}
      BY <1>1, <1>6 DEF ChannelInv, ChannelTyping
    <2>2. \A c \in Clients : call[c].stage = "saving" => c = "edit"
      BY <2>1 DEF Channel!Holders
    <2> QED
      BY <1>1, <2>1, <2>2 DEF ChannelInv, Tallied, f, Channel!PolicyAssumption
  <1>7. ChannelTyping'
    <2>1. streak' \in [Accounts -> Nat]
      BY <1>1 DEF ChannelInv, ChannelTyping
    <2>2. overlapped' \in BOOLEAN /\ late' \subseteq Accounts
      BY <1>1 DEF ChannelInv, ChannelTyping
    <2> QED
      BY <1>1, <1>4, <2>1, <2>2 DEF ChannelInv, ChannelTyping, Channel!Known
  <1>8. Tallied'
    <2> SUFFICES ASSUME ~overlapped', NEW x \in Accounts
                 PROVE  Tells(file'.health[x], streak'[x])
      BY <1>1, <1>6 DEF Tallied
    <2>1. Tells(f.health[x], streak[x])
      BY <1>6 DEF ChannelInv, Tallied
    <2>2. x \in Channel!Known(file') <=> file'.health[x] # Nobody
      BY DEF Channel!Known
    <2>3. CASE file'.health[x] = Nobody
      BY <1>5, <2>2, <2>3 DEF Tells
    <2>4. CASE file'.health[x] # Nobody /\ file'.health[x] = f.health[x]
      BY <1>5, <2>1, <2>2, <2>4
    <2>5. CASE file'.health[x] # Nobody /\ file'.health[x] # f.health[x]
      <3>1. f.health[x] = Nobody /\ file'.health[x] = Channel!Fresh
        BY <1>2, <1>4, <2>5 DEF Channel!Known
      <3>2. streak'[x] = 0
        BY <1>5, <2>1, <2>2, <2>5, <3>1 DEF Tells
      <3>3. Channel!Fresh.fails = 0 /\ Channel!Fresh.until = 0 /\ ~(0 > 0) /\ ~(0 >= Threshold)
        BY DEF Channel!Fresh, Channel!PolicyAssumption
      <3> QED
        BY <2>5, <3>1, <3>2, <3>3 DEF Tells
    <2> QED
      BY <2>3, <2>4, <2>5
  <1>9. Explained'
    <2> SUFFICES ASSUME ~overlapped'
                 PROVE  /\ \A x \in Accounts : session[x] # "none" => x \in Channel!Known(file') \cup late'
                        /\ \A c \in Clients : call[c].stage = "session" => call[c].acct \in Channel!Known(file') \cup late'
      BY <1>1 DEF Explained
    <2>1. CASE k \in {"upsert", "default"}
      BY <1>1, <1>4, <1>6, <2>1 DEF ChannelInv, Explained
    <2>2. CASE k = "remove"
      <3>1. late' = late /\ Channel!Known(file') = Channel!Known(file) \ {a}
        BY <1>1, <1>4, <1>6, <2>2
      <3>2. /\ session[a] # "none" => a \in late
            /\ \A c \in Clients : call[c].stage = "session" /\ call[c].acct = a => a \in late
        BY <1>1, <1>6, <2>2 DEF ChannelInv, Explained, a, k
      <3> QED
        BY <1>6, <3>1, <3>2 DEF ChannelInv, Explained
    <2>3. CASE k = "legacy"
      BY <1>1, <2>3, CallIs
    <2> QED
      BY <1>2, <2>1, <2>2, <2>3
  <1> QED
    BY <1>7, <1>8, <1>9 DEF ChannelInv

\* Time that passes changes nothing of it, nor does what goes on elsewhere.
LEMMA ChannelStands ==
  ASSUME ChannelInv, clock' \in Nat,
         UNCHANGED <<file, session, call, edit, streak, overlapped, late>>
  PROVE  ChannelInv'
  BY DEF ChannelInv, ChannelTyping, Tallied, Explained, Channel!Known

\* Every step of a call, an edit or the clock keeps ChannelInv.
LEMMA ChannelStep ==
  ASSUME Channel!PolicyAssumption, ChannelInv, [Channel!Next]_(Channel!vars)
  PROVE  ChannelInv'
  <1>1. clock \in Nat /\ clock + 1 \in Nat
    BY DEF ChannelInv, ChannelTyping
  <1>2. CASE UNCHANGED Channel!vars
    BY <1>1, <1>2, ChannelStands DEF Channel!vars
  <1>3. CASE Channel!Tick
    BY <1>1, <1>3, ChannelStands DEF Channel!Tick
  <1>4. ASSUME NEW c \in Clients, Channel!CallStep(c) \/ Channel!Abandon(c)
        PROVE  ChannelInv'
    BY <1>4, Admits, Attempts, LoadsHealth, SavesHealth, SavesSession, Abandons DEF Channel!CallStep
  <1>5. ASSUME NEW c \in Clients, NEW k \in Channel!Kinds, NEW w \in Accounts \cup {Nobody}, Channel!Request(c, k, w)
        PROVE  ChannelInv'
    BY <1>5, Requests
  <1>6. ASSUME NEW k \in {"upsert", "default", "remove", "legacy"}, NEW a \in Accounts, Channel!LoadEdit(k, a)
        PROVE  ChannelInv'
    BY <1>6, LoadsEdit
  <1>7. CASE Channel!WipeSession \/ Channel!SaveEdit
    BY <1>7, WipesSession, SavesEdit
  <1> QED
    BY <1>2, <1>3, <1>4, <1>5, <1>6, <1>7 DEF Channel!Next

(* A channel's file, its sessions, its calls and its edit agree, as         *)
(* ChannelInv says.                                                         *)
THEOREM ChannelInvariance == Channel!Spec => []ChannelInv
  <1>1. Channel!Init => ChannelInv
    BY ChannelAssumption, ChannelInit
  <1>2. ChannelInv /\ [Channel!Next]_(Channel!vars) => ChannelInv'
    BY ChannelAssumption, ChannelStep
  <1> QED
    BY <1>1, <1>2, PTL DEF Channel!Spec

(* Whatever the health was when a call began, what is written after it      *)
(* counts the failures since the last success, and opens the breaker        *)
(* exactly at the threshold, until two updates of the file overlap.         *)
THEOREM HealthIsExact == Channel!Spec => []HealthExact
  <1>1. ChannelInv => HealthExact
    BY DEF ChannelInv, Tallied, Tells, HealthExact, Channel!HealthExact, Channel!Known
  <1> QED
    BY <1>1, ChannelInvariance, PTL

(* A session is left without its account only by a login or logout that the *)
(* removal came upon, by overlapping updates, or by the channel's removal.  *)
THEOREM OrphansWereLate == Channel!Spec => []OrphanSessionsWereLate
  <1>1. ChannelInv => OrphanSessionsWereLate
    BY DEF ChannelInv, Explained, OrphanSessionsWereLate, Channel!OrphanSessionsWereLate
  <1> QED
    BY <1>1, ChannelInvariance, PTL

-----------------------------------------------------------------------------
(* SessionStore *)

\* Where an operation is: in the events of a session, at an event, or nowhere.
AtMessage == {"meta", "get", "metaput", "put", "insert", "index", "count"}
AtEntry == {"index", "reindex", "unindex"}
Points == AtMessage \cup {"idle", "name", "nameput", "forkput", "edit", "reindex", "erase", "unindex", "recount"}
Operation == [pc : Points, s : Sessions \cup {Nobody}, id : Nat, seen : Store!Row \cup {Nobody},
              todo : Seq(Clients), many : BOOLEAN, run : BOOLEAN]

\* What an operation needs where it is.
WellFormed(c) ==
    /\ does[c].pc \notin {"idle", "edit", "reindex"} => does[c].s \in Sessions
    /\ does[c].pc \in AtMessage => does[c].todo # <<>>
    /\ does[c].pc = "nameput" => does[c].seen # Nobody
    /\ does[c].pc \in {"edit", "erase"} \cup AtEntry => does[c].id \in Store!Ids
    /\ does[c].id <= last

StoreTyping ==
    /\ row \in [Sessions -> Store!Row \cup {Nobody}]
    /\ event \in [Store!Ids -> Store!Event \cup {Nobody}]
    /\ index \in [Store!Ids -> Store!Event \cup {Nobody}]
    /\ last \in Nat
    /\ does \in [Clients -> Operation]
    /\ off \subseteq Sessions
    /\ torn \subseteq Store!Ids
    /\ \A c \in Clients : WellFormed(c)

\* The count of a session is that of its events, but for those that are inserted
\* and not counted yet; without a row it has none.
Counted(s) ==
    /\ IsFiniteSet(Store!Uncounted(s))
    /\ row[s] = Nobody => Store!EventsOf(s) = {}
    /\ s \notin off /\ row[s] = Nobody => Store!Uncounted(s) = {}
    /\ s \notin off /\ row[s] # Nobody /\ Store!Erasing(s) = {} =>
           row[s].count + Cardinality(Store!Uncounted(s)) = Cardinality(Store!EventsOf(s))

\* No id is used before it is given.
Unused == \A i \in Store!Ids : i > last => event[i] = Nobody /\ index[i] = Nobody

\* A client is about to write what the index has for an event, or to clear it.
WritesIndex(c, i) == does[c].pc \in {"index", "reindex"} /\ does[c].id = i
ClearsIndex(c, i) == /\ does[c].pc = "unindex"
                     /\ IF does[c].many THEN i > does[c].id /\ index[i] # Nobody /\ index[i].in = does[c].s
                                        ELSE does[c].id = i

\* What there is of an event when a client is about to.
Indexed(c, i) ==
    /\ does[c].pc = "index" /\ does[c].id = i /\ i \notin torn =>
         event[i] = [in |-> does[c].s, text |-> Head(does[c].todo)] /\ index[i] = Nobody
    /\ does[c].pc = "reindex" /\ does[c].id = i /\ i \notin torn =>
         event[i] # Nobody /\ index[i] # Nobody /\ event[i].text = c /\ index[i].in = event[i].in
    /\ does[c].pc = "unindex" /\ ~does[c].many /\ does[c].id = i => event[i] = Nobody
    /\ does[c].pc = "unindex" /\ does[c].many /\ i > does[c].id /\ event[i] # Nobody /\ event[i].in = does[c].s =>
         i \in torn

\* The index has the event, or somebody sees to it.
Truthful(i) ==
    i \notin torn => \/ index[i] = event[i]
                     \/ \E c \in Clients : WritesIndex(c, i) \/ (ClearsIndex(c, i) /\ event[i] = Nobody)

\* Two that write the same entry have torn it.
Alone == \A c, d \in Clients, i \in Store!Ids : c # d /\ WritesIndex(c, i) /\ WritesIndex(d, i) => i \in torn

IndexKept == Unused /\ (\A i \in Store!Ids : Truthful(i) /\ \A c \in Clients : Indexed(c, i)) /\ Alone

StoreInv == StoreTyping /\ (\A s \in Sessions : Counted(s)) /\ IndexKept

-----------------------------------------------------------------------------
\* The cardinality SessionStore speaks of is that of the theorems about it.
LEMMA StoreCardinality == \A S : Store!Cardinality(S) = Cardinality(S)
  BY DEF Store!Cardinality, Cardinality

\* The fields of an operation change one at a time: where it is,
LEMMA OperationGoes ==
  ASSUME NEW q \in Operation, NEW pc \in Points
  PROVE  LET r == [q EXCEPT !.pc = pc]
         IN  /\ r \in Operation /\ r.pc = pc /\ r.s = q.s /\ r.id = q.id /\ r.seen = q.seen
             /\ r.todo = q.todo /\ r.many = q.many /\ r.run = q.run
  BY DEF Operation

\* the id it is at,
LEMMA OperationIsAt ==
  ASSUME NEW q \in Operation, NEW i \in Nat
  PROVE  LET r == [q EXCEPT !.id = i]
         IN  /\ r \in Operation /\ r.pc = q.pc /\ r.s = q.s /\ r.id = i /\ r.seen = q.seen
             /\ r.todo = q.todo /\ r.many = q.many /\ r.run = q.run
  BY DEF Operation

\* the row it has read,
LEMMA OperationSees ==
  ASSUME NEW q \in Operation, NEW v \in Store!Row \cup {Nobody}
  PROVE  LET r == [q EXCEPT !.seen = v]
         IN  /\ r \in Operation /\ r.pc = q.pc /\ r.s = q.s /\ r.id = q.id /\ r.seen = v
             /\ r.todo = q.todo /\ r.many = q.many /\ r.run = q.run
  BY DEF Operation

\* and the messages it has to append.
LEMMA OperationHas ==
  ASSUME NEW q \in Operation, NEW t \in Seq(Clients)
  PROVE  LET r == [q EXCEPT !.todo = t]
         IN  /\ r \in Operation /\ r.pc = q.pc /\ r.s = q.s /\ r.id = q.id /\ r.seen = q.seen
             /\ r.todo = t /\ r.many = q.many /\ r.run = q.run
  BY DEF Operation

\* Without one, a client is nowhere.
LEMMA OperationIdle ==
  /\ Store!Idle \in Operation /\ Store!Idle.pc = "idle" /\ Store!Idle.id = 0 /\ Store!Idle.s = Nobody
  /\ Store!Idle.seen = Nobody
  BY DEF Store!Idle, Store!Doing, Operation, Points

\* One client's operation changes.
LEMMA OperationChanges ==
  ASSUME StoreTyping, NEW c \in Clients, NEW r \in Operation, does' = [does EXCEPT ![c] = r]
  PROVE  /\ does' \in [Clients -> Operation] /\ does'[c] = r
         /\ \A d \in Clients : d # c => does'[d] = does[d]
  BY DEF StoreTyping

-----------------------------------------------------------------------------
\* Where an event is between its table and its index, or a count behind.
Busy == AtEntry \cup {"count", "recount"}

\* A row is made without a count, or with one of a row that was read and is gone;
\* a row that there is keeps its count.
RowKept(s) ==
    /\ row[s] # Nobody => row'[s] # Nobody /\ row'[s].count = row[s].count
    /\ row[s] = Nobody /\ row'[s] # Nobody => row'[s].count = 0 \/ s \in off'
    /\ s \in off => s \in off'

\* A session's count goes on being that of its events while neither changes.
LEMMA CountStays ==
  ASSUME NEW s \in Sessions, Counted(s), RowKept(s), Store!Uncounted(s)' = Store!Uncounted(s),
         Store!Erasing(s)' = Store!Erasing(s), Store!EventsOf(s)' = Store!EventsOf(s)
  PROVE  Counted(s)'
  <1>1. row'[s] = Nobody => Store!EventsOf(s)' = {}
    BY DEF Counted, RowKept
  <1>2. s \notin off' /\ row'[s] = Nobody => Store!Uncounted(s)' = {}
    BY DEF Counted, RowKept
  <1>3. ASSUME s \notin off', row'[s] # Nobody, Store!Erasing(s)' = {}
        PROVE  row'[s].count + Cardinality(Store!Uncounted(s)') = Cardinality(Store!EventsOf(s)')
    <2>1. CASE row[s] # Nobody
      BY <1>3, <2>1 DEF Counted, RowKept
    <2>2. CASE row[s] = Nobody
      <3>1. row'[s].count = 0 /\ Store!EventsOf(s)' = {} /\ Store!Uncounted(s)' = {}
        BY <1>3, <2>2 DEF Counted, RowKept
      <3>2. Cardinality({}) = 0
        BY FS_EmptySet
      <3> QED
        BY <3>1, <3>2
    <2> QED
      BY <2>1, <2>2
  <1> QED
    BY <1>1, <1>2, <1>3 DEF Counted

\* The index goes on being true while nobody comes to an entry of it.
LEMMA IndexStays ==
  ASSUME IndexKept, UNCHANGED <<event, last, index, torn>>,
         \A d \in Clients : does'[d] = does[d] \/ (does[d].pc \notin AtEntry /\ does'[d].pc \notin AtEntry)
  PROVE  IndexKept'
  <1>1. \A d \in Clients, i \in Store!Ids : WritesIndex(d, i)' <=> WritesIndex(d, i)
    BY DEF WritesIndex, AtEntry
  <1>2. \A d \in Clients, i \in Store!Ids : ClearsIndex(d, i)' <=> ClearsIndex(d, i)
    BY DEF ClearsIndex, AtEntry
  <1>3. \A d \in Clients, i \in Store!Ids : Indexed(d, i) => Indexed(d, i)'
    BY DEF Indexed, AtEntry
  <1>4. \A i \in Store!Ids : Truthful(i) => Truthful(i)'
    BY <1>1, <1>2 DEF Truthful
  <1> QED
    BY <1>1, <1>3, <1>4 DEF IndexKept, Unused, Alone

\* A step before or after the statements at an event, and one of rows alone.
LEMMA Asides ==
  ASSUME StoreInv, UNCHANGED <<event, last, index, torn>>,
         does' \in [Clients -> Operation], \A d \in Clients : WellFormed(d)',
         \A d \in Clients : does'[d] = does[d] \/ (does[d].pc \notin Busy /\ does'[d].pc \notin Busy),
         row' \in [Sessions -> Store!Row \cup {Nobody}], off' \subseteq Sessions,
         \A s \in Sessions : RowKept(s)
  PROVE  StoreInv'
  <1>1. StoreTyping'
    BY DEF StoreInv, StoreTyping
  <1>2. ASSUME NEW s \in Sessions
        PROVE  Counted(s)'
    <2>1. Store!Uncounted(s)' = Store!Uncounted(s) /\ Store!Erasing(s)' = Store!Erasing(s)
      BY DEF Store!Uncounted, Store!Erasing, Busy, AtEntry
    <2>2. Store!EventsOf(s)' = Store!EventsOf(s)
      BY DEF Store!EventsOf
    <2> QED
      BY <2>1, <2>2, CountStays DEF StoreInv
  <1>3. IndexKept'
    BY IndexStays DEF StoreInv, Busy
  <1> QED
    BY <1>1, <1>2, <1>3 DEF StoreInv

\* The same of one client.
LEMMA Aside ==
  ASSUME StoreInv, NEW c \in Clients, NEW r \in Operation, does' = [does EXCEPT ![c] = r],
         UNCHANGED <<event, last, index, torn>>,
         does[c].pc \notin Busy, r.pc \notin Busy,
         r.pc \notin {"idle", "edit", "reindex"} => r.s \in Sessions,
         r.pc \in AtMessage => r.todo # <<>>,
         r.pc = "nameput" => r.seen # Nobody,
         r.pc \in {"edit", "erase"} => r.id \in Store!Ids,
         r.id <= last,
         row' \in [Sessions -> Store!Row \cup {Nobody}], off' \subseteq Sessions,
         \A s \in Sessions : RowKept(s)
  PROVE  StoreInv'
  <1>1. /\ does' \in [Clients -> Operation] /\ does'[c] = r
        /\ \A d \in Clients : d # c => does'[d] = does[d]
    BY OperationChanges DEF StoreInv
  <1>2. \A d \in Clients : WellFormed(d)'
    BY <1>1 DEF StoreInv, StoreTyping, WellFormed, Busy, AtEntry
  <1> QED
    BY <1>1, <1>2, Asides

\* INSERT ... ON CONFLICT DO UPDATE.
LEMMA Upserts ==
  ASSUME Store!StoreAssumption, StoreTyping, NEW s \in Sessions, NEW meta \in Store!Row, Store!Upsert(s, meta)
  PROVE  /\ row' \in [Sessions -> Store!Row \cup {Nobody}] /\ off' \subseteq Sessions
         /\ \A t \in Sessions : RowKept(t)
  <1> DEFINE m == [meta EXCEPT !.count = row[s].count]
  <1>1. /\ row' = [row EXCEPT ![s] = IF row[s] = Nobody THEN meta ELSE m]
        /\ off' = IF row[s] = Nobody /\ meta.count # 0 THEN off \cup {s} ELSE off
    BY DEF Store!Upsert
  <1>2. row[s] # Nobody => m \in Store!Row /\ m.count = row[s].count
    BY DEF StoreTyping, Store!Row
  <1>3. Nobody \notin Store!Row
    BY DEF Store!StoreAssumption
  <1> HIDE DEF m
  <1>4. /\ row' \in [Sessions -> Store!Row \cup {Nobody}]
        /\ row'[s] = IF row[s] = Nobody THEN meta ELSE m
        /\ \A t \in Sessions : t # s => row'[t] = row[t]
    BY <1>1, <1>2 DEF StoreTyping
  <1> QED
    BY <1>1, <1>2, <1>3, <1>4 DEF RowKept, StoreTyping

-----------------------------------------------------------------------------
\* A session has finitely many events.
LEMMA EventsAreFinite ==
  ASSUME Store!StoreAssumption, NEW S \in SUBSET Store!Ids
  PROVE  IsFiniteSet(S) /\ Cardinality(S) \in Nat /\ Store!Cardinality(S) \in Nat
  <1>1. IsFiniteSet(1..MaxEvents)
    BY FS_Interval DEF Store!StoreAssumption
  <1>2. IsFiniteSet(S)
    BY <1>1, FS_Subset DEF Store!Ids
  <1> QED
    BY <1>2, FS_CardinalityType, StoreCardinality

\* What a client asks for begins before the statements at an event.
LEMMA Begins ==
  ASSUME StoreInv, NEW c \in Clients, NEW r \in Operation, NEW u, Store!Ask(c, u, r),
         r.pc \in {"meta", "get", "edit", "erase", "forkput"},
         r.pc # "edit" => r.s \in Sessions,
         r.pc \in {"meta", "get"} => r.todo # <<>>,
         r.pc \in {"edit", "erase"} => r.id \in Store!Ids,
         r.id <= last
  PROVE  StoreInv'
  <1>1. does[c] = Store!Idle /\ does' = [does EXCEPT ![c] = r] /\ UNCHANGED <<row, event, last, index, off, torn>>
    BY DEF Store!Ask, Store!tables, Store!ghosts
  <1>2. does[c].pc \notin Busy /\ r.pc \notin Busy /\ r.pc # "nameput"
    BY <1>1, OperationIdle DEF Busy, AtEntry
  <1>3. row' \in [Sessions -> Store!Row \cup {Nobody}] /\ off' \subseteq Sessions
    BY <1>1 DEF StoreInv, StoreTyping
  <1>4. \A x \in Sessions : RowKept(x)
    BY <1>1 DEF RowKept
  <1>5. r.pc \in AtMessage => r.todo # <<>>
    BY DEF AtMessage
  <1> QED
    BY <1>1, <1>2, <1>3, <1>4, <1>5, Aside

\* A run, an append or a fork is asked for.
LEMMA AsksOfSession ==
  ASSUME Store!StoreAssumption, StoreInv, NEW c \in Clients, NEW s \in Sessions,
         Store!BeginRun(c, s) \/ Store!BeginAppend(c, s) \/ \E t \in Sessions : Store!BeginFork(c, s, t)
  PROVE  StoreInv'
  <1>1. /\ <<c>> \in Seq(Clients) /\ <<c>> # <<>> /\ <<>> \in Seq(Clients) /\ 0 \in Nat
        /\ {"meta", "get", "forkput"} \subseteq Points
    BY DEF Points, AtMessage
  <1>2. last \in Nat /\ 0 <= last
    BY DEF StoreInv, StoreTyping
  <1>3. CASE Store!BeginRun(c, s)
    <2> DEFINE r == Store!Doing("meta", s, 0, <<c>>, FALSE, TRUE)
    <2>1. Store!Ask(c, s, r)
      BY <1>3 DEF Store!BeginRun
    <2>2. r \in Operation /\ r.pc = "meta" /\ r.s = s /\ r.id = 0 /\ r.todo = <<c>>
      BY <1>1 DEF Operation, Store!Doing
    <2> HIDE DEF r
    <2> QED
      BY <1>1, <1>2, <2>1, <2>2, Begins
  <1>4. CASE Store!BeginAppend(c, s)
    <2> DEFINE r == Store!Doing("get", s, 0, <<c>>, FALSE, TRUE)
    <2>1. Store!Ask(c, s, r)
      BY <1>4 DEF Store!BeginAppend
    <2>2. r \in Operation /\ r.pc = "get" /\ r.s = s /\ r.id = 0 /\ r.todo = <<c>>
      BY <1>1 DEF Operation, Store!Doing
    <2> HIDE DEF r
    <2> QED
      BY <1>1, <1>2, <2>1, <2>2, Begins
  <1>5. ASSUME NEW t \in Sessions, Store!BeginFork(c, s, t)
        PROVE  StoreInv'
    <2> DEFINE n == Store!Cardinality(Store!EventsOf(s))
    <2>1. PICK ids \in [1..n -> Store!EventsOf(s)] :
              Store!Ask(c, t, Store!Doing("forkput", t, 0, [k \in 1..n |-> event[ids[k]].text], FALSE, FALSE))
      BY <1>5 DEF Store!BeginFork
    <2> DEFINE texts == [k \in 1..n |-> event[ids[k]].text]
               r == Store!Doing("forkput", t, 0, texts, FALSE, FALSE)
    <2>2. n \in Nat
      BY EventsAreFinite DEF Store!EventsOf
    <2>3. \A e \in Store!EventsOf(s) : event[e].text \in Clients
      BY DEF StoreInv, StoreTyping, Store!EventsOf, Store!Event
    <2>4. Store!Ask(c, t, r)
      BY <2>1
    <2> HIDE DEF n
    <2>5. texts \in Seq(Clients)
      BY <2>2, <2>3
    <2> HIDE DEF texts
    <2>6. r \in Operation /\ r.pc = "forkput" /\ r.s = t /\ r.id = 0
      BY <1>1, <2>5 DEF Operation, Store!Doing
    <2> HIDE DEF r
    <2> QED
      BY <1>1, <1>2, <2>4, <2>6, Begins
  <1> QED
    BY <1>3, <1>4, <1>5

\* An edit or an erasure is asked for.
LEMMA AsksOfEvent ==
  ASSUME Store!StoreAssumption, StoreInv, NEW c \in Clients, NEW i \in Store!Ids,
         Store!BeginEdit(c, i) \/ \E s \in Sessions : Store!BeginErase(c, s, i)
  PROVE  StoreInv'
  <1>1. <<>> \in Seq(Clients) /\ i \in Nat /\ {"edit", "erase"} \subseteq Points
    BY DEF Store!Ids, Points
  <1>2. CASE Store!BeginEdit(c, i)
    <2> DEFINE r == Store!Doing("edit", Nobody, i, <<>>, FALSE, FALSE)
    <2>1. i <= last /\ Store!Ask(c, Nobody, r)
      BY <1>2 DEF Store!BeginEdit
    <2>2. r \in Operation /\ r.pc = "edit" /\ r.id = i
      BY <1>1 DEF Operation, Store!Doing
    <2> HIDE DEF r
    <2> QED
      BY <1>1, <2>1, <2>2, Begins
  <1>3. ASSUME NEW s \in Sessions, NEW many \in BOOLEAN, i <= last, Store!Ask(c, s, Store!Doing("erase", s, i, <<>>, many, FALSE))
        PROVE  StoreInv'
    <2> DEFINE r == Store!Doing("erase", s, i, <<>>, many, FALSE)
    <2>1. r \in Operation /\ r.pc = "erase" /\ r.s = s /\ r.id = i
      BY <1>1 DEF Operation, Store!Doing
    <2>2. Store!Ask(c, s, r)
      BY <1>3
    <2> HIDE DEF r
    <2> QED
      BY <1>1, <1>3, <2>1, <2>2, Begins
  <1> QED
    BY <1>2, <1>3 DEF Store!BeginErase

\* A row is read, to be written whole.
LEMMA Gets ==
  ASSUME StoreInv, NEW c \in Clients, Store!Get(c)
  PROVE  StoreInv'
  <1> DEFINE to == IF does[c].pc = "meta" THEN "metaput" ELSE "put"
             q == [does[c] EXCEPT !.pc = to]
             r == [q EXCEPT !.seen = row[does[c].s]]
  <1>1. does[c].pc \in {"meta", "get"} /\ does' = [does EXCEPT ![c] = r] /\ UNCHANGED <<row, event, last, index, off, torn>>
    BY DEF Store!Get, Store!tables, Store!ghosts
  <1>2. /\ does[c] \in Operation /\ does[c].s \in Sessions /\ does[c].todo # <<>> /\ does[c].id <= last
        /\ row[does[c].s] \in Store!Row \cup {Nobody}
    BY <1>1 DEF StoreInv, StoreTyping, WellFormed, AtMessage
  <1>3. to \in {"metaput", "put"} /\ to \in Points
    BY DEF Points, AtMessage
  <1> HIDE DEF to
  <1>4. q \in Operation /\ q.pc = to /\ q.s = does[c].s /\ q.id = does[c].id /\ q.todo = does[c].todo
    BY <1>2, <1>3, OperationGoes
  <1> HIDE DEF q
  <1>5. r \in Operation /\ r.pc = to /\ r.s = does[c].s /\ r.id = does[c].id /\ r.todo = does[c].todo
    BY <1>2, <1>4, OperationSees
  <1> HIDE DEF r
  <1>6. row' \in [Sessions -> Store!Row \cup {Nobody}] /\ off' \subseteq Sessions
    BY <1>1 DEF StoreInv, StoreTyping
  <1>7. \A x \in Sessions : RowKept(x)
    BY <1>1 DEF RowKept
  <1> QED
    BY <1>1, <1>2, <1>3, <1>5, <1>6, <1>7, Aside DEF AtMessage, Busy, AtEntry

\* A row that a run writes is one it has read, or a new one.
LEMMA RowsToWrite ==
  ASSUME StoreInv, NEW c \in Clients, NEW n \in {"new", "auto"}
  PROVE  /\ Store!Basic \in Store!Row /\ Store!Seen(c, does[c].s) \in Store!Row
         /\ [Store!Seen(c, does[c].s) EXCEPT !.name = n] \in Store!Row
         /\ does[c].pc = "nameput" => [does[c].seen EXCEPT !.name = n] \in Store!Row
  <1>1. Store!Basic \in Store!Row
    BY DEF Store!Basic, Store!Row
  <1>2. does[c].seen \in Store!Row \cup {Nobody} /\ (does[c].pc = "nameput" => does[c].seen # Nobody)
    BY DEF StoreInv, StoreTyping, WellFormed, Operation
  <1>3. Store!Seen(c, does[c].s) \in Store!Row
    BY <1>1, <1>2 DEF Store!Seen
  <1>4. \A q \in Store!Row : [q EXCEPT !.name = n] \in Store!Row
    BY DEF Store!Row
  <1> QED
    BY <1>1, <1>2, <1>3, <1>4

\* A row is written by a run that goes on to its message.
LEMMA Puts ==
  ASSUME Store!StoreAssumption, StoreInv, NEW c \in Clients, NEW m \in Store!Row, NEW to \in {"get", "insert"},
         does[c].pc \in {"metaput", "put", "forkput"}, Store!Upsert(does[c].s, m), Store!Go(c, to),
         does[c].pc = "forkput" => does[c].todo # <<>>,
         UNCHANGED <<event, last, index, torn>>
  PROVE  StoreInv'
  <1> DEFINE r == [does[c] EXCEPT !.pc = to]
  <1>1. does' = [does EXCEPT ![c] = r]
    BY DEF Store!Go
  <1>2. does[c] \in Operation /\ does[c].s \in Sessions /\ does[c].todo # <<>> /\ does[c].id <= last
    BY DEF StoreInv, StoreTyping, WellFormed, AtMessage
  <1>3. to \in Points /\ to \notin Busy /\ does[c].pc \notin Busy
    BY DEF Points, AtMessage, Busy, AtEntry
  <1>4. r \in Operation /\ r.pc = to /\ r.s = does[c].s /\ r.id = does[c].id /\ r.todo = does[c].todo
    BY <1>2, <1>3, OperationGoes
  <1> HIDE DEF r
  <1>5. /\ row' \in [Sessions -> Store!Row \cup {Nobody}] /\ off' \subseteq Sessions
        /\ \A t \in Sessions : RowKept(t)
    BY <1>2, Upserts DEF StoreInv
  <1> QED
    BY <1>1, <1>2, <1>3, <1>4, <1>5, Aside DEF AtMessage

\* An operation ends before it comes to an event, or after it has.
LEMMA Ends ==
  ASSUME StoreInv, NEW c \in Clients, does[c].pc \notin Busy, Store!Done(c),
         UNCHANGED <<event, last, index, torn>>,
         row' \in [Sessions -> Store!Row \cup {Nobody}], off' \subseteq Sessions, \A t \in Sessions : RowKept(t)
  PROVE  StoreInv'
  <1> DEFINE r == Store!Idle
  <1>1. does' = [does EXCEPT ![c] = r]
    BY DEF Store!Done
  <1>2. r \in Operation /\ r.pc = "idle" /\ r.id = 0 /\ last \in Nat /\ 0 <= last
    BY OperationIdle DEF StoreInv, StoreTyping
  <1>3. r.pc \notin Busy /\ r.id <= last /\ r.pc \notin AtMessage
    BY <1>2 DEF Busy, AtEntry, AtMessage
  <1> HIDE DEF r
  <1> QED
    BY <1>1, <1>2, <1>3, Aside

\* The row of a run, a fork, and a name.
LEMMA WritesRow ==
  ASSUME Store!StoreAssumption, StoreInv, NEW c \in Clients,
         Store!MetaPut(c) \/ Store!Put(c) \/ Store!ForkPut(c) \/ Store!NamePut(c)
  PROVE  StoreInv'
  <1>1. CASE Store!MetaPut(c)
    <2> DEFINE m == [Store!Seen(c, does[c].s) EXCEPT !.name = "new"]
    <2>1. m \in Store!Row
      BY RowsToWrite
    <2>2. /\ does[c].pc = "metaput" /\ Store!Upsert(does[c].s, m) /\ Store!Go(c, "get")
          /\ UNCHANGED <<event, last, index, torn>>
      BY <1>1 DEF Store!MetaPut, Store!At
    <2> HIDE DEF m
    <2> QED
      BY <2>1, <2>2, Puts
  <1>2. CASE Store!Put(c)
    <2> DEFINE m == Store!Seen(c, does[c].s)
    <2>1. m \in Store!Row
      BY RowsToWrite
    <2>2. /\ does[c].pc = "put" /\ Store!Upsert(does[c].s, m) /\ Store!Go(c, "insert")
          /\ UNCHANGED <<event, last, index, torn>>
      BY <1>2 DEF Store!Put, Store!At
    <2> HIDE DEF m
    <2> QED
      BY <2>1, <2>2, Puts
  <1>3. CASE Store!ForkPut(c)
    <2>1. /\ does[c].pc = "forkput" /\ Store!Upsert(does[c].s, Store!Basic)
          /\ IF does[c].todo = <<>> THEN Store!Done(c) ELSE Store!Go(c, "insert")
          /\ UNCHANGED <<event, last, index, torn>>
      BY <1>3 DEF Store!ForkPut, Store!At
    <2>2. does[c].s \in Sessions /\ Store!Basic \in Store!Row /\ does[c].pc \notin Busy
      BY <2>1, RowsToWrite DEF StoreInv, StoreTyping, WellFormed, Busy, AtEntry
    <2>3. CASE does[c].todo = <<>>
      <3>1. /\ row' \in [Sessions -> Store!Row \cup {Nobody}] /\ off' \subseteq Sessions
            /\ \A t \in Sessions : RowKept(t)
        BY <2>1, <2>2, Upserts DEF StoreInv
      <3> QED
        BY <2>1, <2>2, <2>3, <3>1, Ends
    <2>4. CASE does[c].todo # <<>>
      BY <2>1, <2>2, <2>4, Puts
    <2> QED
      BY <2>3, <2>4
  <1>4. CASE Store!NamePut(c)
    <2> DEFINE m == [does[c].seen EXCEPT !.name = "auto"]
    <2>1. /\ does[c].pc = "nameput" /\ Store!Upsert(does[c].s, m) /\ Store!Done(c)
          /\ UNCHANGED <<event, last, index, torn>>
      BY <1>4 DEF Store!NamePut, Store!At
    <2>2. m \in Store!Row
      BY <2>1, RowsToWrite
    <2> HIDE DEF m
    <2>3. does[c].s \in Sessions /\ does[c].pc \notin Busy
      BY <2>1 DEF StoreInv, StoreTyping, WellFormed, Busy, AtEntry
    <2>4. /\ row' \in [Sessions -> Store!Row \cup {Nobody}] /\ off' \subseteq Sessions
          /\ \A t \in Sessions : RowKept(t)
      BY <2>1, <2>2, <2>3, Upserts DEF StoreInv
    <2> QED
      BY <2>1, <2>3, <2>4, Ends
  <1> QED
    BY <1>1, <1>2, <1>3, <1>4

\* A session gets its name from its first message, or not.
LEMMA Names ==
  ASSUME StoreInv, NEW c \in Clients, Store!Name(c)
  PROVE  StoreInv'
  <1> DEFINE q == [does[c] EXCEPT !.pc = "nameput"]
             r == [q EXCEPT !.seen = row[does[c].s]]
  <1>1. /\ does[c].pc = "name" /\ UNCHANGED <<row, event, last, index, off, torn>>
        /\ \/ row[does[c].s] # Nobody /\ does' = [does EXCEPT ![c] = r]
           \/ Store!Done(c)
    BY DEF Store!Name, Store!At, Store!tables, Store!ghosts
  <1>2. /\ row' \in [Sessions -> Store!Row \cup {Nobody}] /\ off' \subseteq Sessions
        /\ \A t \in Sessions : RowKept(t)
    BY <1>1 DEF StoreInv, StoreTyping, RowKept
  <1>3. does[c].pc \notin Busy /\ "nameput" \notin Busy /\ "nameput" \in Points /\ "nameput" \notin AtMessage
    BY <1>1 DEF Busy, AtEntry, Points, AtMessage
  <1>4. CASE Store!Done(c)
    BY <1>1, <1>2, <1>3, <1>4, Ends
  <1>5. CASE row[does[c].s] # Nobody /\ does' = [does EXCEPT ![c] = r]
    <2>1. does[c] \in Operation /\ does[c].s \in Sessions /\ does[c].id <= last /\ row[does[c].s] \in Store!Row \cup {Nobody}
      BY <1>1 DEF StoreInv, StoreTyping, WellFormed
    <2>2. q \in Operation /\ q.pc = "nameput" /\ q.s = does[c].s /\ q.id = does[c].id
      BY <1>3, <2>1, OperationGoes
    <2> HIDE DEF q
    <2>3. r \in Operation /\ r.pc = "nameput" /\ r.s = does[c].s /\ r.id = does[c].id /\ r.seen = row[does[c].s]
      BY <2>1, <2>2, OperationSees
    <2> HIDE DEF r
    <2> QED
      BY <1>1, <1>2, <1>3, <1>5, <2>1, <2>3, Aside
  <1> QED
    BY <1>1, <1>4, <1>5

\* A session is renamed, or its flags are set.
LEMMA Retitles ==
  ASSUME Store!StoreAssumption, StoreInv, NEW s \in Sessions, Store!Rename(s) \/ Store!Flag(s)
  PROVE  StoreInv'
  <1>1. row[s] \in Store!Row /\ UNCHANGED <<event, last, index, does, off, torn>>
    BY DEF StoreInv, StoreTyping, Store!Rename, Store!Flag, Store!ghosts
  <1>2. \E m \in Store!Row : m.count = row[s].count /\ row' = [row EXCEPT ![s] = m]
    <2>1. [row[s] EXCEPT !.name = "mine"] \in Store!Row /\ [row[s] EXCEPT !.name = "mine"].count = row[s].count
      BY <1>1 DEF Store!Row
    <2>2. \A b \in BOOLEAN : [row[s] EXCEPT !.archived = b] \in Store!Row /\ [row[s] EXCEPT !.archived = b].count = row[s].count
      BY <1>1 DEF Store!Row
    <2>3. CASE Store!Rename(s)
      BY <2>1, <2>3 DEF Store!Rename
    <2>4. CASE Store!Flag(s)
      BY <2>2, <2>4 DEF Store!Flag
    <2> QED
      BY <2>3, <2>4
  <1>3. Nobody \notin Store!Row
    BY DEF Store!StoreAssumption
  <1>4. row' \in [Sessions -> Store!Row \cup {Nobody}] /\ \A t \in Sessions : RowKept(t)
    BY <1>1, <1>2, <1>3 DEF StoreInv, StoreTyping, RowKept
  <1>5. \A d \in Clients : WellFormed(d)'
    BY <1>1 DEF StoreInv, StoreTyping, WellFormed
  <1> QED
    BY <1>1, <1>4, <1>5, Asides DEF StoreInv, StoreTyping

-----------------------------------------------------------------------------
\* Who writes an entry of the index, or clears one, is at its id.
LEMMA TouchedBy ==
  ASSUME NEW d \in Clients, NEW i \in Store!Ids
  PROVE  /\ WritesIndex(d, i) => i \in Store!Touched(d)
         /\ does[d].pc = "unindex" /\ ~does[d].many /\ does[d].id = i => i \in Store!Touched(d)
         /\ does[d].pc = "unindex" /\ does[d].many /\ i > does[d].id => i \in Store!Touched(d)
         /\ ClearsIndex(d, i) => i \in Store!Touched(d)
  BY DEF WritesIndex, ClearsIndex, Store!Touched, Store!At

\* A step at some ids tears those that others are at.
LEMMA Tears ==
  ASSUME torn \subseteq Store!Ids, NEW c \in Clients, NEW is \in SUBSET Store!Ids, Store!Tear(c, is)
  PROVE  /\ torn \subseteq torn' /\ torn' \subseteq Store!Ids
         /\ \A d \in Clients, i \in is : d # c /\ i \in Store!Touched(d) => i \in torn'
  BY DEF Store!Tear

\* One client goes on to another statement, with what it had.
LEMMA Goes ==
  ASSUME StoreTyping, NEW c \in Clients, NEW pc \in Points, Store!Go(c, pc)
  PROVE  /\ does' \in [Clients -> Operation] /\ \A d \in Clients : d # c => does'[d] = does[d]
         /\ does'[c].pc = pc /\ does'[c].s = does[c].s /\ does'[c].id = does[c].id
         /\ does'[c].todo = does[c].todo /\ does'[c].many = does[c].many /\ does'[c].seen = does[c].seen
  <1> DEFINE r == [does[c] EXCEPT !.pc = pc]
  <1>1. does' = [does EXCEPT ![c] = r] /\ does[c] \in Operation
    BY DEF Store!Go, StoreTyping
  <1>2. /\ r \in Operation /\ r.pc = pc /\ r.s = does[c].s /\ r.id = does[c].id /\ r.todo = does[c].todo
        /\ r.many = does[c].many /\ r.seen = does[c].seen
    BY <1>1, OperationGoes
  <1> HIDE DEF r
  <1> QED
    BY <1>1, <1>2, OperationChanges

\* One client has done.
LEMMA Dones ==
  ASSUME StoreTyping, NEW c \in Clients, Store!Done(c)
  PROVE  /\ does' \in [Clients -> Operation] /\ \A d \in Clients : d # c => does'[d] = does[d]
         /\ does'[c].pc = "idle" /\ does'[c].id = 0
  BY OperationIdle, OperationChanges DEF Store!Done

\* A count goes on while a client stays behind its events or before them.
LEMMA OneCountStays ==
  ASSUME NEW s \in Sessions, Counted(s), RowKept(s), NEW c \in Clients, Store!EventsOf(s)' = Store!EventsOf(s),
         \A d \in Clients : d # c => does'[d] = does[d],
         \/ does[c].s # s /\ (does'[c].s # s \/ does'[c].pc \notin Busy)
         \/ /\ does'[c].s = does[c].s
            /\ does'[c].pc \in {"index", "count"} <=> does[c].pc \in {"index", "count"}
            /\ does'[c].pc \in {"unindex", "recount"} <=> does[c].pc \in {"unindex", "recount"}
         \/ does[c].pc \in Points \ (Busy \ {"reindex"}) /\ does'[c].pc \in Points \ (Busy \ {"reindex"})
  PROVE  Counted(s)'
  <1>1. Store!Uncounted(s)' = Store!Uncounted(s)
    BY DEF Store!Uncounted, Busy, AtEntry
  <1>2. Store!Erasing(s)' = Store!Erasing(s)
    BY DEF Store!Erasing, Busy, AtEntry
  <1> QED
    BY <1>1, <1>2, CountStays

-----------------------------------------------------------------------------
\* A message is inserted, under an id nobody has been at.
LEMMA Inserts ==
  ASSUME Store!StoreAssumption, StoreInv, NEW c \in Clients, Store!Insert(c)
  PROVE  StoreInv'
  <1>0. PICK s, i : s = does[c].s /\ i = last + 1
    OBVIOUS
  <1> DEFINE e == [in |-> s, text |-> Head(does[c].todo)]
             q == [does[c] EXCEPT !.pc = "index"]
             r == [q EXCEPT !.id = i]
  <1>1. /\ does[c].pc = "insert" /\ UNCHANGED <<row, index, off>>
        /\ IF row[s] = Nobody THEN Store!Done(c) /\ UNCHANGED <<event, last, torn>>
           ELSE /\ last < MaxEvents /\ last' = i /\ Store!Tear(c, {i}) /\ event' = [event EXCEPT ![i] = e]
                /\ does' = [does EXCEPT ![c] = r]
    BY <1>0 DEF Store!Insert, Store!At
  <1>2. /\ s \in Sessions /\ does[c] \in Operation /\ does[c].todo \in Seq(Clients) /\ does[c].todo # <<>>
        /\ last \in Nat /\ torn \subseteq Store!Ids
    BY <1>0, <1>1 DEF StoreInv, StoreTyping, WellFormed, AtMessage, Operation
  <1>3. \A t \in Sessions : RowKept(t)
    BY <1>1 DEF RowKept
  <1>4. CASE row[s] = Nobody
    BY <1>0, <1>1, <1>3, <1>4, Ends DEF StoreInv, StoreTyping, Busy, AtEntry
  <1>5. CASE row[s] # Nobody
    <2>1. i \in Store!Ids /\ i \in Nat /\ i > last /\ last' = i /\ e \in Store!Event /\ e # Nobody /\ e.in = s
      BY <1>0, <1>1, <1>2, <1>5 DEF Store!Ids, Store!StoreAssumption, Store!Event
    <2>2. event[i] = Nobody /\ index[i] = Nobody
      BY <2>1 DEF StoreInv, IndexKept, Unused
    <2>3. q \in Operation /\ q.pc = "index" /\ q.s = s /\ q.todo = does[c].todo
      BY <1>0, <1>2, OperationGoes DEF Points, AtMessage
    <2> HIDE DEF q
    <2>4. r \in Operation /\ r.pc = "index" /\ r.s = s /\ r.id = i /\ r.todo = does[c].todo
      BY <2>1, <2>3, OperationIsAt
    <2> HIDE DEF r
    <2>5. /\ does' \in [Clients -> Operation] /\ does'[c] = r
          /\ \A d \in Clients : d # c => does'[d] = does[d]
      BY <1>1, <1>5, <2>4, OperationChanges DEF StoreInv
    <2>6. /\ event' \in [Store!Ids -> Store!Event \cup {Nobody}] /\ event'[i] = e
          /\ \A j \in Store!Ids : j # i => event'[j] = event[j]
      BY <1>1, <1>5, <2>1 DEF StoreInv, StoreTyping
    <2>7. Store!Tear(c, {i}) /\ {i} \subseteq Store!Ids
      BY <1>1, <1>5, <2>1
    <2>8. /\ torn \subseteq torn' /\ torn' \subseteq Store!Ids
          /\ \A d \in Clients : d # c /\ i \in Store!Touched(d) => i \in torn'
      BY <1>2, <2>7, Tears
    <2>9. does'[c].todo = does[c].todo /\ does'[c].s = s /\ does'[c].pc = "index" /\ does'[c].id = i
      BY <2>4, <2>5
    <2>10. \A d \in Clients : does[d].id <= last /\ does[d].id \in Nat
      BY DEF StoreInv, StoreTyping, WellFormed, Operation
    <2>11. StoreTyping'
      <3>1. \A d \in Clients : WellFormed(d)'
        <4>1. WellFormed(c)'
          BY <1>2, <2>1, <2>9 DEF WellFormed, AtEntry, AtMessage
        <4>2. ASSUME NEW d \in Clients, d # c PROVE WellFormed(d)'
          BY <1>2, <2>1, <2>5, <2>10, <4>2 DEF StoreInv, StoreTyping, WellFormed
        <4> QED
          BY <4>1, <4>2
      <3> QED
        BY <1>1, <2>1, <2>5, <2>6, <2>8, <3>1 DEF StoreInv, StoreTyping
    <2>12. ASSUME NEW t \in Sessions PROVE Counted(t)'
      <3>1. CASE t # s
        <4>1. Store!EventsOf(t)' = Store!EventsOf(t)
          BY <2>1, <2>2, <2>6, <3>1 DEF Store!EventsOf
        <4> QED
          BY <1>0, <1>3, <2>5, <2>9, <3>1, <4>1, OneCountStays DEF StoreInv
      <3>2. CASE t = s
        <4>1. Store!EventsOf(s)' = Store!EventsOf(s) \cup {i} /\ i \notin Store!EventsOf(s)
          BY <2>1, <2>2, <2>6 DEF Store!EventsOf
        <4>2. Store!Uncounted(s)' = Store!Uncounted(s) \cup {c} /\ c \notin Store!Uncounted(s)
          BY <1>0, <1>1, <2>5, <2>9 DEF Store!Uncounted
        <4>3. Store!Erasing(s)' = Store!Erasing(s)
          BY <1>1, <2>5, <2>9 DEF Store!Erasing
        <4>4. Counted(s)
          BY <1>2 DEF StoreInv
        <4> DEFINE U == Store!Uncounted(s)
                   E == Store!EventsOf(s)
        <4>5. IsFiniteSet(U) /\ IsFiniteSet(E)
          BY <4>4, EventsAreFinite DEF Counted, Store!EventsOf
        <4> HIDE DEF U, E
        <4>6. /\ IsFiniteSet(U \cup {c}) /\ IsFiniteSet(E \cup {i})
              /\ Cardinality(U) \in Nat /\ Cardinality(E) \in Nat
          BY <4>5, FS_AddElement, FS_CardinalityType
        <4>7. c \notin U /\ i \notin E
          BY <4>1, <4>2 DEF U, E
        <4>8. Cardinality(U \cup {c}) = Cardinality(U) + 1 /\ Cardinality(E \cup {i}) = Cardinality(E) + 1
          BY <4>5, <4>7, FS_AddElement
        <4>9. row[s].count \in Nat
          BY <1>2, <1>5 DEF StoreInv, StoreTyping, Store!Row
        <4>10. Store!Uncounted(s)' = U \cup {c} /\ Store!EventsOf(s)' = E \cup {i}
          BY <4>1, <4>2 DEF U, E
        <4>11. s \notin off /\ Store!Erasing(s) = {} => row[s].count + Cardinality(U) = Cardinality(E)
          BY <1>5, <4>4 DEF Counted, U, E
        <4> QED
          BY <1>1, <1>5, <2>9, <3>2, <4>3, <4>6, <4>8, <4>9, <4>10, <4>11 DEF Counted
      <3> QED
        BY <3>1, <3>2
    <2>13. IndexKept'
      <3>1. Unused'
        <4>1. ASSUME NEW j \in Store!Ids, j > last' PROVE event'[j] = Nobody /\ index'[j] = Nobody
          <5>1. j > last /\ j # i /\ j \in Nat
            BY <1>2, <2>1, <4>1 DEF Store!Ids
          <5> QED
            BY <1>1, <2>6, <5>1 DEF StoreInv, IndexKept, Unused
        <4> QED
          BY <4>1 DEF Unused
      <3>2. \A d \in Clients, j \in Store!Ids : j # i => (WritesIndex(d, j)' <=> WritesIndex(d, j))
        BY <1>1, <2>5, <2>9 DEF WritesIndex
      <3>3. \A d \in Clients : WritesIndex(d, i)' <=> d = c
        BY <1>2, <2>1, <2>5, <2>9, <2>10 DEF WritesIndex
      <3>4. \A d \in Clients, j \in Store!Ids : ClearsIndex(d, j)' <=> ClearsIndex(d, j)
        BY <1>1, <2>5, <2>9 DEF ClearsIndex
      <3>5. ASSUME NEW j \in Store!Ids PROVE Truthful(j)'
        <4>1. CASE j = i
          BY <3>3, <4>1 DEF Truthful
        <4>2. CASE j # i
          BY <1>1, <2>6, <2>8, <3>2, <3>4, <4>2 DEF StoreInv, IndexKept, Truthful
        <4> QED
          BY <4>1, <4>2
      <3>6. ASSUME NEW j \in Store!Ids, NEW d \in Clients PROVE Indexed(d, j)'
        <4>1. CASE d = c
          <5>1. event'[i] = [in |-> does'[c].s, text |-> Head(does'[c].todo)] /\ index'[i] = Nobody
            BY <1>1, <1>5, <2>2, <2>6, <2>9
          <5> QED
            BY <2>9, <4>1, <5>1 DEF Indexed
        <4>2. CASE d # c /\ j # i
          <5>1. /\ does'[d] = does[d] /\ event'[j] = event[j] /\ index'[j] = index[j]
                /\ (j \in torn => j \in torn') /\ Indexed(d, j)
            BY <1>1, <2>5, <2>6, <2>8, <4>2 DEF StoreInv, IndexKept
          <5> QED
            BY <5>1 DEF Indexed
        <4>3. CASE d # c /\ j = i
          <5>1. does'[d] = does[d] /\ does[d].id # i
            BY <1>2, <2>1, <2>5, <2>10, <4>3
          <5>2. does[d].pc = "unindex" /\ does[d].many /\ i > does[d].id => i \in torn'
            BY <2>1, <2>8, <4>3, TouchedBy
          <5> QED
            BY <4>3, <5>1, <5>2 DEF Indexed
        <4> QED
          BY <4>1, <4>2, <4>3
      <3>7. Alone'
        BY <2>8, <3>2, <3>3 DEF StoreInv, IndexKept, Alone
      <3> QED
        BY <3>1, <3>5, <3>6, <3>7 DEF IndexKept
    <2> QED
      BY <2>11, <2>12, <2>13 DEF StoreInv
  <1> QED
    BY <1>4, <1>5

\* The index gets the message that was inserted.
LEMMA Indexes ==
  ASSUME StoreInv, NEW c \in Clients, Store!Index(c)
  PROVE  StoreInv'
  <1> DEFINE i == does[c].id
             e == [in |-> does[c].s, text |-> Head(does[c].todo)]
  <1>1. /\ does[c].pc = "index" /\ Store!Go(c, "count") /\ index' = [index EXCEPT ![i] = e]
        /\ UNCHANGED <<row, event, last, off, torn>>
    BY DEF Store!Index, Store!At, Store!ghosts
  <1>2. /\ does[c].s \in Sessions /\ does[c].todo \in Seq(Clients) /\ does[c].todo # <<>>
        /\ i \in Store!Ids /\ i <= last /\ i \in Nat /\ last \in Nat
    BY <1>1 DEF StoreInv, StoreTyping, WellFormed, AtMessage, AtEntry, Operation
  <1>3. "count" \in Points
    BY DEF Points, AtMessage
  <1>4. /\ does' \in [Clients -> Operation] /\ \A d \in Clients : d # c => does'[d] = does[d]
        /\ does'[c].pc = "count" /\ does'[c].s = does[c].s /\ does'[c].id = i /\ does'[c].todo = does[c].todo
    BY <1>1, <1>3, Goes DEF StoreInv
  <1>5. e \in Store!Event
    BY <1>2 DEF Store!Event
  <1>6. /\ index' \in [Store!Ids -> Store!Event \cup {Nobody}] /\ index'[i] = e
        /\ \A j \in Store!Ids : j # i => index'[j] = index[j]
    BY <1>1, <1>2, <1>5 DEF StoreInv, StoreTyping
  <1>7. StoreTyping'
    <2>1. \A d \in Clients : WellFormed(d)'
      BY <1>1, <1>2, <1>4 DEF StoreInv, StoreTyping, WellFormed, AtEntry
    <2> QED
      BY <1>1, <1>4, <1>6, <2>1 DEF StoreInv, StoreTyping
  <1>8. ASSUME NEW t \in Sessions PROVE Counted(t)'
    <2>1. RowKept(t) /\ Store!EventsOf(t)' = Store!EventsOf(t)
      BY <1>1 DEF RowKept, Store!EventsOf
    <2> QED
      BY <1>1, <1>4, <2>1, OneCountStays DEF StoreInv
  <1>9. IndexKept'
    <2>1. Unused'
      BY <1>1, <1>2, <1>6 DEF StoreInv, IndexKept, Unused
    <2>2. \A d \in Clients, j \in Store!Ids : WritesIndex(d, j)' <=> d # c /\ WritesIndex(d, j)
      BY <1>4 DEF WritesIndex
    <2>3. \A d \in Clients, j \in Store!Ids : j # i => (ClearsIndex(d, j)' <=> ClearsIndex(d, j))
      BY <1>1, <1>4, <1>6 DEF ClearsIndex
    <2>4. WritesIndex(c, i) /\ \A j \in Store!Ids : WritesIndex(c, j) => j = i
      BY <1>1 DEF WritesIndex
    <2>5. ASSUME NEW j \in Store!Ids PROVE Truthful(j)'
      <3>1. CASE j = i
        BY <1>1, <1>6, <3>1 DEF StoreInv, IndexKept, Indexed, Truthful
      <3>2. CASE j # i
        BY <1>1, <1>6, <2>2, <2>3, <2>4, <3>2 DEF StoreInv, IndexKept, Truthful
      <3> QED
        BY <3>1, <3>2
    <2>6. ASSUME NEW j \in Store!Ids, NEW d \in Clients PROVE Indexed(d, j)'
      <3>1. CASE d = c
        BY <1>4, <3>1 DEF Indexed
      <3>2. CASE d # c /\ j # i
        BY <1>1, <1>4, <1>6, <3>2 DEF StoreInv, IndexKept, Indexed
      <3>3. CASE d # c /\ j = i
        <4>1. WritesIndex(d, i) => i \in torn
          BY <1>2, <2>4, <3>3 DEF StoreInv, IndexKept, Alone
        <4> QED
          BY <1>1, <1>4, <3>3, <4>1 DEF StoreInv, IndexKept, Indexed, WritesIndex
      <3> QED
        BY <3>1, <3>2, <3>3
    <2>7. Alone'
      BY <1>1, <2>2 DEF StoreInv, IndexKept, Alone
    <2> QED
      BY <2>1, <2>5, <2>6, <2>7 DEF IndexKept
  <1> QED
    BY <1>7, <1>8, <1>9 DEF StoreInv

\* A message that is indexed is counted.
LEMMA Counts ==
  ASSUME Store!StoreAssumption, StoreInv, NEW c \in Clients, Store!Count(c)
  PROVE  StoreInv'
  <1>0. PICK s : s = does[c].s
    OBVIOUS
  <1> DEFINE m == [row[s] EXCEPT !.count = row[s].count + 1]
             q == [does[c] EXCEPT !.pc = "insert"]
             r == [q EXCEPT !.todo = Tail(does[c].todo)]
  <1>1. /\ does[c].pc = "count" /\ UNCHANGED <<event, last, index, off, torn>>
        /\ row' = IF row[s] = Nobody THEN row ELSE [row EXCEPT ![s] = m]
        /\ \/ Store!Go(c, "name") \/ Store!Done(c)
           \/ Len(does[c].todo) # 1 /\ does' = [does EXCEPT ![c] = r]
    BY <1>0 DEF Store!Count, Store!At, Store!ghosts
  <1>2. /\ s \in Sessions /\ does[c] \in Operation /\ does[c].todo \in Seq(Clients) /\ does[c].todo # <<>>
        /\ does[c].id <= last /\ last \in Nat
    BY <1>0, <1>1 DEF StoreInv, StoreTyping, WellFormed, AtMessage, Operation
  <1>3. /\ does' \in [Clients -> Operation] /\ \A d \in Clients : d # c => does'[d] = does[d]
        /\ does'[c].pc \in {"name", "idle", "insert"} /\ does'[c].id <= last /\ WellFormed(c)'
    <2>1. CASE Store!Go(c, "name")
      <3>1. "name" \in Points
        BY DEF Points
      <3>2. /\ does' \in [Clients -> Operation] /\ \A d \in Clients : d # c => does'[d] = does[d]
            /\ does'[c].pc = "name" /\ does'[c].id = does[c].id /\ does'[c].s = s
        BY <1>0, <2>1, <3>1, Goes DEF StoreInv
      <3> QED
        BY <1>1, <1>2, <3>2 DEF WellFormed, AtMessage, AtEntry
    <2>2. CASE Store!Done(c)
      <3>1. /\ does' \in [Clients -> Operation] /\ \A d \in Clients : d # c => does'[d] = does[d]
            /\ does'[c].pc = "idle" /\ does'[c].id = 0
        BY <2>2, Dones DEF StoreInv
      <3> QED
        BY <1>1, <1>2, <3>1 DEF WellFormed, AtMessage, AtEntry
    <2>3. CASE Len(does[c].todo) # 1 /\ does' = [does EXCEPT ![c] = r]
      <3>1. Tail(does[c].todo) \in Seq(Clients) /\ Tail(does[c].todo) # <<>>
        <4>1. PICK t \in Seq(Clients) : t = does[c].todo /\ t # <<>> /\ Len(t) # 1
          BY <1>2, <2>3
        <4>2. Len(t) \in Nat /\ Len(t) # 0
          BY <4>1
        <4>3. Tail(t) \in Seq(Clients) /\ Len(Tail(t)) = Len(t) - 1
          BY <4>1, <4>2
        <4>4. Len(Tail(t)) # 0
          BY <4>1, <4>2, <4>3
        <4> QED
          BY <4>1, <4>3, <4>4
      <3>2. q \in Operation /\ q.pc = "insert" /\ q.s = s /\ q.id = does[c].id
        BY <1>0, <1>2, OperationGoes DEF Points, AtMessage
      <3> HIDE DEF q
      <3>3. r \in Operation /\ r.pc = "insert" /\ r.s = s /\ r.id = does[c].id /\ r.todo = Tail(does[c].todo)
        BY <3>1, <3>2, OperationHas
      <3> HIDE DEF r
      <3>4. does' \in [Clients -> Operation] /\ does'[c] = r /\ \A d \in Clients : d # c => does'[d] = does[d]
        BY <2>3, <3>3, OperationChanges DEF StoreInv
      <3> QED
        BY <1>1, <1>2, <3>1, <3>3, <3>4 DEF WellFormed, AtMessage, AtEntry
    <2> QED
      BY <1>1, <2>1, <2>2, <2>3
  <1>4. row[s] # Nobody => m \in Store!Row /\ m.count = row[s].count + 1 /\ row[s].count \in Nat
    BY <1>2 DEF StoreInv, StoreTyping, Store!Row
  <1> HIDE DEF m
  <1>5. /\ row' \in [Sessions -> Store!Row \cup {Nobody}]
        /\ \A t \in Sessions : t # s => row'[t] = row[t]
        /\ row'[s] = IF row[s] = Nobody THEN Nobody ELSE m
    BY <1>1, <1>2, <1>4 DEF StoreInv, StoreTyping
  <1>6. StoreTyping'
    <2>1. \A d \in Clients : WellFormed(d)'
      BY <1>1, <1>3 DEF StoreInv, StoreTyping, WellFormed
    <2> QED
      BY <1>1, <1>3, <1>5, <2>1 DEF StoreInv, StoreTyping
  <1>7. ASSUME NEW t \in Sessions PROVE Counted(t)'
    <2>1. Store!EventsOf(t)' = Store!EventsOf(t)
      BY <1>1 DEF Store!EventsOf
    <2>2. Store!Erasing(t)' = Store!Erasing(t)
      BY <1>1, <1>3 DEF Store!Erasing
    <2>3. CASE t # s
      <3>1. Store!Uncounted(t)' = Store!Uncounted(t)
        BY <1>0, <1>1, <1>3, <2>3 DEF Store!Uncounted
      <3> QED
        BY <1>1, <1>5, <2>1, <2>2, <2>3, <3>1, CountStays DEF StoreInv, RowKept
    <2>4. CASE t = s
      <3> DEFINE U == Store!Uncounted(s)
      <3>1. Store!Uncounted(s)' = U \ {c} /\ c \in U
        BY <1>0, <1>1, <1>3 DEF Store!Uncounted
      <3>2. IsFiniteSet(U) /\ Counted(s)
        BY <1>2 DEF StoreInv, Counted
      <3>3. s \notin off /\ row[s] # Nobody /\ Store!Erasing(s) = {} =>
               row[s].count + Cardinality(U) = Cardinality(Store!EventsOf(s))
        BY <3>2 DEF Counted
      <3>4. row[s] = Nobody => Store!EventsOf(s) = {} /\ s \in off
        BY <3>1, <3>2 DEF Counted
      <3> HIDE DEF U
      <3>5. IsFiniteSet(U \ {c}) /\ Cardinality(U \ {c}) = Cardinality(U) - 1 /\ Cardinality(U) \in Nat
        BY <3>1, <3>2, FS_RemoveElement, FS_CardinalityType
      <3>6. CASE row[s] = Nobody
        BY <1>1, <1>5, <2>1, <2>4, <3>1, <3>4, <3>5, <3>6 DEF Counted
      <3>7. CASE row[s] # Nobody
        <4>1. Nobody \notin Store!Row
          BY DEF Store!StoreAssumption
        <4>2. row'[s] # Nobody /\ row'[s].count = row[s].count + 1 /\ row[s].count \in Nat
          BY <1>4, <1>5, <3>7, <4>1
        <4>3. s \notin off /\ Store!Erasing(s) = {} =>
                 row'[s].count + Cardinality(U \ {c}) = Cardinality(Store!EventsOf(s))
          BY <3>3, <3>5, <3>7, <4>2
        <4> QED
          BY <1>1, <2>1, <2>2, <2>4, <3>1, <3>5, <4>2, <4>3 DEF Counted
      <3> QED
        BY <3>6, <3>7
    <2> QED
      BY <2>3, <2>4
  <1>8. IndexKept'
    BY <1>1, <1>3, IndexStays DEF StoreInv, AtEntry
  <1> QED
    BY <1>6, <1>7, <1>8 DEF StoreInv

\* A message is edited, if it is there.
LEMMA EditsMessage ==
  ASSUME Store!StoreAssumption, StoreInv, NEW c \in Clients, Store!Edit(c)
  PROVE  StoreInv'
  <1>0. PICK i : i = does[c].id
    OBVIOUS
  <1> DEFINE e == [event[i] EXCEPT !.text = c]
  <1>1. /\ does[c].pc = "edit" /\ UNCHANGED <<row, last, index, off>>
        /\ IF event[i] = Nobody THEN Store!Done(c) /\ UNCHANGED <<event, torn>>
           ELSE event' = [event EXCEPT ![i] = e] /\ Store!Go(c, "reindex") /\ Store!Tear(c, {i})
    BY <1>0 DEF Store!Edit, Store!At
  <1>2. i \in Store!Ids /\ i <= last /\ i \in Nat /\ last \in Nat /\ torn \subseteq Store!Ids
    BY <1>0, <1>1 DEF StoreInv, StoreTyping, WellFormed, Operation
  <1>3. \A t \in Sessions : RowKept(t)
    BY <1>1 DEF RowKept
  <1>4. CASE event[i] = Nobody
    BY <1>1, <1>3, <1>4, Ends DEF StoreInv, StoreTyping, Busy, AtEntry
  <1>5. CASE event[i] # Nobody
    <2>1. event[i] \in Store!Event /\ e \in Store!Event /\ e # Nobody /\ e.in = event[i].in /\ e.text = c
      BY <1>2, <1>5 DEF StoreInv, StoreTyping, Store!Event, Store!StoreAssumption
    <2> HIDE DEF e
    <2>2. /\ event' \in [Store!Ids -> Store!Event \cup {Nobody}] /\ event'[i] = e
          /\ \A j \in Store!Ids : j # i => event'[j] = event[j]
      BY <1>1, <1>2, <1>5, <2>1 DEF StoreInv, StoreTyping
    <2>3. "reindex" \in Points /\ Store!Tear(c, {i}) /\ {i} \subseteq Store!Ids
      BY <1>1, <1>2, <1>5 DEF Points
    <2>4. /\ does' \in [Clients -> Operation] /\ \A d \in Clients : d # c => does'[d] = does[d]
          /\ does'[c].pc = "reindex" /\ does'[c].s = does[c].s /\ does'[c].id = i
      BY <1>0, <1>1, <1>5, <2>3, Goes DEF StoreInv
    <2>5. /\ torn \subseteq torn' /\ torn' \subseteq Store!Ids
          /\ \A d \in Clients : d # c /\ i \in Store!Touched(d) => i \in torn'
      BY <1>2, <2>3, Tears
    <2>6. StoreTyping'
      <3>1. \A d \in Clients : WellFormed(d)'
        BY <1>1, <1>2, <2>4 DEF StoreInv, StoreTyping, WellFormed, AtEntry, AtMessage
      <3> QED
        BY <1>1, <2>2, <2>4, <2>5, <3>1 DEF StoreInv, StoreTyping
    <2>7. ASSUME NEW t \in Sessions PROVE Counted(t)'
      <3>1. Store!EventsOf(t)' = Store!EventsOf(t)
        BY <1>5, <2>1, <2>2 DEF Store!EventsOf
      <3> QED
        BY <1>1, <1>3, <2>4, <3>1, OneCountStays DEF StoreInv
    <2>8. IndexKept'
      <3>1. Unused'
        BY <1>1, <1>2, <2>2 DEF StoreInv, IndexKept, Unused
      <3>2. \A d \in Clients, j \in Store!Ids : WritesIndex(d, j)' <=> (d = c /\ j = i) \/ WritesIndex(d, j)
        BY <1>1, <2>4 DEF WritesIndex
      <3>3. \A d \in Clients, j \in Store!Ids : ClearsIndex(d, j)' <=> ClearsIndex(d, j)
        BY <1>1, <2>4 DEF ClearsIndex
      <3>4. \A j \in Store!Ids : ~WritesIndex(c, j)
        BY <1>1 DEF WritesIndex
      <3>5. \A d \in Clients : WritesIndex(d, i) => i \in torn'
        BY <1>2, <2>5, <3>4, TouchedBy
      <3>6. ASSUME NEW j \in Store!Ids PROVE Truthful(j)'
        <4>1. CASE j = i
          BY <3>2, <4>1 DEF Truthful
        <4>2. CASE j # i
          BY <1>1, <2>2, <2>5, <3>2, <3>3, <4>2 DEF StoreInv, IndexKept, Truthful
        <4> QED
          BY <4>1, <4>2
      <3>7. ASSUME NEW j \in Store!Ids, NEW d \in Clients PROVE Indexed(d, j)'
        <4>1. CASE d = c
          <5>1. i \notin torn' => index[i] = event[i]
            BY <1>2, <1>5, <2>5, <3>5 DEF StoreInv, IndexKept, Truthful
          <5> QED
            BY <1>1, <1>5, <2>1, <2>2, <2>4, <4>1, <5>1 DEF Indexed
        <4>2. CASE d # c /\ j # i
          <5>1. /\ does'[d] = does[d] /\ event'[j] = event[j] /\ index'[j] = index[j]
                /\ (j \in torn => j \in torn') /\ Indexed(d, j)
            BY <1>1, <2>2, <2>4, <2>5, <4>2 DEF StoreInv, IndexKept
          <5> QED
            BY <5>1 DEF Indexed
        <4>3. CASE d # c /\ j = i
          <5>1. does'[d] = does[d] /\ (does[d].pc \in {"index", "reindex"} /\ does[d].id = i => i \in torn')
            BY <2>4, <3>5, <4>3 DEF WritesIndex
          <5>2. Indexed(d, i)
            BY <1>2 DEF StoreInv, IndexKept
          <5> QED
            BY <1>5, <2>1, <2>2, <2>5, <4>3, <5>1, <5>2 DEF Indexed
        <4> QED
          BY <4>1, <4>2, <4>3
      <3>8. Alone'
        BY <2>5, <3>2, <3>4, <3>5 DEF StoreInv, IndexKept, Alone
      <3> QED
        BY <3>1, <3>6, <3>7, <3>8 DEF IndexKept
    <2> QED
      BY <2>6, <2>7, <2>8 DEF StoreInv
  <1> QED
    BY <1>4, <1>5

\* The index gets the text of a message that was edited.
LEMMA Reindexes ==
  ASSUME Store!StoreAssumption, StoreInv, NEW c \in Clients, Store!Reindex(c)
  PROVE  StoreInv'
  <1>0. PICK i : i = does[c].id
    OBVIOUS
  <1> DEFINE e == [index[i] EXCEPT !.text = c]
  <1>1. /\ does[c].pc = "reindex" /\ Store!Done(c) /\ UNCHANGED <<row, event, last, off, torn>>
        /\ index' = [index EXCEPT ![i] = IF index[i] = Nobody THEN Nobody ELSE e]
    BY <1>0 DEF Store!Reindex, Store!At, Store!ghosts
  <1>2. i \in Store!Ids /\ i <= last /\ i \in Nat /\ last \in Nat
    BY <1>0, <1>1 DEF StoreInv, StoreTyping, WellFormed, AtEntry, Operation
  <1>3. /\ does' \in [Clients -> Operation] /\ \A d \in Clients : d # c => does'[d] = does[d]
        /\ does'[c].pc = "idle" /\ does'[c].id = 0
    BY <1>1, Dones DEF StoreInv
  <1>4. index[i] # Nobody => index[i] \in Store!Event /\ e \in Store!Event /\ e = [in |-> index[i].in, text |-> c]
    BY <1>2 DEF StoreInv, StoreTyping, Store!Event
  <1> HIDE DEF e
  <1>5. /\ index' \in [Store!Ids -> Store!Event \cup {Nobody}]
        /\ index'[i] = IF index[i] = Nobody THEN Nobody ELSE e
        /\ \A j \in Store!Ids : j # i => index'[j] = index[j]
    BY <1>1, <1>2, <1>4 DEF StoreInv, StoreTyping
  <1>6. StoreTyping'
    <2>1. \A d \in Clients : WellFormed(d)'
      BY <1>1, <1>2, <1>3 DEF StoreInv, StoreTyping, WellFormed, AtMessage, AtEntry
    <2> QED
      BY <1>1, <1>3, <1>5, <2>1 DEF StoreInv, StoreTyping
  <1>7. ASSUME NEW t \in Sessions PROVE Counted(t)'
    <2>1. RowKept(t) /\ Store!EventsOf(t)' = Store!EventsOf(t)
      BY <1>1 DEF RowKept, Store!EventsOf
    <2> QED
      BY <1>1, <1>3, <2>1, OneCountStays DEF StoreInv, Points, AtMessage, Busy, AtEntry
  <1>8. IndexKept'
    <2>1. Unused'
      BY <1>1, <1>2, <1>5 DEF StoreInv, IndexKept, Unused
    <2>2. \A d \in Clients, j \in Store!Ids : WritesIndex(d, j)' <=> d # c /\ WritesIndex(d, j)
      BY <1>3 DEF WritesIndex
    <2>3. \A d \in Clients, j \in Store!Ids : j # i => (ClearsIndex(d, j)' <=> ClearsIndex(d, j))
      BY <1>1, <1>3, <1>5 DEF ClearsIndex
    <2>4. WritesIndex(c, i) /\ \A j \in Store!Ids : WritesIndex(c, j) => j = i
      BY <1>0, <1>1 DEF WritesIndex
    <2>5. i \notin torn => index'[i] = event'[i]
      <3>1. i \notin torn => event[i] # Nobody /\ index[i] # Nobody /\ event[i].text = c /\ index[i].in = event[i].in
        BY <1>0, <1>1, <1>2 DEF StoreInv, IndexKept, Indexed
      <3>2. event[i] # Nobody => event[i] = [in |-> event[i].in, text |-> event[i].text]
        BY <1>2 DEF StoreInv, StoreTyping, Store!Event
      <3> QED
        BY <1>1, <1>4, <1>5, <3>1, <3>2
    <2>6. ASSUME NEW j \in Store!Ids PROVE Truthful(j)'
      <3>1. CASE j = i
        BY <1>1, <2>5, <3>1 DEF Truthful
      <3>2. CASE j # i
        BY <1>1, <1>5, <2>2, <2>3, <2>4, <3>2 DEF StoreInv, IndexKept, Truthful
      <3> QED
        BY <3>1, <3>2
    <2>7. ASSUME NEW j \in Store!Ids, NEW d \in Clients PROVE Indexed(d, j)'
      <3>1. CASE d = c
        BY <1>3, <3>1 DEF Indexed
      <3>2. CASE d # c /\ j # i
        BY <1>1, <1>3, <1>5, <3>2 DEF StoreInv, IndexKept, Indexed
      <3>3. CASE d # c /\ j = i
        <4>1. WritesIndex(d, i) => i \in torn
          BY <1>2, <2>4, <3>3 DEF StoreInv, IndexKept, Alone
        <4> QED
          BY <1>1, <1>3, <3>3, <4>1 DEF StoreInv, IndexKept, Indexed, WritesIndex
      <3> QED
        BY <3>1, <3>2, <3>3
    <2>8. Alone'
      BY <1>1, <2>2 DEF StoreInv, IndexKept, Alone
    <2> QED
      BY <2>1, <2>6, <2>7, <2>8 DEF IndexKept
  <1> QED
    BY <1>6, <1>7, <1>8 DEF StoreInv

\* Messages are erased, of the session or of another.
LEMMA Erases ==
  ASSUME Store!StoreAssumption, StoreInv, NEW c \in Clients, Store!Erase(c)
  PROVE  StoreInv'
  <1>0. PICK s, i, many, gone :
           /\ s = does[c].s /\ i = does[c].id /\ many = does[c].many
           /\ gone = IF many THEN {j \in Store!EventsOf(s) : j > i} ELSE {j \in {i} : event[j] # Nobody}
    OBVIOUS
  <1>1. /\ does[c].pc = "erase" /\ Store!Go(c, "unindex") /\ Store!Tear(c, gone) /\ UNCHANGED <<row, last, index>>
        /\ event' = [j \in Store!Ids |-> IF j \in gone THEN Nobody ELSE event[j]]
        /\ off' = off \cup ({event[j].in : j \in gone} \ {s})
    BY <1>0 DEF Store!Erase, Store!At
  <1>2. /\ s \in Sessions /\ i \in Store!Ids /\ i <= last /\ i \in Nat /\ last \in Nat /\ torn \subseteq Store!Ids
        /\ many \in BOOLEAN /\ off \subseteq Sessions
    BY <1>0, <1>1 DEF StoreInv, StoreTyping, WellFormed, Operation, AtMessage
  <1>3. /\ gone \subseteq Store!Ids /\ \A j \in gone : event[j] # Nobody /\ event[j] \in Store!Event /\ event[j].in \in Sessions
        /\ \A j \in gone : IF many THEN j > i /\ event[j].in = s ELSE j = i
    BY <1>0, <1>2 DEF StoreInv, StoreTyping, Store!EventsOf, Store!Event
  <1>4. "unindex" \in Points
    BY DEF Points
  <1>5. /\ does' \in [Clients -> Operation] /\ \A d \in Clients : d # c => does'[d] = does[d]
        /\ does'[c].pc = "unindex" /\ does'[c].s = s /\ does'[c].id = i /\ does'[c].many = many
    BY <1>0, <1>1, <1>4, Goes DEF StoreInv
  <1>6. /\ torn \subseteq torn' /\ torn' \subseteq Store!Ids
        /\ \A d \in Clients, j \in gone : d # c /\ j \in Store!Touched(d) => j \in torn'
    BY <1>1, <1>2, <1>3, Tears
  <1>7. /\ event' \in [Store!Ids -> Store!Event \cup {Nobody}]
        /\ \A j \in Store!Ids : event'[j] = IF j \in gone THEN Nobody ELSE event[j]
    BY <1>1 DEF StoreInv, StoreTyping
  <1>8. off \subseteq off' /\ off' \subseteq Sessions /\ \A j \in gone : event[j].in # s => event[j].in \in off'
    BY <1>1, <1>2, <1>3
  <1>9. StoreTyping'
    <2>1. \A d \in Clients : WellFormed(d)'
      BY <1>1, <1>2, <1>5 DEF StoreInv, StoreTyping, WellFormed, AtMessage
    <2> QED
      BY <1>1, <1>5, <1>6, <1>7, <1>8, <2>1 DEF StoreInv, StoreTyping
  <1>10. ASSUME NEW t \in Sessions PROVE Counted(t)'
    <2>1. RowKept(t)
      BY <1>1, <1>8 DEF RowKept
    <2>2. Store!EventsOf(t)' \subseteq Store!EventsOf(t)
      BY <1>7 DEF Store!EventsOf
    <2>3. Store!Uncounted(t)' = Store!Uncounted(t)
      BY <1>1, <1>5 DEF Store!Uncounted
    <2>4. Counted(t)
      BY DEF StoreInv
    <2>5. CASE t = s
      <3>1. c \in Store!Erasing(t)'
        BY <1>5, <2>5 DEF Store!Erasing
      <3> QED
        BY <1>1, <1>8, <2>2, <2>3, <2>4, <3>1 DEF Counted
    <2>6. CASE t # s /\ t \in off'
      BY <1>1, <2>2, <2>3, <2>4, <2>6 DEF Counted
    <2>7. CASE t # s /\ t \notin off'
      <3>1. Store!EventsOf(t)' = Store!EventsOf(t)
        BY <1>7, <1>8, <2>7 DEF Store!EventsOf
      <3>2. Store!Erasing(t)' = Store!Erasing(t)
        BY <1>0, <1>5, <2>7 DEF Store!Erasing
      <3> QED
        BY <2>1, <2>3, <2>4, <3>1, <3>2, CountStays
    <2> QED
      BY <2>5, <2>6, <2>7
  <1>11. IndexKept'
    <2>1. Unused'
      BY <1>1, <1>7 DEF StoreInv, IndexKept, Unused
    <2>2. \A d \in Clients, j \in Store!Ids : WritesIndex(d, j)' <=> WritesIndex(d, j)
      BY <1>1, <1>5 DEF WritesIndex
    <2>3. \A d \in Clients, j \in Store!Ids : ClearsIndex(d, j) => ClearsIndex(d, j)'
      BY <1>1, <1>5 DEF ClearsIndex
    <2>4. \A d \in Clients, j \in gone : WritesIndex(d, j) => j \in torn'
      <3>1. \A j \in Store!Ids : ~WritesIndex(c, j)
        BY <1>1 DEF WritesIndex
      <3> QED
        BY <1>3, <1>6, <3>1, TouchedBy
    <2>5. ASSUME NEW j \in Store!Ids PROVE Truthful(j)'
      <3>1. CASE j \notin gone
        BY <1>1, <1>6, <1>7, <2>2, <2>3, <3>1 DEF StoreInv, IndexKept, Truthful
      <3>2. CASE j \in gone /\ j \notin torn'
        <4>1. index[j] = event[j]
          BY <1>3, <1>6, <2>4, <3>2 DEF StoreInv, IndexKept, Truthful
        <4>2. ClearsIndex(c, j)'
          BY <1>1, <1>2, <1>3, <1>5, <3>2, <4>1 DEF ClearsIndex
        <4> QED
          BY <1>7, <3>2, <4>2 DEF Truthful
      <3>3. CASE j \in torn'
        BY <3>3 DEF Truthful
      <3> QED
        BY <3>1, <3>2, <3>3
    <2>6. ASSUME NEW j \in Store!Ids, NEW d \in Clients PROVE Indexed(d, j)'
      <3>1. CASE d = c
        <4>1. ~many /\ i = j => event'[j] = Nobody
          BY <1>0, <1>7
        <4>2. many /\ j > i /\ event'[j] # Nobody => event'[j].in # s
          BY <1>0, <1>7 DEF Store!EventsOf
        <4>3. Indexed(c, j)'
          BY <1>5, <4>1, <4>2 DEF Indexed
        <4> QED
          BY <3>1, <4>3 DEF Indexed
      <3>2. CASE d # c /\ j \notin gone
        BY <1>1, <1>5, <1>6, <1>7, <3>2 DEF StoreInv, IndexKept, Indexed
      <3>3. CASE d # c /\ j \in gone
        <4>1. does'[d] = does[d] /\ (does[d].pc \in {"index", "reindex"} /\ does[d].id = j => j \in torn')
          BY <1>5, <2>4, <3>3 DEF WritesIndex
        <4> QED
          BY <1>7, <3>3, <4>1 DEF Indexed
      <3> QED
        BY <3>1, <3>2, <3>3
    <2>7. Alone'
      BY <1>6, <2>2 DEF StoreInv, IndexKept, Alone
    <2> QED
      BY <2>1, <2>5, <2>6, <2>7 DEF IndexKept
  <1> QED
    BY <1>9, <1>10, <1>11 DEF StoreInv

\* What was erased goes out of the index.
LEMMA Unindexes ==
  ASSUME StoreInv, NEW c \in Clients, Store!Unindex(c)
  PROVE  StoreInv'
  <1>1. /\ does[c].pc = "unindex" /\ Store!Go(c, "recount") /\ UNCHANGED <<row, event, last, off, torn>>
        /\ index' = [j \in Store!Ids |-> IF IF does[c].many THEN j > does[c].id /\ index[j] # Nobody /\ index[j].in = does[c].s
                                            ELSE j = does[c].id
                                         THEN Nobody ELSE index[j]]
    BY DEF Store!Unindex, Store!At, Store!ghosts
  <1>2. \A j \in Store!Ids : index'[j] = IF ClearsIndex(c, j) THEN Nobody ELSE index[j]
    BY <1>1 DEF ClearsIndex
  <1>3. does[c].s \in Sessions /\ does[c].id \in Store!Ids /\ "recount" \in Points
    BY <1>1 DEF StoreInv, StoreTyping, WellFormed, AtEntry, Points
  <1>4. /\ does' \in [Clients -> Operation] /\ \A d \in Clients : d # c => does'[d] = does[d]
        /\ does'[c].pc = "recount" /\ does'[c].s = does[c].s /\ does'[c].id = does[c].id
    BY <1>1, <1>3, Goes DEF StoreInv
  <1>5. StoreTyping'
    <2>1. \A d \in Clients : WellFormed(d)'
      BY <1>1, <1>3, <1>4 DEF StoreInv, StoreTyping, WellFormed, AtMessage, AtEntry
    <2>2. index' \in [Store!Ids -> Store!Event \cup {Nobody}]
      BY <1>1 DEF StoreInv, StoreTyping
    <2> QED
      BY <1>1, <1>4, <2>1, <2>2 DEF StoreInv, StoreTyping
  <1>6. ASSUME NEW t \in Sessions PROVE Counted(t)'
    <2>1. RowKept(t) /\ Store!EventsOf(t)' = Store!EventsOf(t)
      BY <1>1 DEF RowKept, Store!EventsOf
    <2> QED
      BY <1>1, <1>4, <2>1, OneCountStays DEF StoreInv
  <1>7. IndexKept'
    <2>1. Unused'
      BY <1>1, <1>2 DEF StoreInv, IndexKept, Unused
    <2>2. \A d \in Clients, j \in Store!Ids : WritesIndex(d, j)' <=> WritesIndex(d, j)
      BY <1>1, <1>4 DEF WritesIndex
    <2>3. \A d \in Clients, j \in Store!Ids :
             d # c /\ ~ClearsIndex(c, j) => (ClearsIndex(d, j)' <=> ClearsIndex(d, j))
      BY <1>2, <1>4 DEF ClearsIndex
    <2>4. \A j \in Store!Ids : ClearsIndex(c, j) /\ event[j] # Nobody /\ event[j] = index[j] => j \in torn
      BY <1>1 DEF StoreInv, IndexKept, Indexed, ClearsIndex
    <2>5. ASSUME NEW j \in Store!Ids PROVE Truthful(j)'
      <3>1. CASE ~ClearsIndex(c, j)
        BY <1>1, <1>2, <2>2, <2>3, <3>1 DEF StoreInv, IndexKept, Truthful
      <3>2. CASE ClearsIndex(c, j)
        <4>1. j \notin torn => event[j] = Nobody \/ \E d \in Clients : WritesIndex(d, j)
          BY <2>4, <3>2 DEF StoreInv, IndexKept, Truthful
        <4> QED
          BY <1>1, <1>2, <2>2, <3>2, <4>1 DEF Truthful
      <3> QED
        BY <3>1, <3>2
    <2>6. ASSUME NEW j \in Store!Ids, NEW d \in Clients PROVE Indexed(d, j)'
      <3>1. CASE d = c
        BY <1>4, <3>1 DEF Indexed
      <3>2. CASE d # c
        <4>1. does'[d] = does[d] /\ Indexed(d, j) /\ Indexed(c, j)
          BY <1>4, <3>2 DEF StoreInv, IndexKept
        <4>2. /\ index[j] = Nobody => index'[j] = Nobody
              /\ event[j] # Nobody /\ index[j] # Nobody /\ index[j].in = event[j].in /\ j \notin torn => index'[j] = index[j]
          BY <1>1, <1>2, <4>1 DEF Indexed, ClearsIndex
        <4> QED
          BY <1>1, <4>1, <4>2 DEF Indexed
      <3> QED
        BY <3>1, <3>2
    <2>7. Alone'
      BY <1>1, <2>2 DEF StoreInv, IndexKept, Alone
    <2> QED
      BY <2>1, <2>5, <2>6, <2>7 DEF IndexKept
  <1> QED
    BY <1>5, <1>6, <1>7 DEF StoreInv

\* After an erasure the count is that of the events that are left.
LEMMA Recounts ==
  ASSUME Store!StoreAssumption, StoreInv, NEW c \in Clients, Store!Recount(c)
  PROVE  StoreInv'
  <1>0. PICK s : s = does[c].s
    OBVIOUS
  <1> DEFINE n == Store!Cardinality(Store!EventsOf(s))
             m == [row[s] EXCEPT !.count = n]
  <1>1. /\ does[c].pc = "recount" /\ Store!Done(c) /\ UNCHANGED <<event, last, index, torn>>
        /\ row' = IF row[s] = Nobody THEN row ELSE [row EXCEPT ![s] = m]
        /\ off' = IF Store!Uncounted(s) = {} THEN off \ {s} ELSE off \cup {s}
    BY <1>0 DEF Store!Recount, Store!At
  <1>2. s \in Sessions /\ last \in Nat /\ off \subseteq Sessions
    BY <1>0, <1>1 DEF StoreInv, StoreTyping, WellFormed, AtMessage
  <1>3. /\ does' \in [Clients -> Operation] /\ \A d \in Clients : d # c => does'[d] = does[d]
        /\ does'[c].pc = "idle" /\ does'[c].id = 0
    BY <1>1, Dones DEF StoreInv
  <1>4. n \in Nat /\ n = Cardinality(Store!EventsOf(s))
    BY EventsAreFinite, StoreCardinality DEF Store!EventsOf
  <1> HIDE DEF n
  <1>5. row[s] # Nobody => m \in Store!Row /\ m.count = n
    BY <1>2, <1>4 DEF StoreInv, StoreTyping, Store!Row
  <1> HIDE DEF m
  <1>6. /\ row' \in [Sessions -> Store!Row \cup {Nobody}]
        /\ \A t \in Sessions : t # s => row'[t] = row[t]
        /\ row'[s] = IF row[s] = Nobody THEN Nobody ELSE m
    BY <1>1, <1>2, <1>5 DEF StoreInv, StoreTyping
  <1>7. StoreTyping'
    <2>1. \A d \in Clients : WellFormed(d)'
      BY <1>1, <1>2, <1>3 DEF StoreInv, StoreTyping, WellFormed, AtMessage, AtEntry
    <2> QED
      BY <1>1, <1>2, <1>3, <1>6, <2>1 DEF StoreInv, StoreTyping
  <1>8. ASSUME NEW t \in Sessions PROVE Counted(t)'
    <2>1. Store!EventsOf(t)' = Store!EventsOf(t)
      BY <1>1 DEF Store!EventsOf
    <2>2. Store!Uncounted(t)' = Store!Uncounted(t)
      BY <1>1, <1>3 DEF Store!Uncounted
    <2>3. Counted(t)
      BY DEF StoreInv
    <2>4. CASE t # s
      <3>1. Store!Erasing(t)' = Store!Erasing(t)
        BY <1>0, <1>1, <1>3, <2>4 DEF Store!Erasing
      <3> QED
        BY <1>1, <1>6, <2>1, <2>2, <2>3, <2>4, <3>1 DEF Counted
    <2>5. CASE t = s /\ Store!Uncounted(s) = {}
      <3>1. Cardinality({}) = 0
        BY FS_EmptySet
      <3>2. row'[s] # Nobody => row'[s].count + Cardinality({}) = Cardinality(Store!EventsOf(s))
        BY <1>4, <1>5, <1>6, <3>1
      <3>3. row'[s] = Nobody => row[s] = Nobody
        BY <1>5, <1>6 DEF Store!StoreAssumption
      <3> QED
        BY <2>1, <2>2, <2>3, <2>5, <3>2, <3>3 DEF Counted
    <2>6. CASE t = s /\ Store!Uncounted(s) # {}
      <3>1. row'[s] = Nobody => row[s] = Nobody
        BY <1>5, <1>6 DEF Store!StoreAssumption
      <3> QED
        BY <1>1, <2>1, <2>2, <2>3, <2>6, <3>1 DEF Counted
    <2> QED
      BY <2>4, <2>5, <2>6
  <1>9. IndexKept'
    BY <1>1, <1>3, IndexStays DEF StoreInv, AtEntry
  <1> QED
    BY <1>7, <1>8, <1>9 DEF StoreInv

\* A session is deleted, and its events with it.
LEMMA Deletes ==
  ASSUME StoreInv, NEW s \in Sessions, Store!Delete(s)
  PROVE  StoreInv'
  <1>0. PICK gone : gone = Store!EventsOf(s)
    OBVIOUS
  <1>1. /\ row' = [row EXCEPT ![s] = Nobody] /\ UNCHANGED <<last, index, does>>
        /\ event' = [i \in Store!Ids |-> IF i \in gone THEN Nobody ELSE event[i]]
        /\ off' = IF Store!Uncounted(s) = {} THEN off \ {s} ELSE off \cup {s}
        /\ torn' = torn \cup gone
    BY <1>0 DEF Store!Delete
  <1>2. gone \subseteq Store!Ids /\ \A i \in gone : event[i] # Nobody /\ event[i].in = s
    BY <1>0 DEF Store!EventsOf
  <1>3. /\ event' \in [Store!Ids -> Store!Event \cup {Nobody}]
        /\ \A i \in Store!Ids : event'[i] = IF i \in gone THEN Nobody ELSE event[i]
    BY <1>1 DEF StoreInv, StoreTyping
  <1>4. /\ row' \in [Sessions -> Store!Row \cup {Nobody}] /\ row'[s] = Nobody
        /\ \A t \in Sessions : t # s => row'[t] = row[t]
    BY <1>1 DEF StoreInv, StoreTyping
  <1>5. StoreTyping'
    <2>1. \A d \in Clients : WellFormed(d)'
      BY <1>1 DEF StoreInv, StoreTyping, WellFormed
    <2> QED
      BY <1>1, <1>2, <1>3, <1>4, <2>1 DEF StoreInv, StoreTyping
  <1>6. ASSUME NEW t \in Sessions PROVE Counted(t)'
    <2>1. Store!Uncounted(t)' = Store!Uncounted(t) /\ Store!Erasing(t)' = Store!Erasing(t)
      BY <1>1 DEF Store!Uncounted, Store!Erasing
    <2>2. Counted(t)
      BY DEF StoreInv
    <2>3. CASE t # s
      <3>1. Store!EventsOf(t)' = Store!EventsOf(t)
        BY <1>2, <1>3, <2>3 DEF Store!EventsOf
      <3> QED
        BY <1>1, <1>4, <2>1, <2>2, <2>3, <3>1 DEF Counted
    <2>4. CASE t = s
      <3>1. Store!EventsOf(s)' = {}
        BY <1>0, <1>3 DEF Store!EventsOf
      <3> QED
        BY <1>1, <1>4, <2>1, <2>2, <2>4, <3>1 DEF Counted
    <2> QED
      BY <2>3, <2>4
  <1>7. IndexKept'
    <2>1. Unused'
      BY <1>1, <1>3 DEF StoreInv, IndexKept, Unused
    <2>2. \A d \in Clients, j \in Store!Ids :
             (WritesIndex(d, j)' <=> WritesIndex(d, j)) /\ (ClearsIndex(d, j)' <=> ClearsIndex(d, j))
      BY <1>1 DEF WritesIndex, ClearsIndex
    <2>3. ASSUME NEW j \in Store!Ids PROVE Truthful(j)'
      BY <1>1, <1>3, <2>2 DEF StoreInv, IndexKept, Truthful
    <2>4. ASSUME NEW j \in Store!Ids, NEW d \in Clients PROVE Indexed(d, j)'
      BY <1>1, <1>3 DEF StoreInv, IndexKept, Indexed
    <2>5. Alone'
      BY <1>1, <2>2 DEF StoreInv, IndexKept, Alone
    <2> QED
      BY <2>1, <2>3, <2>4, <2>5 DEF IndexKept
  <1> QED
    BY <1>5, <1>6, <1>7 DEF StoreInv

\* A kill ends every operation where it is.
LEMMA Kills ==
  ASSUME StoreInv, Store!Kill
  PROVE  StoreInv'
  <1>1. /\ does' = [c \in Clients |-> Store!Idle] /\ UNCHANGED <<row, event, last, index>>
        /\ off' = off \cup {s \in Sessions : Store!Uncounted(s) \cup Store!Erasing(s) # {}}
        /\ torn' = torn \cup UNION {Store!Touched(c) : c \in Clients}
    BY DEF Store!Kill, Store!tables
  <1>2. does' \in [Clients -> Operation] /\ \A c \in Clients : does'[c].pc = "idle" /\ does'[c].id = 0
    BY <1>1, OperationIdle
  <1>3. \A c \in Clients : Store!Touched(c) \subseteq Store!Ids
    BY DEF StoreInv, StoreTyping, WellFormed, AtEntry, Store!Touched, Store!At
  <1>4. \A i \in Store!Ids, c \in Clients : i \notin torn' => i \notin torn /\ ~WritesIndex(c, i) /\ ~ClearsIndex(c, i)
    BY <1>1, TouchedBy
  <1>5. StoreTyping'
    <2>1. \A c \in Clients : WellFormed(c)'
      BY <1>1, <1>2 DEF StoreInv, StoreTyping, WellFormed, AtMessage, AtEntry
    <2> QED
      BY <1>1, <1>2, <1>3, <2>1 DEF StoreInv, StoreTyping
  <1>6. ASSUME NEW s \in Sessions PROVE Counted(s)'
    <2>1. Store!Uncounted(s)' = {}
      BY <1>2 DEF Store!Uncounted
    <2>2. IsFiniteSet({})
      BY FS_EmptySet
    <2>3. Store!EventsOf(s)' = Store!EventsOf(s)
      BY <1>1 DEF Store!EventsOf
    <2>4. s \notin off' => s \notin off /\ Store!Uncounted(s) = {} /\ Store!Erasing(s) = {}
      BY <1>1
    <2> QED
      BY <1>1, <2>1, <2>2, <2>3, <2>4 DEF StoreInv, Counted
  <1>7. IndexKept'
    <2>1. \A i \in Store!Ids : Truthful(i)'
      BY <1>1, <1>4 DEF StoreInv, IndexKept, Truthful
    <2>2. Unused' /\ (\A i \in Store!Ids : \A c \in Clients : Indexed(c, i)') /\ Alone'
      BY <1>1, <1>2 DEF StoreInv, IndexKept, Unused, Indexed, Alone, WritesIndex
    <2> QED
      BY <2>1, <2>2 DEF IndexKept
  <1> QED
    BY <1>5, <1>6, <1>7 DEF StoreInv

-----------------------------------------------------------------------------
\* Nobody has a row, an event or an operation at first.
LEMMA StoreInit ==
  ASSUME Store!StoreAssumption, Store!Init
  PROVE  StoreInv
  <1>1. \A c \in Clients : does[c] \in Operation /\ does[c].pc = "idle" /\ does[c].id = 0
    BY OperationIdle DEF Store!Init
  <1>2. \A s \in Sessions : Store!EventsOf(s) = {} /\ Store!Uncounted(s) = {}
    BY <1>1 DEF Store!Init, Store!EventsOf, Store!Uncounted
  <1>3. StoreTyping
    <2>1. \A c \in Clients : WellFormed(c)
      BY <1>1 DEF WellFormed, AtMessage, AtEntry, Store!Init
    <2> QED
      BY <1>1, <2>1 DEF Store!Init, StoreTyping
  <1>4. \A s \in Sessions : Counted(s)
    BY <1>2, FS_EmptySet DEF Store!Init, Counted
  <1>5. IndexKept
    BY <1>1 DEF Store!Init, IndexKept, Unused, Truthful, Indexed, Alone, WritesIndex
  <1> QED
    BY <1>3, <1>4, <1>5 DEF StoreInv

\* What goes on elsewhere changes nothing of it.
LEMMA StoreStutters ==
  ASSUME StoreInv, UNCHANGED Store!vars
  PROVE  StoreInv'
  <1>1. UNCHANGED <<row, event, last, index, does, off, torn>>
    BY DEF Store!vars, Store!tables, Store!ghosts
  <1>2. \A d \in Clients : WellFormed(d)'
    BY <1>1 DEF StoreInv, StoreTyping, WellFormed
  <1>3. \A s \in Sessions : RowKept(s)
    BY <1>1 DEF RowKept
  <1>4. /\ does' \in [Clients -> Operation] /\ row' \in [Sessions -> Store!Row \cup {Nobody}] /\ off' \subseteq Sessions
        /\ \A d \in Clients : does'[d] = does[d]
    BY <1>1 DEF StoreInv, StoreTyping
  <1> QED
    BY <1>1, <1>2, <1>3, <1>4, Asides

\* Every statement of an operation keeps StoreInv, and every operation of one.
LEMMA StoreStep ==
  ASSUME Store!StoreAssumption, StoreInv, [Store!Next]_(Store!vars)
  PROVE  StoreInv'
  <1>1. CASE UNCHANGED Store!vars
    BY <1>1, StoreStutters
  <1>2. ASSUME NEW c \in Clients, Store!Step(c)
        PROVE  StoreInv'
    BY <1>2, Gets, WritesRow, Inserts, Indexes, Counts, Names, EditsMessage, Reindexes, Erases, Unindexes, Recounts
       DEF Store!Step
  <1>3. ASSUME NEW c \in Clients, NEW s \in Sessions,
               Store!BeginRun(c, s) \/ Store!BeginAppend(c, s) \/ \E t \in Sessions : Store!BeginFork(c, s, t)
        PROVE  StoreInv'
    BY <1>3, AsksOfSession
  <1>4. ASSUME NEW c \in Clients, NEW i \in Store!Ids,
               Store!BeginEdit(c, i) \/ \E s \in Sessions : Store!BeginErase(c, s, i)
        PROVE  StoreInv'
    BY <1>4, AsksOfEvent
  <1>5. ASSUME NEW s \in Sessions, Store!Rename(s) \/ Store!Flag(s) \/ Store!Delete(s)
        PROVE  StoreInv'
    BY <1>5, Retitles, Deletes
  <1>6. CASE Store!Kill
    BY <1>6, Kills
  <1> QED
    BY <1>1, <1>2, <1>3, <1>4, <1>5, <1>6 DEF Store!Next

(* The rows, the events, the index and the operations under way agree, as   *)
(* StoreInv says.                                                           *)
THEOREM StoreInvariance == Store!Spec => []StoreInv
  <1>1. Store!Init => StoreInv
    BY SessionsAssumption, StoreInit
  <1>2. StoreInv /\ [Store!Next]_(Store!vars) => StoreInv'
    BY SessionsAssumption, StoreStep
  <1> QED
    BY <1>1, <1>2, PTL DEF Store!Spec

(* A session's message count is that of its events at rest, although it is  *)
(* taken up by appends and counted over by erasures of any number of        *)
(* clients: only a recount that an append was half way through, a message   *)
(* erased under another session's name, a session deleted under a run, or a *)
(* kill puts it off.                                                        *)
THEOREM CountIsExact == Store!Spec => []CountExact
  <1>1. StoreInv => CountExact
    <2> SUFFICES ASSUME StoreInv, NEW s \in Sessions, s \notin off, row[s] # Nobody,
                        Store!Uncounted(s) = {}, Store!Erasing(s) = {}
                 PROVE  row[s].count = Store!Cardinality(Store!EventsOf(s))
      BY DEF CountExact, Store!CountExact
    <2>1. row[s].count + Cardinality({}) = Cardinality(Store!EventsOf(s)) /\ row[s].count \in Nat
      BY DEF StoreInv, StoreTyping, Counted, Store!Row
    <2> QED
      BY <2>1, FS_EmptySet, StoreCardinality
  <1> QED
    BY <1>1, StoreInvariance, PTL

(* When nobody is at an entry of the index, the index has exactly the text  *)
(* of every event there is, and nothing of an erased one, whatever runs,    *)
(* edits and erasures came before: but for entries that two operations were *)
(* at at once, a kill came upon, or that were left when their session went. *)
THEOREM SearchIsTruthful == Store!Spec => []IndexTruthful
  <1>1. StoreInv => IndexTruthful
    <2> SUFFICES ASSUME StoreInv, \A c \in Clients : Store!Touched(c) = {}, NEW i \in Store!Ids, i \notin torn
                 PROVE  index[i] = event[i]
      BY DEF IndexTruthful, Store!IndexTruthful
    <2>1. \A c \in Clients : ~WritesIndex(c, i) /\ ~ClearsIndex(c, i)
      BY TouchedBy
    <2> QED
      BY <2>1 DEF StoreInv, IndexKept, Truthful
  <1> QED
    BY <1>1, StoreInvariance, PTL

-----------------------------------------------------------------------------
\* Where an operation has a row in hand, and where it has no session.
InHand == {"metaput", "put", "nameput"}
Homeless == {"idle", "edit", "reindex"}

\* The flag of a session is the one last asked for, in its row and in every copy
\* that is about to be written.  A fork is alone at a session that is not there.
FlagOf(s) == IF row[s] = Nobody THEN FALSE ELSE row[s].archived
FlagInv ==
    /\ want \in [Sessions -> BOOLEAN]
    /\ \A s \in Sessions \ stale :
           /\ FlagOf(s) = want[s]
           /\ \A c \in Clients : does[c].s = s /\ does[c].pc \in InHand => Store!Seen(c, s).archived = want[s]
    /\ \A c \in Clients : does[c].pc = "forkput" =>
           /\ row[does[c].s] = Nobody
           /\ \A d \in Clients : d # c /\ does[d].pc \notin Homeless => does[d].s # does[c].s

\* A client that does not move has what it had in hand.
LEMMA HeldStays ==
  ASSUME FlagInv, UNCHANGED <<want, stale>>, NEW s \in Sessions \ stale, NEW d \in Clients, does'[d] = does[d],
         does'[d].s = s, does'[d].pc \in InHand
  PROVE  Store!Seen(d, s)'.archived = want[s]
  <1>1. Store!Seen(d, s)' = Store!Seen(d, s)
    BY DEF Store!Seen, Store!Basic
  <1>2. Store!Seen(d, s).archived = want[s]
    BY DEF FlagInv
  <1> QED
    BY <1>1, <1>2

\* A step that flags nothing, takes no row in hand and comes to no other session.
LEMMA FlagStays ==
  ASSUME StoreInv, FlagInv, UNCHANGED <<want, stale>>,
         \A s \in Sessions : FlagOf(s)' = FlagOf(s) /\ (row[s] = Nobody => row'[s] = Nobody),
         \A d \in Clients : \/ does'[d] = does[d]
                            \/ /\ does'[d].pc \notin InHand \cup {"forkput"}
                               /\ \/ does'[d].pc \in Homeless
                                  \/ does[d].pc \notin Homeless /\ does'[d].s = does[d].s
  PROVE  FlagInv'
  <1>1. ASSUME NEW s \in Sessions \ stale
        PROVE  \A c \in Clients : does'[c].s = s /\ does'[c].pc \in InHand => Store!Seen(c, s)'.archived = want[s]
    BY HeldStays
  <1>2. ASSUME NEW c \in Clients, does'[c].pc = "forkput"
        PROVE  /\ row'[does'[c].s] = Nobody
               /\ \A d \in Clients : d # c /\ does'[d].pc \notin Homeless => does'[d].s # does'[c].s
    <2>1. does'[c] = does[c] /\ does[c].s \in Sessions
      BY <1>2 DEF StoreInv, StoreTyping, WellFormed
    <2> QED
      BY <1>2, <2>1 DEF FlagInv
  <1> QED
    BY <1>1, <1>2 DEF FlagInv

\* What is asked for has no row in hand yet.
LEMMA FlagAsked ==
  ASSUME StoreInv, FlagInv, NEW c \in Clients, NEW u, NEW r \in Operation, Store!Ask(c, u, r),
         r.pc \notin InHand, r.pc \notin Homeless => r.s = u,
         r.pc = "forkput" => /\ r.s \in Sessions /\ row[r.s] = Nobody
                             /\ \A d \in Clients : does[d].s # r.s
  PROVE  FlagInv'
  <1>1. /\ does' = [does EXCEPT ![c] = r] /\ UNCHANGED <<row, want, stale>> /\ does[c] = Store!Idle
        /\ \A d \in Clients : does[d].pc = "forkput" => does[d].s # u
    BY DEF Store!Ask, Store!At, Store!tables, Store!ghosts
  <1>2. does'[c] = r /\ \A d \in Clients : d # c => does'[d] = does[d]
    BY <1>1, OperationChanges DEF StoreInv
  <1>3. ASSUME NEW s \in Sessions \ stale
        PROVE  /\ FlagOf(s)' = want[s]
               /\ \A d \in Clients : does'[d].s = s /\ does'[d].pc \in InHand => Store!Seen(d, s)'.archived = want[s]
    BY <1>1, <1>2, HeldStays DEF FlagInv, FlagOf
  <1>4. ASSUME NEW d \in Clients, does'[d].pc = "forkput"
        PROVE  /\ row'[does'[d].s] = Nobody
               /\ \A e \in Clients : e # d /\ does'[e].pc \notin Homeless => does'[e].s # does'[d].s
    <2>1. CASE d = c
      BY <1>1, <1>2, <1>4, <2>1
    <2>2. CASE d # c
      BY <1>1, <1>2, <1>4, <2>2 DEF FlagInv
    <2> QED
      BY <2>1, <2>2
  <1> QED
    BY <1>1, <1>3, <1>4 DEF FlagInv

\* A row is read, for a run that asks for its session or for its name.
LEMMA FlagRead ==
  ASSUME StoreInv, FlagInv, NEW c \in Clients, NEW to \in InHand,
         UNCHANGED <<row, want, stale>>, does[c].s \in Sessions, does[c].pc \notin Homeless,
         \A d \in Clients : d # c => does'[d] = does[d],
         does'[c].pc = to, does'[c].s = does[c].s, does'[c].seen = row[does[c].s]
  PROVE  FlagInv'
  <1>1. to # "forkput" /\ to \notin Homeless
    BY DEF InHand, Homeless
  <1>2. ASSUME NEW s \in Sessions \ stale
        PROVE  /\ FlagOf(s)' = want[s]
               /\ \A d \in Clients : does'[d].s = s /\ does'[d].pc \in InHand => Store!Seen(d, s)'.archived = want[s]
    <2>1. FlagOf(s) = want[s] /\ FlagOf(s)' = FlagOf(s)
      BY DEF FlagInv, FlagOf
    <2>2. Store!Basic.archived = FALSE
      BY DEF Store!Basic
    <2>3. does[c].s = s => Store!Seen(c, s)'.archived = want[s]
      BY <2>1, <2>2 DEF Store!Seen, FlagOf, Store!Basic
    <2>4. ASSUME NEW d \in Clients, d # c, does'[d].s = s, does'[d].pc \in InHand
          PROVE  Store!Seen(d, s)'.archived = want[s]
      BY <2>4, HeldStays
    <2> QED
      BY <2>1, <2>3, <2>4
  <1>3. ASSUME NEW d \in Clients, does'[d].pc = "forkput"
        PROVE  /\ row'[does'[d].s] = Nobody
               /\ \A e \in Clients : e # d /\ does'[e].pc \notin Homeless => does'[e].s # does'[d].s
    <2>1. d # c /\ does'[d] = does[d]
      BY <1>1, <1>3
    <2> QED
      BY <1>3, <2>1 DEF FlagInv
  <1> QED
    BY <1>2, <1>3 DEF FlagInv

\* A row is written with the flag it had when it was read.
LEMMA FlagWritten ==
  ASSUME Store!StoreAssumption, StoreInv, FlagInv, NEW c \in Clients, NEW m \in Store!Row,
         does[c].pc \in InHand \cup {"forkput"}, Store!Upsert(does[c].s, m), UNCHANGED <<want, stale>>,
         does[c].pc \in InHand => m.archived = Store!Seen(c, does[c].s).archived,
         does[c].pc = "forkput" => m.archived = FALSE,
         \A d \in Clients : d # c => does'[d] = does[d],
         does'[c].pc \in {"idle", "get", "insert"}, does'[c].pc # "idle" => does'[c].s = does[c].s
  PROVE  FlagInv'
  <1>0. PICK s : s = does[c].s
    OBVIOUS
  <1> DEFINE v == [m EXCEPT !.count = row[s].count]
  <1>1. s \in Sessions /\ does[c].pc \notin Homeless
    BY <1>0 DEF StoreInv, StoreTyping, WellFormed, InHand, Homeless
  <1>2. row' = [row EXCEPT ![s] = IF row[s] = Nobody THEN m ELSE v]
    BY <1>0 DEF Store!Upsert
  <1>3. v.archived = m.archived /\ (row[s] # Nobody => v \in Store!Row)
    BY <1>1 DEF StoreInv, StoreTyping, Store!Row
  <1> HIDE DEF v
  <1>4. Nobody \notin Store!Row
    BY DEF Store!StoreAssumption
  <1>5. FlagOf(s)' = m.archived /\ \A t \in Sessions : t # s => row'[t] = row[t] /\ FlagOf(t)' = FlagOf(t)
    BY <1>1, <1>2, <1>3, <1>4 DEF StoreInv, StoreTyping, FlagOf
  <1>6. s \notin stale => m.archived = want[s]
    <2>1. CASE does[c].pc \in InHand
      BY <1>0, <1>1, <2>1 DEF FlagInv
    <2>2. CASE does[c].pc = "forkput"
      BY <1>0, <1>1, <2>2 DEF FlagInv, FlagOf
    <2> QED
      BY <2>1, <2>2
  <1>7. does'[c].pc \notin InHand \cup {"forkput"}
    BY DEF InHand
  <1>8. ASSUME NEW t \in Sessions \ stale
        PROVE  /\ FlagOf(t)' = want[t]
               /\ \A d \in Clients : does'[d].s = t /\ does'[d].pc \in InHand => Store!Seen(d, t)'.archived = want[t]
    <2>1. FlagOf(t)' = want[t]
      BY <1>5, <1>6 DEF FlagInv
    <2>2. ASSUME NEW d \in Clients, does'[d].s = t, does'[d].pc \in InHand
          PROVE  Store!Seen(d, t)'.archived = want[t]
      BY <1>7, <2>2, HeldStays
    <2> QED
      BY <2>1, <2>2
  <1>9. ASSUME NEW d \in Clients, does'[d].pc = "forkput"
        PROVE  /\ row'[does'[d].s] = Nobody
               /\ \A e \in Clients : e # d /\ does'[e].pc \notin Homeless => does'[e].s # does'[d].s
    <2>1. d # c /\ does'[d] = does[d] /\ does[d].s \in Sessions
      BY <1>7, <1>9 DEF StoreInv, StoreTyping, WellFormed
    <2>2. does[d].s # s
      BY <1>0, <1>1, <1>9, <2>1 DEF FlagInv
    <2>3. row'[does'[d].s] = Nobody
      BY <1>5, <1>9, <2>1, <2>2 DEF FlagInv
    <2>4. ASSUME NEW e \in Clients, e # d, does'[e].pc \notin Homeless PROVE does'[e].s # does'[d].s
      <3>1. CASE e = c
        BY <1>0, <2>1, <2>2, <2>4, <3>1 DEF Homeless
      <3>2. CASE e # c
        BY <1>9, <2>1, <2>4, <3>2 DEF FlagInv
      <3> QED
        BY <3>1, <3>2
    <2> QED
      BY <2>3, <2>4
  <1> QED
    BY <1>8, <1>9 DEF FlagInv

\* Rows that are read, for a run and for a name.
LEMMA FlagGets ==
  ASSUME StoreInv, FlagInv, NEW c \in Clients, Store!Get(c) \/ Store!Name(c)
  PROVE  FlagInv'
  <1>0. does[c].pc \in {"meta", "get", "name"} /\ UNCHANGED <<row, want, stale>>
    BY DEF Store!Get, Store!Name, Store!At, Store!tables, Store!ghosts
  <1>1. does[c].s \in Sessions /\ row[does[c].s] \in Store!Row \cup {Nobody} /\ does[c].pc \notin Homeless
    BY <1>0 DEF StoreInv, StoreTyping, WellFormed, Homeless
  <1>2. ASSUME NEW to \in InHand, does' = [does EXCEPT ![c] = [[does[c] EXCEPT !.pc = to] EXCEPT !.seen = row[does[c].s]]]
        PROVE  FlagInv'
    <2>1. to \in Points
      BY DEF InHand, Points, AtMessage
    <2>2. PICK v \in Store!Row \cup {Nobody} : v = row[does[c].s]
      BY <1>1
    <2> DEFINE q == [does[c] EXCEPT !.pc = to]
               r == [q EXCEPT !.seen = v]
    <2>3. does' = [does EXCEPT ![c] = r] /\ does[c] \in Operation
      BY <1>2, <2>2 DEF StoreInv, StoreTyping
    <2>4. q \in Operation /\ q.pc = to /\ q.s = does[c].s
      BY <2>1, <2>3, OperationGoes
    <2> HIDE DEF q
    <2>5. r \in Operation /\ r.pc = to /\ r.s = does[c].s /\ r.seen = v
      BY <2>4, OperationSees
    <2> HIDE DEF r
    <2>6. /\ \A d \in Clients : d # c => does'[d] = does[d]
          /\ does'[c].pc = to /\ does'[c].s = does[c].s /\ does'[c].seen = row[does[c].s]
      BY <2>2, <2>3, <2>5, OperationChanges DEF StoreInv
    <2> QED
      BY <1>0, <1>1, <2>6, FlagRead
  <1>3. CASE Store!Get(c)
    <2> DEFINE to == IF does[c].pc = "meta" THEN "metaput" ELSE "put"
    <2>1. does' = [does EXCEPT ![c] = [[does[c] EXCEPT !.pc = to] EXCEPT !.seen = row[does[c].s]]]
      BY <1>3 DEF Store!Get
    <2>2. to \in InHand
      BY DEF InHand
    <2> HIDE DEF to
    <2> QED
      BY <1>2, <2>1, <2>2
  <1>4. CASE Store!Name(c)
    <2>1. \/ does' = [does EXCEPT ![c] = [[does[c] EXCEPT !.pc = "nameput"] EXCEPT !.seen = row[does[c].s]]]
          \/ Store!Done(c)
      BY <1>4 DEF Store!Name
    <2>2. "nameput" \in InHand
      BY DEF InHand
    <2>3. CASE Store!Done(c)
      <3>1. does'[c].pc = "idle" /\ \A d \in Clients : d # c => does'[d] = does[d]
        BY <2>3, Dones DEF StoreInv
      <3> QED
        BY <1>0, <3>1, FlagStays DEF InHand, Homeless, FlagOf
    <2> QED
      BY <1>2, <2>1, <2>2, <2>3
  <1> QED
    BY <1>3, <1>4

\* Rows that are written.
LEMMA FlagPuts ==
  ASSUME Store!StoreAssumption, StoreInv, FlagInv, NEW c \in Clients,
         Store!MetaPut(c) \/ Store!Put(c) \/ Store!ForkPut(c) \/ Store!NamePut(c)
  PROVE  FlagInv'
  <1>1. /\ Store!Basic \in Store!Row /\ Store!Basic.archived = FALSE
        /\ Store!Seen(c, does[c].s) \in Store!Row
    BY RowsToWrite DEF Store!Basic
  <1>2. \A q \in Store!Row, n \in {"new", "auto"} : [q EXCEPT !.name = n] \in Store!Row /\ [q EXCEPT !.name = n].archived = q.archived
    BY DEF Store!Row
  <1>3. ASSUME NEW m \in Store!Row, does[c].pc \in InHand \cup {"forkput"}, Store!Upsert(does[c].s, m), UNCHANGED <<want, stale>>,
               does[c].pc \in InHand => m.archived = Store!Seen(c, does[c].s).archived,
               does[c].pc = "forkput" => m.archived = FALSE,
               Store!Done(c) \/ (\E to \in {"get", "insert"} : Store!Go(c, to))
        PROVE  FlagInv'
    <2>1. "get" \in Points /\ "insert" \in Points
      BY DEF Points, AtMessage
    <2>2. CASE Store!Done(c)
      <3>1. does'[c].pc = "idle" /\ \A d \in Clients : d # c => does'[d] = does[d]
        BY <2>2, Dones DEF StoreInv
      <3> QED
        BY <1>3, <3>1, FlagWritten
    <2>3. ASSUME NEW to \in {"get", "insert"}, Store!Go(c, to)
          PROVE  FlagInv'
      <3>1. does'[c].pc = to /\ does'[c].s = does[c].s /\ \A d \in Clients : d # c => does'[d] = does[d]
        BY <2>1, <2>3, Goes DEF StoreInv
      <3> QED
        BY <1>3, <3>1, FlagWritten
    <2> QED
      BY <1>3, <2>2, <2>3
  <1>4. CASE Store!MetaPut(c)
    <2> DEFINE m == [Store!Seen(c, does[c].s) EXCEPT !.name = "new"]
    <2>1. m \in Store!Row /\ m.archived = Store!Seen(c, does[c].s).archived
      BY <1>1, <1>2
    <2>2. does[c].pc = "metaput" /\ Store!Upsert(does[c].s, m) /\ Store!Go(c, "get") /\ UNCHANGED <<want, stale>>
      BY <1>4 DEF Store!MetaPut, Store!At
    <2> HIDE DEF m
    <2> QED
      BY <1>3, <2>1, <2>2 DEF InHand
  <1>5. CASE Store!Put(c)
    <2>1. does[c].pc = "put" /\ Store!Upsert(does[c].s, Store!Seen(c, does[c].s)) /\ Store!Go(c, "insert") /\ UNCHANGED <<want, stale>>
      BY <1>5 DEF Store!Put, Store!At
    <2> QED
      BY <1>1, <1>3, <2>1 DEF InHand
  <1>6. CASE Store!ForkPut(c)
    <2>1. /\ does[c].pc = "forkput" /\ Store!Upsert(does[c].s, Store!Basic) /\ UNCHANGED <<want, stale>>
          /\ Store!Done(c) \/ Store!Go(c, "insert")
      BY <1>6 DEF Store!ForkPut, Store!At
    <2> QED
      BY <1>1, <1>3, <2>1 DEF InHand
  <1>7. CASE Store!NamePut(c)
    <2> DEFINE m == [does[c].seen EXCEPT !.name = "auto"]
    <2>1. does[c].pc = "nameput" /\ Store!Upsert(does[c].s, m) /\ Store!Done(c) /\ UNCHANGED <<want, stale>>
      BY <1>7 DEF Store!NamePut, Store!At
    <2>2. Store!Seen(c, does[c].s) = does[c].seen
      BY <2>1 DEF Store!Seen, StoreInv, StoreTyping, WellFormed
    <2>3. m \in Store!Row /\ m.archived = Store!Seen(c, does[c].s).archived
      BY <1>1, <1>2, <2>2
    <2> HIDE DEF m
    <2> QED
      BY <1>3, <2>1, <2>3 DEF InHand
  <1> QED
    BY <1>4, <1>5, <1>6, <1>7

\* The statements at events, and those that count: no flag is written.
LEMMA FlagAtEvents ==
  ASSUME Store!StoreAssumption, StoreInv, FlagInv, NEW c \in Clients,
         \/ Store!Insert(c) \/ Store!Index(c) \/ Store!Count(c) \/ Store!Edit(c)
         \/ Store!Reindex(c) \/ Store!Erase(c) \/ Store!Unindex(c) \/ Store!Recount(c)
  PROVE  FlagInv'
  <1>1. UNCHANGED <<want, stale>> /\ does[c].pc \in {"insert", "index", "count", "edit", "reindex", "erase", "unindex", "recount"}
    BY DEF Store!Insert, Store!Index, Store!Count, Store!Edit, Store!Reindex, Store!Erase, Store!Unindex, Store!Recount,
           Store!At, Store!ghosts
  <1>2. \/ does' = [does EXCEPT ![c] = Store!Idle]
        \/ \E pc \in Points \ (InHand \cup {"forkput"}) :
              /\ pc = "reindex" \/ does[c].pc \notin Homeless
              /\ \/ Store!Go(c, pc)
                 \/ does' = [does EXCEPT ![c] = [[does[c] EXCEPT !.pc = pc] EXCEPT !.id = last + 1]]
                 \/ does' = [does EXCEPT ![c] = [[does[c] EXCEPT !.pc = pc] EXCEPT !.todo = Tail(does[c].todo)]]
    BY <1>1
    DEF Store!Insert, Store!Index, Store!Count, Store!Edit, Store!Reindex, Store!Erase, Store!Unindex, Store!Recount,
                Store!At, Store!Done, Points, AtMessage, InHand, Homeless
  <1>3. /\ \A d \in Clients : d # c => does'[d] = does[d]
        /\ does'[c].pc \notin InHand \cup {"forkput"}
        /\ does'[c].pc \in Homeless \/ (does[c].pc \notin Homeless /\ does'[c].s = does[c].s)
    <2>1. does[c] \in Operation
      BY DEF StoreInv, StoreTyping
    <2>2. CASE does' = [does EXCEPT ![c] = Store!Idle]
      BY <2>2, OperationIdle DEF StoreInv, StoreTyping, InHand, Homeless
    <2>3. ASSUME NEW pc \in Points \ (InHand \cup {"forkput"}), pc = "reindex" \/ does[c].pc \notin Homeless,
                 NEW n, NEW t,
                 \/ does' = [does EXCEPT ![c] = [does[c] EXCEPT !.pc = pc]]
                 \/ does' = [does EXCEPT ![c] = [[does[c] EXCEPT !.pc = pc] EXCEPT !.id = n]]
                 \/ does' = [does EXCEPT ![c] = [[does[c] EXCEPT !.pc = pc] EXCEPT !.todo = t]]
          PROVE  /\ \A d \in Clients : d # c => does'[d] = does[d]
                 /\ does'[c].pc = pc /\ does'[c].s = does[c].s
      <3>1. PICK q : q = [does[c] EXCEPT !.pc = pc]
        OBVIOUS
      <3>2. q \in Operation /\ q.pc = pc /\ q.s = does[c].s
        BY <2>1, <3>1, OperationGoes
      <3>3. /\ [q EXCEPT !.id = n].pc = q.pc /\ [q EXCEPT !.id = n].s = q.s
            /\ [q EXCEPT !.todo = t].pc = q.pc /\ [q EXCEPT !.todo = t].s = q.s
        BY <3>2 DEF Operation
      <3>4. does' = [does EXCEPT ![c] = q] \/ does' = [does EXCEPT ![c] = [q EXCEPT !.id = n]] \/ does' = [does EXCEPT ![c] = [q EXCEPT !.todo = t]]
        BY <2>3, <3>1
      <3> QED
        BY <3>2, <3>3, <3>4 DEF StoreInv, StoreTyping
    <2> QED
      BY <1>2, <2>2, <2>3 DEF Store!Go, Homeless
  <1>4. ASSUME NEW s \in Sessions
        PROVE  FlagOf(s)' = FlagOf(s) /\ (row[s] = Nobody => row'[s] = Nobody)
    <2>0. PICK u : u = does[c].s
      OBVIOUS
    <2>1. \/ UNCHANGED row
          \/ \E t \in Sessions, n \in Nat : row[t] # Nobody /\ row' = [row EXCEPT ![t] = [row[t] EXCEPT !.count = n]]
      <3>1. CASE Store!Count(c)
        <4>1. u \in Sessions
          BY <1>1, <2>0, <3>1 DEF StoreInv, StoreTyping, WellFormed, Store!Count, Store!At
        <4>2. row[u] # Nobody => row[u].count + 1 \in Nat
          BY <4>1 DEF StoreInv, StoreTyping, Store!Row
        <4>3. row' = IF row[u] = Nobody THEN row ELSE [row EXCEPT ![u] = [row[u] EXCEPT !.count = row[u].count + 1]]
          BY <2>0, <3>1 DEF Store!Count
        <4> QED
          BY <4>1, <4>2, <4>3
      <3>2. CASE Store!Recount(c)
        <4>1. u \in Sessions
          BY <1>1, <2>0, <3>2 DEF StoreInv, StoreTyping, WellFormed, Store!Recount, Store!At
        <4>2. Store!Cardinality(Store!EventsOf(u)) \in Nat
          BY EventsAreFinite DEF Store!EventsOf
        <4>3. row' = IF row[u] = Nobody THEN row
                     ELSE [row EXCEPT ![u] = [row[u] EXCEPT !.count = Store!Cardinality(Store!EventsOf(u))]]
          BY <2>0, <3>2 DEF Store!Recount
        <4> QED
          BY <4>1, <4>2, <4>3
      <3> QED
        BY <3>1, <3>2
        DEF Store!Insert, Store!Index, Store!Edit, Store!Reindex, Store!Erase, Store!Unindex, Store!tables
    <2>2. CASE UNCHANGED row
      BY <2>2 DEF FlagOf
    <2>3. ASSUME NEW t \in Sessions, NEW n \in Nat, row[t] # Nobody, row' = [row EXCEPT ![t] = [row[t] EXCEPT !.count = n]]
          PROVE  FlagOf(s)' = FlagOf(s) /\ (row[s] = Nobody => row'[s] = Nobody)
      <3>1. CASE s = t
        <4>1. row[s] \in Store!Row /\ row'[s] = [row[s] EXCEPT !.count = n]
          BY <2>3, <3>1 DEF StoreInv, StoreTyping
        <4>2. row'[s].archived = row[s].archived /\ row'[s] \in Store!Row
          BY <4>1 DEF Store!Row
        <4>3. row'[s] # Nobody
          BY <4>2 DEF Store!StoreAssumption
        <4> QED
          BY <2>3, <3>1, <4>2, <4>3 DEF FlagOf
      <3>2. CASE s # t
        BY <2>3, <3>2 DEF FlagOf, StoreInv, StoreTyping
      <3> QED
        BY <3>1, <3>2
    <2> QED
      BY <2>1, <2>2, <2>3
  <1> QED
    BY <1>1, <1>3, <1>4, FlagStays

\* A flag that is set is asked for, and nobody holds the row as it was; a session
\* that is deleted has none.
LEMMA FlagSets ==
  ASSUME Store!StoreAssumption, StoreInv, FlagInv, NEW s \in Sessions, NEW b \in BOOLEAN,
         row[s] # Nobody, row' \in [Sessions -> Store!Row \cup {Nobody}],
         FlagOf(s)' = b, \A t \in Sessions : t # s => row'[t] = row[t],
         UNCHANGED does, want' = [want EXCEPT ![s] = b],
         stale' = IF Store!Holding(s) = {} THEN stale \ {s} ELSE stale \cup {s}
  PROVE  FlagInv'
  <1>1. want' \in [Sessions -> BOOLEAN] /\ want'[s] = b /\ \A t \in Sessions : t # s => want'[t] = want[t]
    BY DEF FlagInv
  <1>2. s \notin stale' => \A c \in Clients : ~(does[c].s = s /\ does[c].pc \in InHand)
    BY DEF Store!Holding, InHand
  <1>3. ASSUME NEW t \in Sessions \ stale'
        PROVE  /\ FlagOf(t)' = want'[t]
               /\ \A c \in Clients : does'[c].s = t /\ does'[c].pc \in InHand => Store!Seen(c, t)'.archived = want'[t]
    <2>1. CASE t = s
      BY <1>1, <1>2, <2>1
    <2>2. CASE t # s
      <3>1. t \notin stale /\ FlagOf(t)' = FlagOf(t) /\ \A c \in Clients : Store!Seen(c, t)' = Store!Seen(c, t)
        BY <2>2 DEF FlagOf, Store!Seen, Store!Basic
      <3> QED
        BY <1>1, <2>2, <3>1 DEF FlagInv
    <2> QED
      BY <2>1, <2>2
  <1>4. ASSUME NEW c \in Clients, does'[c].pc = "forkput"
        PROVE  /\ row'[does'[c].s] = Nobody
               /\ \A d \in Clients : d # c /\ does'[d].pc \notin Homeless => does'[d].s # does'[c].s
    <2>1. row[does[c].s] = Nobody /\ does[c].s \in Sessions
      BY <1>4 DEF FlagInv, StoreInv, StoreTyping, WellFormed
    <2> QED
      BY <1>4, <2>1 DEF FlagInv
  <1> QED
    BY <1>1, <1>3, <1>4 DEF FlagInv

\* A session is renamed, flagged or deleted.
LEMMA FlagAtRows ==
  ASSUME Store!StoreAssumption, StoreInv, FlagInv, NEW s \in Sessions,
         Store!Rename(s) \/ Store!Flag(s) \/ Store!Delete(s)
  PROVE  FlagInv'
  <1>1. row[s] # Nobody /\ row[s] \in Store!Row /\ row \in [Sessions -> Store!Row \cup {Nobody}] /\ UNCHANGED does
    BY DEF Store!Rename, Store!Flag, Store!Delete, StoreInv, StoreTyping
  <1>2. Nobody \notin Store!Row
    BY DEF Store!StoreAssumption
  <1>3. CASE Store!Rename(s)
    <2> DEFINE m == [row[s] EXCEPT !.name = "mine"]
    <2>1. m \in Store!Row /\ m.archived = row[s].archived
      BY <1>1 DEF Store!Row
    <2>2. row' = [row EXCEPT ![s] = m] /\ UNCHANGED <<want, stale>>
      BY <1>3 DEF Store!Rename, Store!ghosts
    <2> HIDE DEF m
    <2>3. \A t \in Sessions : FlagOf(t)' = FlagOf(t) /\ (row[t] = Nobody => row'[t] = Nobody)
      BY <1>1, <1>2, <2>1, <2>2 DEF FlagOf
    <2> QED
      BY <1>1, <2>2, <2>3, FlagStays
  <1>4. CASE Store!Flag(s)
    <2>1. PICK b \in BOOLEAN : /\ row' = [row EXCEPT ![s] = [row[s] EXCEPT !.archived = b]]
                               /\ want' = [want EXCEPT ![s] = b]
      BY <1>4 DEF Store!Flag
    <2>2. stale' = IF Store!Holding(s) = {} THEN stale \ {s} ELSE stale \cup {s}
      BY <1>4 DEF Store!Flag
    <2> DEFINE m == [row[s] EXCEPT !.archived = b]
    <2>3. m \in Store!Row /\ m.archived = b
      BY <1>1 DEF Store!Row
    <2> HIDE DEF m
    <2>4. row' = [row EXCEPT ![s] = m]
      BY <2>1 DEF m
    <2>5. /\ row' \in [Sessions -> Store!Row \cup {Nobody}] /\ FlagOf(s)' = b
          /\ \A t \in Sessions : t # s => row'[t] = row[t]
      BY <1>1, <1>2, <2>3, <2>4 DEF FlagOf
    <2> QED
      BY <1>1, <2>1, <2>2, <2>5, FlagSets
  <1>5. CASE Store!Delete(s)
    <2>1. /\ row' = [row EXCEPT ![s] = Nobody] /\ want' = [want EXCEPT ![s] = FALSE]
          /\ stale' = IF Store!Holding(s) = {} THEN stale \ {s} ELSE stale \cup {s}
      BY <1>5 DEF Store!Delete
    <2>2. /\ row' \in [Sessions -> Store!Row \cup {Nobody}] /\ FlagOf(s)' = FALSE
          /\ \A t \in Sessions : t # s => row'[t] = row[t]
      BY <1>1, <2>1 DEF FlagOf
    <2> QED
      BY <1>1, <2>1, <2>2, FlagSets
  <1> QED
    BY <1>3, <1>4, <1>5

\* Operations that are asked for.
LEMMA FlagAtAsks ==
  ASSUME Store!StoreAssumption, StoreInv, FlagInv, NEW c \in Clients,
         \/ \E s \in Sessions : Store!BeginRun(c, s) \/ Store!BeginAppend(c, s)
                                \/ \E t \in Sessions : Store!BeginFork(c, s, t)
         \/ \E i \in Store!Ids : Store!BeginEdit(c, i) \/ \E s \in Sessions : Store!BeginErase(c, s, i)
  PROVE  FlagInv'
  <1>1. /\ <<c>> \in Seq(Clients) /\ <<>> \in Seq(Clients) /\ 0 \in Nat /\ Store!Ids \subseteq Nat
        /\ {"meta", "get", "forkput", "edit", "erase"} \subseteq Points
    BY DEF Points, AtMessage, Store!Ids
  <1>2. ASSUME NEW s \in Sessions, NEW pc \in {"meta", "get"}, Store!Ask(c, s, Store!Doing(pc, s, 0, <<c>>, FALSE, TRUE))
        PROVE  FlagInv'
    <2> DEFINE r == Store!Doing(pc, s, 0, <<c>>, FALSE, TRUE)
    <2>1. Store!Ask(c, s, r)
      BY <1>2
    <2>2. r \in Operation /\ r.pc = pc /\ r.s = s
      BY <1>1 DEF Operation, Store!Doing
    <2> HIDE DEF r
    <2>3. r.pc \notin InHand /\ r.pc # "forkput"
      BY <2>2 DEF InHand
    <2> QED
      BY <2>1, <2>2, <2>3, FlagAsked
  <1>3. ASSUME NEW s \in Sessions, NEW t \in Sessions, Store!BeginFork(c, s, t)
        PROVE  FlagInv'
    <2> DEFINE n == Store!Cardinality(Store!EventsOf(s))
    <2>1. PICK ids \in [1..n -> Store!EventsOf(s)] :
              Store!Ask(c, t, Store!Doing("forkput", t, 0, [k \in 1..n |-> event[ids[k]].text], FALSE, FALSE))
      BY <1>3 DEF Store!BeginFork
    <2> DEFINE texts == [k \in 1..n |-> event[ids[k]].text]
               r == Store!Doing("forkput", t, 0, texts, FALSE, FALSE)
    <2>2. n \in Nat
      BY EventsAreFinite DEF Store!EventsOf
    <2>3. \A e \in Store!EventsOf(s) : event[e].text \in Clients
      BY DEF StoreInv, StoreTyping, Store!EventsOf, Store!Event
    <2>4. Store!Ask(c, t, r)
      BY <2>1
    <2> HIDE DEF n
    <2>5. texts \in Seq(Clients)
      BY <2>1, <2>2, <2>3
    <2> HIDE DEF texts
    <2>6. r \in Operation /\ r.pc = "forkput" /\ r.s = t
      BY <1>1, <2>5 DEF Operation, Store!Doing
    <2> HIDE DEF r
    <2>7. row[t] = Nobody /\ \A d \in Clients : does[d].s # t
      BY <1>3 DEF Store!BeginFork
    <2>8. r.pc \notin InHand
      BY <2>6 DEF InHand
    <2> QED
      BY <2>4, <2>6, <2>7, <2>8, FlagAsked
  <1>4. ASSUME NEW i \in Store!Ids, Store!BeginEdit(c, i)
        PROVE  FlagInv'
    <2> DEFINE r == Store!Doing("edit", Nobody, i, <<>>, FALSE, FALSE)
    <2>1. Store!Ask(c, Nobody, r)
      BY <1>4 DEF Store!BeginEdit
    <2>2. r \in Operation /\ r.pc = "edit"
      BY <1>1 DEF Operation, Store!Doing
    <2> HIDE DEF r
    <2>3. r.pc \notin InHand /\ r.pc \in Homeless /\ r.pc # "forkput"
      BY <2>2 DEF InHand, Homeless
    <2> QED
      BY <2>1, <2>2, <2>3, FlagAsked
  <1>5. ASSUME NEW i \in Store!Ids, NEW s \in Sessions, NEW many \in BOOLEAN,
               Store!Ask(c, s, Store!Doing("erase", s, i, <<>>, many, FALSE))
        PROVE  FlagInv'
    <2> DEFINE r == Store!Doing("erase", s, i, <<>>, many, FALSE)
    <2>1. Store!Ask(c, s, r)
      BY <1>5
    <2>2. r \in Operation /\ r.pc = "erase" /\ r.s = s
      BY <1>1 DEF Operation, Store!Doing
    <2> HIDE DEF r
    <2>3. r.pc \notin InHand /\ r.pc # "forkput"
      BY <2>2 DEF InHand
    <2> QED
      BY <2>1, <2>2, <2>3, FlagAsked
  <1> QED
    BY <1>2, <1>3, <1>4, <1>5 DEF Store!BeginRun, Store!BeginAppend, Store!BeginErase

\* Every step keeps FlagInv.
LEMMA FlagStep ==
  ASSUME Store!StoreAssumption, StoreInv, FlagInv, [Store!Next]_(Store!vars)
  PROVE  FlagInv'
  <1>1. CASE UNCHANGED Store!vars
    <2>1. UNCHANGED <<row, does, want, stale>>
      BY <1>1 DEF Store!vars, Store!tables, Store!ghosts
    <2>2. \A s \in Sessions : FlagOf(s)' = FlagOf(s)
      BY <2>1 DEF FlagOf
    <2> QED
      BY <2>1, <2>2, FlagStays
  <1>2. ASSUME NEW c \in Clients, Store!Step(c)
        PROVE  FlagInv'
    BY <1>2, FlagGets, FlagPuts, FlagAtEvents DEF Store!Step
  <1>3. ASSUME NEW c \in Clients,
               \/ \E s \in Sessions : Store!BeginRun(c, s) \/ Store!BeginAppend(c, s)
                                      \/ \E t \in Sessions : Store!BeginFork(c, s, t)
               \/ \E i \in Store!Ids : Store!BeginEdit(c, i) \/ \E s \in Sessions : Store!BeginErase(c, s, i)
        PROVE  FlagInv'
    BY <1>3, FlagAtAsks
  <1>4. ASSUME NEW s \in Sessions, Store!Rename(s) \/ Store!Flag(s) \/ Store!Delete(s)
        PROVE  FlagInv'
    BY <1>4, FlagAtRows
  <1>5. CASE Store!Kill
    <2>1. does' = [c \in Clients |-> Store!Idle] /\ UNCHANGED <<row, want, stale>>
      BY <1>5 DEF Store!Kill, Store!tables
    <2>2. \A c \in Clients : does'[c].pc = "idle"
      BY <2>1, OperationIdle
    <2>3. \A s \in Sessions : FlagOf(s)' = FlagOf(s)
      BY <2>1 DEF FlagOf
    <2> QED
      BY <2>1, <2>2, <2>3, FlagStays DEF InHand, Homeless
  <1> QED
    BY <1>1, <1>2, <1>3, <1>4, <1>5 DEF Store!Next

(* A run, a name and a channel read a session's row to write it whole, and  *)
(* they neither bring back nor drop its archived flag: whatever of them go  *)
(* on at once, the flag is the one last asked for, unless it was set, or    *)
(* the session deleted, between the read of a row and its write.            *)
THEOREM FlagIsKept == Store!Spec => []FlagKept
  <1>1. Store!Init => FlagInv
    BY OperationIdle DEF Store!Init, FlagInv, FlagOf, InHand
  <1>2. StoreInv /\ FlagInv /\ [Store!Next]_(Store!vars) => FlagInv'
    BY SessionsAssumption, FlagStep
  <1>3. FlagInv => FlagKept
    BY DEF FlagInv, FlagOf, FlagKept, Store!FlagKept
  <1> QED
    BY <1>1, <1>2, <1>3, StoreInvariance, PTL DEF Store!Spec
=============================================================================
