---------------------------- MODULE SessionStore ----------------------------
(***************************************************************************)
(* Sessions in SQLite (crates/agent-core/src/session.rs, state_store.rs):  *)
(* a row per session with its name, flags and message count, the events of *)
(* its transcript, and a full-text index of them.  SQLite makes each       *)
(* statement atomic; an operation is several, on connections of their own  *)
(* and in no transaction, so those of other requests come between them,    *)
(* and a kill of the daemon.                                               *)
(***************************************************************************)
EXTENDS Integers, Sequences, FiniteSets

CONSTANTS
    Sessions,
    Clients,    \* requests and runs, one operation at a time each
    MaxOps,     \* bound: operations
    MaxEvents,  \* bound: events ever inserted
    MaxKills,   \* bound: kills of the daemon
    None

Ids == 1..MaxEvents
Row == [name : {"new", "auto", "mine"}, archived : BOOLEAN, count : Nat]
Event == [in : Sessions, text : Clients]    \* a text is known by who wrote it
StoreAssumption == MaxEvents \in Nat /\ None \notin Row \cup Event

VARIABLES
    row,    \* row[s]: [name, archived, count], or None
    event,  \* event[i]: [in, text] of the event with that id, or None
    last,   \* the last id given: AUTOINCREMENT gives none twice
    index,  \* index[i]: what session_events_fts has for it, or None
    op,     \* op[c]: the operation of a client
    ops, kills,
    off,    \* ghost: sessions whose count a race or a kill may have put off
    want,   \* ghost: want[s], the archived flag as it was last asked for
    stale,  \* ghost: sessions flagged or deleted while an old row was about to be written
    torn    \* ghost: ids that two operations were at at once, or a kill came upon,
            \* or that went with their session

tables == <<row, event, last, index>>
ghosts == <<off, want, stale, torn>>
vars == <<tables, op, ops, kills, ghosts>>

Doing(pc, s, i, todo, many, run) ==
    [pc |-> pc, s |-> s, id |-> i, seen |-> None, todo |-> todo, many |-> many, run |-> run]
Idle == Doing("idle", None, 0, <<>>, FALSE, FALSE)
Basic == [name |-> "new", archived |-> FALSE, count |-> 0]

Init == /\ row = [s \in Sessions |-> None] /\ event = [i \in Ids |-> None] /\ last = 0
        /\ index = [i \in Ids |-> None] /\ op = [c \in Clients |-> Idle]
        /\ ops = 0 /\ kills = 0
        /\ off = {} /\ want = [s \in Sessions |-> FALSE] /\ stale = {} /\ torn = {}

-----------------------------------------------------------------------------
At(c, pc) == op[c].pc = pc
Go(c, pc) == op' = [op EXCEPT ![c].pc = pc]
Done(c) == op' = [op EXCEPT ![c] = Idle]
EventsOf(s) == {i \in Ids : event[i] # None /\ event[i].in = s}

Uncounted(s) == {c \in Clients : op[c].s = s /\ op[c].pc \in {"index", "count"}}
Erasing(s) == {c \in Clients : op[c].s = s /\ op[c].pc \in {"unindex", "recount"}}
Holding(s) == {c \in Clients : op[c].s = s /\ op[c].pc \in {"metaput", "put", "nameput"}}
Touched(c) == IF op[c].pc \in {"index", "reindex"} \/ (At(c, "unindex") /\ ~op[c].many) THEN {op[c].id}
              ELSE IF At(c, "unindex") THEN {i \in Ids : i > op[c].id} ELSE {}
Tear(c, is) == torn' = torn \cup (is \cap UNION {Touched(d) : d \in Clients \ {c}})

\* INSERT ... ON CONFLICT DO UPDATE: all of a row but its count.
Upsert(s, meta) ==
    /\ row' = [row EXCEPT ![s] = IF @ = None THEN meta ELSE [meta EXCEPT !.count = row[s].count]]
    /\ off' = IF row[s] = None /\ meta.count # 0 THEN off \cup {s} ELSE off

Seen(c, s) == IF op[c].seen = None THEN Basic ELSE op[c].seen

-----------------------------------------------------------------------------
\* A run of the agent asks for its session and appends a message; other parts of
\* the daemon only append; a fork copies what it loads into a session of its own.
Ask(c, s, new) == /\ ops < MaxOps /\ ops' = ops + 1 /\ op[c] = Idle
                  /\ \A d \in Clients : At(d, "forkput") => op[d].s # s   \* an id nobody knows yet
                  /\ op' = [op EXCEPT ![c] = new]
                  /\ UNCHANGED <<tables, kills, ghosts>>

BeginRun(c, s) == Ask(c, s, Doing("meta", s, 0, <<c>>, FALSE, TRUE))
BeginAppend(c, s) == Ask(c, s, Doing("get", s, 0, <<c>>, FALSE, TRUE))
BeginEdit(c, i) == i <= last /\ Ask(c, None, Doing("edit", None, i, <<>>, FALSE, FALSE))
BeginErase(c, s, i) == i <= last /\ \E many \in BOOLEAN : Ask(c, s, Doing("erase", s, i, <<>>, many, FALSE))

BeginFork(c, s, t) ==
    /\ row[s] # None /\ row[t] = None /\ \A d \in Clients : op[d].s # t
    /\ LET n == Cardinality(EventsOf(s))
       IN  \E ids \in [1..n -> EventsOf(s)] :
              /\ \A j, k \in 1..n : j < k => ids[j] < ids[k]
              /\ Ask(c, t, Doing("forkput", t, 0, [k \in 1..n |-> event[ids[k]].text], FALSE, FALSE))

ForkPut(c) == /\ At(c, "forkput") /\ Upsert(op[c].s, Basic)
              /\ IF op[c].todo = <<>> THEN Done(c) ELSE Go(c, "insert")
              /\ UNCHANGED <<event, last, index, ops, kills, want, stale, torn>>

\* ensure_session and ensure_session_with_meta read the row, to write it whole.
Get(c) == /\ op[c].pc \in {"meta", "get"}
          /\ op' = [op EXCEPT ![c].pc = IF @ = "meta" THEN "metaput" ELSE "put", ![c].seen = row[op[c].s]]
          /\ UNCHANGED <<tables, ops, kills, ghosts>>

\* Mutant: the row is written without what was read of it.
MetaPut_Basic(c) == /\ At(c, "metaput") /\ Upsert(op[c].s, Basic) /\ Go(c, "get")
                    /\ UNCHANGED <<event, last, index, ops, kills, want, stale, torn>>

\* A run names every session anew; what else it leaves empty is kept.
MetaPut(c) == /\ At(c, "metaput") /\ Upsert(op[c].s, [Seen(c, op[c].s) EXCEPT !.name = "new"])
              /\ Go(c, "get")
              /\ UNCHANGED <<event, last, index, ops, kills, want, stale, torn>>

Put(c) == /\ At(c, "put") /\ Upsert(op[c].s, Seen(c, op[c].s)) /\ Go(c, "insert")
          /\ UNCHANGED <<event, last, index, ops, kills, want, stale, torn>>

\* append_session_event, which the foreign key refuses without a row.
Insert(c) ==
    LET i == last + 1
    IN  /\ At(c, "insert")
        /\ IF row[op[c].s] = None THEN Done(c) /\ UNCHANGED <<event, last, torn>>
           ELSE /\ last < MaxEvents /\ last' = i /\ Tear(c, {i})
                /\ event' = [event EXCEPT ![i] = [in |-> op[c].s, text |-> Head(op[c].todo)]]
                /\ op' = [op EXCEPT ![c].pc = "index", ![c].id = i]
        /\ UNCHANGED <<row, index, ops, kills, off, want, stale>>

Index(c) == /\ At(c, "index") /\ Go(c, "count")
            /\ index' = [index EXCEPT ![op[c].id] = [in |-> op[c].s, text |-> Head(op[c].todo)]]
            /\ UNCHANGED <<row, event, last, ops, kills, ghosts>>

Count(c) ==
    LET s == op[c].s
    IN  /\ At(c, "count")
        /\ row' = IF row[s] = None THEN row ELSE [row EXCEPT ![s].count = @ + 1]
        /\ IF op[c].run THEN Go(c, "name")
           ELSE IF Len(op[c].todo) = 1 THEN Done(c)
           ELSE op' = [op EXCEPT ![c].pc = "insert", ![c].todo = Tail(@)]
        /\ UNCHANGED <<event, last, index, ops, kills, ghosts>>

\* The first message of the user names a session that has no name yet.
Name(c) ==
    LET s == op[c].s
    IN  /\ At(c, "name")
        /\ \/ row[s] # None /\ row[s].count <= 1 /\ row[s].name = "new"
              /\ op' = [op EXCEPT ![c].pc = "nameput", ![c].seen = row[s]]
           \/ Done(c)      \* it is the agent's, or it is not the first
        /\ UNCHANGED <<tables, ops, kills, ghosts>>

NamePut(c) == /\ At(c, "nameput") /\ Upsert(op[c].s, [op[c].seen EXCEPT !.name = "auto"]) /\ Done(c)
              /\ UNCHANGED <<event, last, index, ops, kills, want, stale, torn>>

-----------------------------------------------------------------------------
Edit(c) ==
    LET i == op[c].id
    IN  /\ At(c, "edit")
        /\ IF event[i] = None THEN Done(c) /\ UNCHANGED <<event, torn>>
           ELSE event' = [event EXCEPT ![i].text = c] /\ Go(c, "reindex") /\ Tear(c, {i})
        /\ UNCHANGED <<row, last, index, ops, kills, off, want, stale>>

\* Mutant: the index keeps the text as it was first written.
Reindex_Not(c) == At(c, "reindex") /\ Done(c) /\ UNCHANGED <<tables, ops, kills, ghosts>>

Reindex(c) == /\ At(c, "reindex") /\ Done(c)
              /\ index' = [index EXCEPT ![op[c].id] = IF @ = None THEN None ELSE [@ EXCEPT !.text = c]]
              /\ UNCHANGED <<row, event, last, ops, kills, ghosts>>

\* delete_session_event takes an id of any session; truncate_session_after only those
\* of its own.
Erase(c) ==
    LET s == op[c].s  i == op[c].id
        gone == IF op[c].many THEN {j \in EventsOf(s) : j > i} ELSE {j \in {i} : event[j] # None}
    IN  /\ At(c, "erase") /\ Go(c, "unindex") /\ Tear(c, gone)
        /\ event' = [j \in Ids |-> IF j \in gone THEN None ELSE event[j]]
        /\ off' = off \cup ({event[j].in : j \in gone} \ {s})
        /\ UNCHANGED <<row, last, index, ops, kills, want, stale>>

Unindex(c) ==
    /\ At(c, "unindex") /\ Go(c, "recount")
    /\ index' = [j \in Ids |-> IF IF op[c].many THEN j > op[c].id /\ index[j] # None /\ index[j].in = op[c].s
                                  ELSE j = op[c].id
                               THEN None ELSE index[j]]
    /\ UNCHANGED <<row, event, last, ops, kills, ghosts>>

\* Mutant: the count is taken down by one, as append takes it up.
Recount_Less(c) ==
    LET s == op[c].s
    IN  /\ At(c, "recount") /\ Done(c)
        /\ row' = IF row[s] = None THEN row ELSE [row EXCEPT ![s].count = @ - 1]
        /\ off' = IF Uncounted(s) = {} THEN off \ {s} ELSE off \cup {s}
        /\ UNCHANGED <<event, last, index, ops, kills, want, stale, torn>>

\* recompute_message_count, which counts what an append has inserted and will count.
Recount(c) ==
    LET s == op[c].s
    IN  /\ At(c, "recount") /\ Done(c)
        /\ row' = IF row[s] = None THEN row ELSE [row EXCEPT ![s].count = Cardinality(EventsOf(s))]
        /\ off' = IF Uncounted(s) = {} THEN off \ {s} ELSE off \cup {s}
        /\ UNCHANGED <<event, last, index, ops, kills, want, stale, torn>>

-----------------------------------------------------------------------------
\* Operations of one statement.
Rename(s) == /\ ops < MaxOps /\ ops' = ops + 1 /\ row[s] # None
             /\ row' = [row EXCEPT ![s].name = "mine"]
             /\ UNCHANGED <<event, last, index, op, kills, ghosts>>

Flag(s) == /\ ops < MaxOps /\ ops' = ops + 1 /\ row[s] # None
           /\ \E b \in BOOLEAN : row' = [row EXCEPT ![s].archived = b] /\ want' = [want EXCEPT ![s] = b]
           /\ stale' = IF Holding(s) = {} THEN stale \ {s} ELSE stale \cup {s}
           /\ UNCHANGED <<event, last, index, op, kills, off, torn>>

\* The events go with their session, the index stays.
Delete(s) == /\ ops < MaxOps /\ ops' = ops + 1 /\ row[s] # None
             /\ row' = [row EXCEPT ![s] = None]
             /\ event' = [i \in Ids |-> IF i \in EventsOf(s) THEN None ELSE event[i]]
             /\ off' = IF Uncounted(s) = {} THEN off \ {s} ELSE off \cup {s}
             /\ want' = [want EXCEPT ![s] = FALSE] /\ torn' = torn \cup EventsOf(s)
             /\ stale' = IF Holding(s) = {} THEN stale \ {s} ELSE stale \cup {s}
             /\ UNCHANGED <<last, index, op, kills>>

Kill == /\ kills < MaxKills /\ kills' = kills + 1 /\ op' = [c \in Clients |-> Idle]
        /\ off' = off \cup {s \in Sessions : Uncounted(s) \cup Erasing(s) # {}}
        /\ torn' = torn \cup UNION {Touched(c) : c \in Clients}
        /\ UNCHANGED <<tables, ops, want, stale>>

-----------------------------------------------------------------------------
Step(c) == Get(c) \/ MetaPut(c) \/ Put(c) \/ ForkPut(c) \/ Insert(c) \/ Index(c) \/ Count(c) \/ Name(c)
           \/ NamePut(c) \/ Edit(c) \/ Reindex(c) \/ Erase(c) \/ Unindex(c) \/ Recount(c)

Next == \/ \E c \in Clients :
               \/ Step(c)
               \/ \E s \in Sessions : BeginRun(c, s) \/ BeginAppend(c, s) \/ (\E t \in Sessions : BeginFork(c, s, t))
               \/ \E i \in Ids : BeginEdit(c, i) \/ \E s \in Sessions : BeginErase(c, s, i)
        \/ \E s \in Sessions : Rename(s) \/ Flag(s) \/ Delete(s)
        \/ Kill

Spec == Init /\ [][Next]_vars

-----------------------------------------------------------------------------
TypeOK == /\ \A s \in Sessions : row[s] # None => row[s] \in Row /\ row[s].count <= 2 * MaxEvents
          /\ \A i \in Ids : {event[i], index[i]} \subseteq {None} \cup Event
          /\ off \subseteq Sessions /\ stale \subseteq Sessions /\ torn \subseteq Ids /\ last \in 0..MaxEvents

(* A session's message count is that of its events, although it is counted   *)
(* up by appends and counted over by erasures: only a recount that an append *)
(* was half way through, a message erased under another session's name, a    *)
(* session deleted under a run, or a kill puts it off (state_store.rs        *)
(* L268-314, L1272-1286).                                                    *)
CountExact ==
    \A s \in Sessions \ off :
        row[s] # None /\ Uncounted(s) = {} /\ Erasing(s) = {} => row[s].count = Cardinality(EventsOf(s))

(* The search finds a message by the text it has: the index of a live event  *)
(* is its text, and no erased one is found, unless two operations were at    *)
(* the event at once (L295-303, L974-982, L995-1000).                        *)
IndexTruthful ==
    (\A c \in Clients : Touched(c) = {}) => \A i \in Ids \ torn : index[i] = event[i]

(* Runs do not bring back or drop the archived flag of their session, unless *)
(* it was set between the read of the row and its write (session.rs L207-283).*)
FlagKept == \A s \in Sessions \ stale : row[s] # None => row[s].archived = want[s]
=============================================================================
