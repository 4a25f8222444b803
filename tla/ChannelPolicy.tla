--------------------------- MODULE ChannelPolicy ----------------------------
(***************************************************************************)
(* One channel of ChannelService (crates/daemon/src/channels/mod.rs): calls*)
(* to its accounts under their limits (rate, timeout and retries, circuit  *)
(* breaker), whose health is kept in settings.json, and the requests that  *)
(* edit the accounts.  Nothing locks the file: each of them loads it,      *)
(* changes its copy and saves it whole.  What an adapter does behind an    *)
(* attempt is a choice between success and failure.                        *)
(***************************************************************************)
EXTENDS Integers

CONSTANTS
    Accounts,   \* account ids
    First(_),   \* First(S): the first of a set of ids, in the order of their names
    Callers,    \* requests in flight, one call each at a time
    Limit,      \* rate_limit_per_minute
    Window,     \* the minute of the rate limit, in ticks
    Retries,    \* max_retries
    Threshold,  \* circuit_breaker_threshold
    OpenFor,    \* circuit_breaker_open_ms, in ticks
    MaxCalls,   \* bound: calls ever made
    MaxEdits,   \* bound: edits of the accounts ever made
    MaxTime,    \* bound: the clock
    None

Kinds == {"login", "logout", "send"}    \* probe and resolve are as send
Health == [fails : Nat, until : Nat]
File == [health : [Accounts -> {None} \cup Health], default : Accounts \cup {None}]
Edit == [kind : {"upsert", "default", "remove", "legacy"}, acct : Accounts, cfg : File, wiped : BOOLEAN]

PolicyAssumption ==
    /\ {Limit, Window, Threshold, OpenFor} \subseteq Nat \ {0}
    /\ {Retries, MaxCalls, MaxEdits, MaxTime} \subseteq Nat
    /\ \A S \in (SUBSET Accounts) \ {{}} : First(S) \in S
    /\ None \notin Accounts \cup Health \cup Edit
    /\ "edit" \notin Callers

VARIABLES
    file,       \* the channel in settings.json: its accounts' health, its default
    session,    \* session[a]: channel-sessions/<channel>/<a>/session.json
    throttle,   \* ChannelRuntimeState::throttles
    call,       \* call[p]: the operation p is in
    edit,       \* the edit in progress, or None
    clock, calls, edits,
    streak,     \* ghost: streak[a]: failures of a recorded since its last success
    overlapped, \* ghost: two load-and-save of settings.json have overlapped
    late        \* ghost: accounts removed while a login or logout of theirs was ending

vars == <<file, session, throttle, call, edit, clock, calls, edits, streak, overlapped, late>>

Fresh == [fails |-> 0, until |-> 0]     \* ChannelAccountHealthState::default, until = 0 for None
Idle == [stage |-> "idle"]
Known(f) == {a \in Accounts : f.health[a] # None}

\* Who has loaded the file to save it.
Holders == {p \in Callers : call[p].stage = "saving"} \cup (IF edit = None THEN {} ELSE {"edit"})

Init == /\ file = [health |-> [a \in Accounts |-> None], default |-> None]
        /\ session = [a \in Accounts |-> "none"]
        /\ throttle = [a \in Accounts |-> [since |-> -Window, count |-> 0]]
        /\ call = [p \in Callers |-> Idle] /\ edit = None
        /\ clock = 0 /\ calls = 0 /\ edits = 0
        /\ streak = [a \in Accounts |-> 0]
        /\ overlapped = FALSE /\ late = {}

-----------------------------------------------------------------------------
\* The account a request means: the one it names, else the default, else the
\* only one; None when that is no account or ambiguous.
SelectAccount(want) ==
    IF want # None THEN IF want \in Known(file) THEN want ELSE None
    ELSE IF file.default \in Known(file) THEN file.default
    ELSE IF \E a \in Accounts : Known(file) = {a} THEN First(Known(file)) ELSE None

\* A request names an account, which login and logout must, or leaves it to the
\* channel; it keeps the health it reads here until it has passed the limiter.
Request(p, kind, want) ==
    LET a == SelectAccount(want)
    IN  /\ call[p] = Idle /\ calls < MaxCalls /\ a # None
        /\ kind \in {"login", "logout"} => want # None
        /\ call' = [call EXCEPT ![p] = [stage |-> "loaded", kind |-> kind, acct |-> a,
                                         health |-> file.health[a]]]
        /\ calls' = calls + 1
        /\ UNCHANGED <<file, session, throttle, edit, clock, edits, streak, overlapped, late>>

\* The limiter, under its lock: a window of its own length from its first call.
Windowed(a) == IF clock - throttle[a].since >= Window THEN [since |-> clock, count |-> 0]
                                                      ELSE throttle[a]

\* enforce_rate_limit, then enforce_circuit_breaker: a call that the breaker
\* refuses has used up its share of the minute.
Admit(p) ==
    LET a == call[p].acct
        w == Windowed(a)
    IN  /\ call[p].stage = "loaded"
        /\ IF w.count >= Limit
           THEN /\ throttle' = [throttle EXCEPT ![a] = w]
                /\ call' = [call EXCEPT ![p] = Idle]
           ELSE /\ throttle' = [throttle EXCEPT ![a] = [w EXCEPT !.count = @ + 1]]
                /\ call' = [call EXCEPT ![p] =
                              IF call[p].health.until > clock THEN Idle
                              ELSE [stage |-> "running", kind |-> call[p].kind, acct |-> a, try |-> 0]]
        /\ UNCHANGED <<file, session, edit, clock, calls, edits, streak, overlapped, late>>

\* execute_with_policy: an attempt succeeds, or fails or times out and is made
\* again after the back-off.
Attempt(p) ==
    LET End(ok) == [stage |-> "ended", kind |-> call[p].kind, acct |-> call[p].acct, ok |-> ok]
    IN  /\ call[p].stage = "running"
        /\ \/ call' = [call EXCEPT ![p] = End(TRUE)]
           \/ call[p].try < Retries /\ call' = [call EXCEPT ![p].try = @ + 1]
           \/ call[p].try >= Retries /\ call' = [call EXCEPT ![p] = End(FALSE)]
        /\ UNCHANGED <<file, session, throttle, edit, clock, calls, edits, streak, overlapped, late>>

\* update_health loads the file anew; an account that is gone ends the call.
LoadHealth(p) ==
    /\ call[p].stage = "ended"
    /\ call' = [call EXCEPT ![p] = IF call[p].acct \notin Known(file) THEN Idle
                                   ELSE [stage |-> "saving", kind |-> @.kind, acct |-> @.acct,
                                         ok |-> @.ok, cfg |-> file]]
    /\ UNCHANGED <<file, session, throttle, edit, clock, calls, edits, streak, overlapped, late>>

\* Mutant: the breaker is opened one failure late.
Outcome_Late(h, ok) ==
    IF ok THEN Fresh
    ELSE [fails |-> h.fails + 1, until |-> IF h.fails + 1 > Threshold THEN clock + OpenFor ELSE h.until]

\* What a result makes of the health of an account.
Outcome(h, ok) ==
    IF ok THEN Fresh
    ELSE [fails |-> h.fails + 1, until |-> IF h.fails + 1 >= Threshold THEN clock + OpenFor ELSE h.until]

\* ... and saves the whole of it; a login or logout then has its session to save.
SaveHealth(p) ==
    LET a == call[p].acct
    IN  /\ call[p].stage = "saving"
        /\ file' = [call[p].cfg EXCEPT !.health[a] = Outcome(@, call[p].ok)]
        /\ streak' = [streak EXCEPT ![a] = IF call[p].ok THEN 0 ELSE @ + 1]
        /\ overlapped' = (overlapped \/ Holders # {p})
        /\ call' = [call EXCEPT ![p] = IF @.ok /\ @.kind # "send"
                                       THEN [stage |-> "session", kind |-> @.kind, acct |-> a] ELSE Idle]
        /\ UNCHANGED <<session, throttle, edit, clock, calls, edits, late>>

\* The session the adapters leave: every logout leaves one that says so, and a
\* login one that is connected or waits for its QR code.
LeftBy(kind) == IF kind = "login" THEN "connected" ELSE "logged_out"

SaveSession(p) ==
    /\ call[p].stage = "session"
    /\ session' = [session EXCEPT ![call[p].acct] = LeftBy(call[p].kind)]
    /\ call' = [call EXCEPT ![p] = Idle]
    /\ UNCHANGED <<file, throttle, edit, clock, calls, edits, streak, overlapped, late>>

\* The client goes away: the call is dropped where it waits, for the lock, for
\* the adapter, or for the audit log between the health and the session.
Abandon(p) ==
    /\ call[p].stage \in {"loaded", "running", "session"}
    /\ call' = [call EXCEPT ![p] = Idle]
    /\ UNCHANGED <<file, session, throttle, edit, clock, calls, edits, streak, overlapped, late>>

-----------------------------------------------------------------------------
\* What an edit makes of the channel as it was loaded.
Upserted(f, a, asDefault) ==
    [health  |-> [f.health EXCEPT ![a] = IF @ = None THEN Fresh ELSE @],
     default |-> IF asDefault THEN a ELSE f.default]

\* Mutant: the default stays.
Removed_Dangling(f, a) == [f EXCEPT !.health[a] = None]

Removed(f, a) ==
    LET left == Known(f) \ {a}
    IN  [health  |-> [f.health EXCEPT ![a] = None],
         default |-> IF f.default # a THEN f.default ELSE IF left = {} THEN None ELSE First(left)]

\* legacy_remove takes the whole channel, and leaves its sessions.
LegacyRemoved == [health |-> [a \in Accounts |-> None], default |-> None]

LoadEdit(kind, a) ==
    /\ edit = None /\ edits < MaxEdits
    /\ kind = "remove" => a \in Known(file)
    /\ edit' = [kind |-> kind, acct |-> a, cfg |-> file, wiped |-> FALSE]
    /\ edits' = edits + 1
    /\ UNCHANGED <<file, session, throttle, call, clock, calls, streak, overlapped, late>>

\* Mutant: the session is not taken away.
WipeSession_Not ==
    /\ edit # None /\ edit.kind = "remove" /\ ~edit.wiped
    /\ edit' = [edit EXCEPT !.wiped = TRUE]
    /\ UNCHANGED <<file, session, throttle, call, clock, calls, edits, streak, overlapped, late>>

\* remove_account takes the session away first.
WipeSession ==
    /\ edit # None /\ edit.kind = "remove" /\ ~edit.wiped
    /\ session' = [session EXCEPT ![edit.acct] = "none"]
    /\ edit' = [edit EXCEPT !.wiped = TRUE]
    /\ late' = IF \E p \in Callers : call[p].stage = "session" /\ call[p].acct = edit.acct
               THEN late \cup {edit.acct} ELSE late \ {edit.acct}
    /\ UNCHANGED <<file, throttle, call, clock, calls, edits, streak, overlapped>>

SaveEdit ==
    /\ edit # None /\ (edit.kind = "remove" => edit.wiped)
    /\ file' = CASE edit.kind = "upsert"  -> Upserted(edit.cfg, edit.acct, FALSE)
                 [] edit.kind = "default" -> Upserted(edit.cfg, edit.acct, TRUE)
                 [] edit.kind = "remove"  -> Removed(edit.cfg, edit.acct)
                 [] edit.kind = "legacy"  -> LegacyRemoved
    /\ streak' = [a \in Accounts |-> IF a \in Known(file') THEN streak[a] ELSE 0]
    /\ overlapped' = (overlapped \/ Holders # {"edit"})
    /\ late' = IF edit.kind = "legacy" THEN Accounts ELSE late
    /\ edit' = None
    /\ UNCHANGED <<session, throttle, call, clock, calls, edits>>

Tick == /\ clock < MaxTime /\ clock' = clock + 1
        /\ UNCHANGED <<file, session, throttle, call, edit, calls, edits, streak, overlapped, late>>

-----------------------------------------------------------------------------
CallStep(p) == Admit(p) \/ Attempt(p) \/ LoadHealth(p) \/ SaveHealth(p) \/ SaveSession(p)

Next == \/ \E p \in Callers : \/ CallStep(p) \/ Abandon(p)
                              \/ \E k \in Kinds, w \in Accounts \cup {None} : Request(p, k, w)
        \/ \E k \in {"upsert", "default", "remove", "legacy"}, a \in Accounts : LoadEdit(k, a)
        \/ WipeSession \/ SaveEdit \/ Tick

Spec == Init /\ [][Next]_vars

-----------------------------------------------------------------------------
TypeOK == /\ file \in File
          /\ session \in [Accounts -> {"none", "connected", "logged_out"}]
          /\ throttle \in [Accounts -> [since : -Window..MaxTime, count : 0..Limit]]
          /\ late \subseteq Accounts /\ overlapped \in BOOLEAN

(* A health that was read before a long call is not what is written after   *)
(* it: until two updates of the file overlap, the failures counted are      *)
(* those since the last success, and the breaker has been opened exactly if *)
(* they are Threshold in a row (mod.rs L1149-1190, L1274-1288).             *)
HealthExact ==
    ~overlapped => \A a \in Known(file) : /\ file.health[a].fails = streak[a]
                                          /\ file.health[a].until > 0 <=> streak[a] >= Threshold

(* However edits and calls overwrite each other's copies of the file, its   *)
(* default account is one of its accounts (mod.rs L596-598).                *)
DefaultExists == file.default # None => file.default \in Known(file)

(* An account that is gone leaves a session only if a login or logout of it *)
(* was between its health and its session when it went, or the updates of   *)
(* the file overlapped, or the channel went as a whole (mod.rs L603).       *)
OrphanSessionsWereLate ==
    \A a \in Accounts : session[a] # "none" /\ a \notin Known(file) => a \in late \/ overlapped
=============================================================================
