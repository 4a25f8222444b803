--------------------------- MODULE OllamaRuntime ----------------------------
(***************************************************************************)
(* The managed Ollama runtime (crates/providers/ollama/src/runtime.rs):    *)
(* prepare() installs the pinned version, starts its server and validates  *)
(* it, under the operation lock of its daemon, for the start-up of the     *)
(* daemon or for a chat, whose request may be dropped where it waits;      *)
(* ensure_ready_for_model() trusts a runtime that is ready and validates   *)
(* another model outside that lock.  Daemons share a root directory and a  *)
(* port.                                                                   *)
(***************************************************************************)
EXTENDS Integers, FiniteSets

CONSTANTS
    Daemons,
    Callers,        \* requests for the runtime, one at a time each
    Home(_),        \* Home(c): the daemon of a caller
    Chats,          \* the callers that are chats; the others are start-ups
    MaxOps,         \* bound: requests ever made
    MaxServers,     \* bound: servers ever spawned
    MaxFaults,      \* bound: damaged installations, killed daemons, foreign servers
    None

ASSUME CallersAssumption == Chats \subseteq Callers /\ \A c \in Callers : Home(c) \in Daemons
ASSUME NoneAssumption == None \notin Callers \cup (1..MaxServers)

VARIABLES
    op,         \* op[c]: where the request is in prepare() or validate_model()
    lock,       \* operation_lock: lock[d], the caller that has it, or None
    cancel,     \* the cancel flags
    phase,      \* status.phase
    ready,      \* status.provider_ready
    held,       \* held[d]: the server in OllamaRuntime::process, or None
    installing, \* install.lock: the caller that has it, or None
    active,     \* active.json is there
    payload,    \* what versions/<version> holds: "none", "whole", "damaged"
    server,     \* server[s]: the life of each server process
    foreign,    \* a server of somebody else answers on the port
    ops, faults,
    orphans,    \* ghost: servers whose daemon was killed
    loose       \* ghost: daemons where a request was dropped, or validated a model,
                \* while the status was not settled

disk == <<installing, active, payload>>
world == <<server, foreign, orphans>>
status == <<phase, ready>>
vars == <<op, lock, cancel, status, held, disk, world, ops, faults, loose>>

Servers == 1..MaxServers
Idle == [pc |-> "idle", origin |-> "managed", recovery |-> FALSE]
Terminal == {"ready", "failed", "cancelled"}
Live(s) == server[s] \in {"booting", "up"}
Answers == foreign \/ \E s \in Servers : server[s] = "up"   \* GET /api/version
Valid == active /\ payload = "whole"                        \* valid_active_runtime

Init == /\ op = [c \in Callers |-> Idle] /\ lock = [d \in Daemons |-> None]
        /\ cancel = [d \in Daemons |-> FALSE]
        /\ phase = [d \in Daemons |-> "checking"] /\ ready = [d \in Daemons |-> FALSE]
        /\ held = [d \in Daemons |-> None]
        /\ installing = None /\ active = FALSE /\ payload = "none"
        /\ server = [s \in Servers |-> "none"] /\ foreign = FALSE
        /\ ops = 0 /\ faults = 0 /\ orphans = {} /\ loose = Daemons

-----------------------------------------------------------------------------
At(c, pc) == op[c].pc = pc
Go(c, pc) == op' = [op EXCEPT ![c].pc = pc]
Show(c, p) == phase' = [phase EXCEPT ![Home(c)] = p] /\ UNCHANGED ready
Cancelled(c) == cancel[Home(c)]

\* Mutant: an error leaves the status as the last step showed it.
Fail_Silent(c) == /\ op' = [op EXCEPT ![c] = Idle]
                  /\ lock' = [lock EXCEPT ![Home(c)] = None]
                  /\ UNCHANGED status

\* What prepare() makes of an error, whatever step it comes from.
Fail(c) == /\ op' = [op EXCEPT ![c] = Idle]
           /\ lock' = [lock EXCEPT ![Home(c)] = None]
           /\ phase' = [phase EXCEPT ![Home(c)] = IF Cancelled(c) THEN "cancelled" ELSE "failed"]
           /\ ready' = [ready EXCEPT ![Home(c)] = FALSE]

\* A request: a start-up, or a chat that finds the runtime not ready, prepares it;
\* one that finds it ready asks the server's version, and is refused, or is done,
\* or has a model to validate.
Ensure(c) ==
    LET d == Home(c)
    IN  /\ op[c] = Idle /\ ops < MaxOps /\ ops' = ops + 1
        /\ \/ /\ c \in Chats => ~ready[d]
              /\ Go(c, "waiting") /\ UNCHANGED <<status, loose>>
           \/ /\ c \in Chats /\ ready[d] /\ foreign
              /\ ready' = [ready EXCEPT ![d] = FALSE]
              /\ UNCHANGED <<op, phase, loose>>
           \/ /\ c \in Chats /\ ready[d] /\ Answers
              /\ Go(c, "model") /\ Show(c, "validating")
              /\ loose' = loose \cup {d}
        /\ UNCHANGED <<lock, cancel, held, disk, world, faults>>

\* validate_model() on its own: an error leaves the status as it is.
Model(c) ==
    /\ At(c, "model") /\ op' = [op EXCEPT ![c] = Idle]
    /\ \/ UNCHANGED status
       \/ /\ Answers
          /\ phase' = [phase EXCEPT ![Home(c)] = "ready"] /\ ready' = [ready EXCEPT ![Home(c)] = TRUE]
    /\ UNCHANGED <<lock, cancel, held, disk, world, ops, faults, loose>>

Acquire(c) ==
    LET d == Home(c)
    IN  /\ At(c, "waiting") /\ lock[d] = None
        /\ lock' = [lock EXCEPT ![d] = c]
        /\ cancel' = [cancel EXCEPT ![d] = FALSE]
        /\ phase' = [phase EXCEPT ![d] = "checking"] /\ ready' = [ready EXCEPT ![d] = FALSE]
        /\ loose' = IF \E e \in Callers : Home(e) = d /\ At(e, "model") THEN loose ELSE loose \ {d}
        /\ Go(c, "discover")
        /\ UNCHANGED <<held, disk, world, ops, faults>>

\* The active runtime, else that of the system, else an installation.
Discover(c) ==
    /\ At(c, "discover")
    /\ \/ Valid /\ Go(c, "start")
       \/ ~Valid /\ ~active /\ op' = [op EXCEPT ![c].pc = "start", ![c].origin = "system"]
       \/ ~Valid /\ Go(c, "install")
    /\ UNCHANGED <<lock, cancel, status, held, disk, world, ops, faults, loose>>

-----------------------------------------------------------------------------
\* Mutant: what another daemon installed in the meantime is not looked at.
Install_Blind(c) ==
    /\ At(c, "install") /\ installing = None
    /\ installing' = c /\ Go(c, "download") /\ Show(c, "downloading")
    /\ UNCHANGED <<lock, cancel, held, active, payload, world, ops, faults, loose>>

\* install_or_update: one at a time per root, and none if one is there by now.
Install(c) ==
    /\ At(c, "install")
    /\ \/ installing # None /\ Fail(c) /\ UNCHANGED disk
       \/ installing = None /\ Valid /\ Go(c, "start") /\ UNCHANGED <<lock, status, disk>>
       \/ /\ installing = None /\ ~Valid
          /\ installing' = c /\ Go(c, "download") /\ Show(c, "downloading")
          /\ UNCHANGED <<lock, active, payload>>
    /\ UNCHANGED <<cancel, held, world, ops, faults, loose>>

Drop(c) == installing' = IF installing = c THEN None ELSE installing

\* The download, which looks at the cancel flag at every chunk, the extraction and
\* the checks of the payload: an error of any of them leaves the disk as it was.
Download(c) ==
    /\ At(c, "download")
    /\ \/ Fail(c) /\ Drop(c)
       \/ ~Cancelled(c) /\ Go(c, "extract") /\ Show(c, "installing") /\ UNCHANGED <<lock, installing>>
    /\ UNCHANGED <<cancel, held, active, payload, world, ops, faults, loose>>

Extract(c) ==
    /\ At(c, "extract")
    /\ \/ Fail(c) /\ Drop(c)
       \/ ~Cancelled(c) /\ Go(c, "swap") /\ UNCHANGED <<lock, status, installing>>
    /\ UNCHANGED <<cancel, held, active, payload, world, ops, faults, loose>>

\* An old directory is set aside, the new one moved into its place, and the
\* manifest renamed over the old: three steps that a kill can come between.
Swap(c) ==
    /\ \/ At(c, "swap") /\ payload' = "none" /\ Go(c, "place") /\ UNCHANGED <<active, installing>>
       \/ At(c, "place") /\ payload' = "whole" /\ Go(c, "manifest") /\ UNCHANGED <<active, installing>>
       \/ At(c, "manifest") /\ active' = TRUE /\ Drop(c) /\ UNCHANGED payload
          /\ op' = [op EXCEPT ![c].pc = "start", ![c].origin = "managed"]
    /\ UNCHANGED <<lock, cancel, status, held, world, ops, faults, loose>>

-----------------------------------------------------------------------------
\* Mutant: the server of an earlier attempt is not stopped.
Stop_Not(c) == UNCHANGED <<server, held>>

\* stop_owned_process
Stop(c) == /\ server' = [s \in Servers |-> IF s = held[Home(c)] THEN "dead" ELSE server[s]]
           /\ held' = [held EXCEPT ![Home(c)] = None]

\* start_and_validate, up to the process: the server of an earlier attempt is
\* stopped, and a port that still answers, whoever does, is an error.
Start(c) ==
    /\ At(c, "start")
    /\ \/ Cancelled(c) /\ Fail(c) /\ UNCHANGED <<server, held>>
       \/ ~Cancelled(c) /\ Stop(c) /\ Go(c, "port") /\ UNCHANGED <<lock, status>>
    /\ UNCHANGED <<cancel, disk, foreign, orphans, ops, faults, loose>>

Port(c) ==
    /\ At(c, "port")
    /\ \/ Answers /\ Fail(c)
       \/ ~Answers /\ Go(c, "spawn") /\ Show(c, "starting") /\ UNCHANGED lock
    /\ UNCHANGED <<cancel, held, disk, world, ops, faults, loose>>

Spawn(c) ==
    /\ At(c, "spawn")
    /\ \E s \in Servers : /\ server[s] = "none" /\ \A t \in 1..(s - 1) : server[t] # "none"
                          /\ server' = [server EXCEPT ![s] = "booting"]
                          /\ held' = [held EXCEPT ![Home(c)] = s]
    /\ Go(c, "api")
    /\ UNCHANGED <<lock, cancel, status, disk, foreign, orphans, ops, faults, loose>>

\* wait_for_api: until the port answers, the process ends or time is up.
WaitForApi(c) ==
    /\ At(c, "api")
    /\ \/ Fail(c)
       \/ ~Cancelled(c) /\ Answers /\ Live(held[Home(c)])
          /\ Go(c, "validate") /\ Show(c, "validating") /\ UNCHANGED lock
    /\ UNCHANGED <<cancel, held, disk, world, ops, faults, loose>>

\* The GPU, of which one restart is worth a try; the version, for which a system
\* runtime is replaced; the model.
Validate(c) ==
    /\ At(c, "validate")
    /\ \/ Fail(c)
       \/ ~op[c].recovery /\ op' = [op EXCEPT ![c].pc = "start", ![c].recovery = TRUE]
          /\ UNCHANGED <<lock, status>>
       \/ op[c].origin = "system"
          /\ op' = [op EXCEPT ![c].pc = "install", ![c].origin = "managed", ![c].recovery = FALSE]
          /\ UNCHANGED <<lock, status>>
       \/ /\ Answers
          /\ op' = [op EXCEPT ![c] = Idle] /\ lock' = [lock EXCEPT ![Home(c)] = None]
          /\ phase' = [phase EXCEPT ![Home(c)] = "ready"] /\ ready' = [ready EXCEPT ![Home(c)] = TRUE]
    /\ UNCHANGED <<cancel, held, disk, world, ops, faults, loose>>

-----------------------------------------------------------------------------
\* cancel(): POST /runtime/startup/cancel.
Cancel(d) == /\ ~cancel[d] /\ cancel' = [cancel EXCEPT ![d] = TRUE]
             /\ UNCHANGED <<op, lock, status, held, disk, world, ops, faults, loose>>

\* The client of a chat goes away where its request waits; what was spawned and
\* is held stays, the file lock goes with its handle.
Abandon(c) ==
    LET d == Home(c)
    IN  /\ c \in Chats /\ op[c].pc \in {"waiting", "model", "download", "extract", "port", "api", "validate"}
        /\ op' = [op EXCEPT ![c] = Idle] /\ Drop(c)
        /\ lock' = [lock EXCEPT ![d] = IF lock[d] = c THEN None ELSE lock[d]]
        /\ loose' = loose \cup IF At(c, "waiting") THEN {} ELSE {d}
        /\ UNCHANGED <<cancel, status, held, active, payload, world, ops, faults>>

\* A server binds the port, which it must find free, or ends.
Serve(s) == /\ server' = [server EXCEPT ![s] = IF Answers \/ @ = "up" THEN "dead" ELSE "up"]
            /\ Live(s)
            /\ UNCHANGED <<op, lock, cancel, status, held, disk, foreign, orphans, ops, faults, loose>>

Fault == faults < MaxFaults /\ faults' = faults + 1

Damage == /\ Fault /\ payload = "whole" /\ payload' = "damaged"
          /\ UNCHANGED <<op, lock, cancel, status, held, installing, active, world, ops, loose>>

Foreign == /\ Fault /\ ~Answers /\ foreign' = TRUE
           /\ UNCHANGED <<op, lock, cancel, status, held, disk, server, orphans, ops, loose>>

\* A daemon is killed and comes up again: its server lives on.
Kill(d) == /\ Fault
           /\ op' = [c \in Callers |-> IF Home(c) = d THEN Idle ELSE op[c]]
           /\ lock' = [lock EXCEPT ![d] = None] /\ cancel' = [cancel EXCEPT ![d] = FALSE]
           /\ phase' = [phase EXCEPT ![d] = "checking"] /\ ready' = [ready EXCEPT ![d] = FALSE]
           /\ held' = [held EXCEPT ![d] = None]
           /\ orphans' = orphans \cup {s \in Servers : s = held[d]}
           /\ installing' = IF installing # None /\ Home(installing) = d THEN None ELSE installing
           /\ loose' = loose \cup {d}
           /\ UNCHANGED <<active, payload, server, foreign, ops>>

-----------------------------------------------------------------------------
Step(c) == \/ Model(c) \/ Acquire(c) \/ Discover(c) \/ Install(c) \/ Download(c) \/ Extract(c)
           \/ Swap(c) \/ Start(c) \/ Port(c) \/ Spawn(c) \/ WaitForApi(c) \/ Validate(c)

Next == \/ \E c \in Callers : Ensure(c) \/ Step(c) \/ Abandon(c)
        \/ \E d \in Daemons : Cancel(d) \/ Kill(d)
        \/ \E s \in Servers : Serve(s)
        \/ Damage \/ Foreign

Spec == Init /\ [][Next]_vars

-----------------------------------------------------------------------------
TypeOK == /\ DOMAIN op = Callers /\ lock \in [Daemons -> Callers \cup {None}]
          /\ ready \in [Daemons -> BOOLEAN] /\ cancel \in [Daemons -> BOOLEAN]
          /\ held \in [Daemons -> Servers \cup {None}] /\ installing \in Callers \cup {None}
          /\ payload \in {"none", "whole", "damaged"} /\ active \in BOOLEAN
          /\ server \in [Servers -> {"none", "booting", "up", "dead"}]

(* However attempts fail, are cancelled, dropped, or start again for the    *)
(* GPU, every server that runs is the one its daemon holds and would stop,  *)
(* but for those of a daemon that was killed (runtime.rs L793, L1161).      *)
NoServerLeaks == \A s \in Servers : Live(s) => s \in orphans \/ \E d \in Daemons : held[d] = s

(* A runtime that is whole is not touched by an installation: neither by    *)
(* one that was begun before another daemon finished its own, nor by one    *)
(* that is interrupted (docs/local-runtime-doctor.md:84).                   *)
ValidIsKept == [][Valid /\ ~Valid' => payload' = "damaged"]_vars

(* A status at rest is settled: nobody works on a runtime whose phase is    *)
(* not terminal, or that is ready in any phase but "ready", unless a chat   *)
(* was dropped or validated a model on its own (runtime.rs L293-316).       *)
SettledAtRest == \A d \in Daemons : lock[d] = None /\ d \notin loose =>
                     /\ phase[d] \in Terminal
                     /\ ready[d] => phase[d] = "ready"
=============================================================================
