------------------------ MODULE OllamaRuntimeProofs ------------------------
(***************************************************************************)
(* For any daemons over one root and one port, any callers and any number  *)
(* of faults: no server leaks, a status at rest is settled, and a runtime  *)
(* that is whole is not touched by an installation.  All three rest on who *)
(* excludes whom: the operation lock of a daemon belongs to the request    *)
(* that prepares, install.lock to the one that installs, and a daemon has  *)
(* let go of its last server before it spawns the next.                    *)
(***************************************************************************)
EXTENDS OllamaRuntime, TLAPS

Pcs == {"idle", "waiting", "model", "discover", "install", "download", "extract", "swap", "place",
        "manifest", "start", "port", "spawn", "api", "validate"}
Request == [pc : Pcs, origin : {"managed", "system"}, recovery : BOOLEAN]

Typing == /\ op \in [Callers -> Request]
          /\ lock \in [Daemons -> Callers \cup {None}]
          /\ cancel \in [Daemons -> BOOLEAN]
          /\ phase \in [Daemons -> Terminal \cup {"checking", "downloading", "installing", "starting",
                                                 "validating"}]
          /\ ready \in [Daemons -> BOOLEAN]
          /\ held \in [Daemons -> Servers \cup {None}]
          /\ installing \in Callers \cup {None}
          /\ payload \in {"none", "whole", "damaged"} /\ active \in BOOLEAN
          /\ server \in [Servers -> {"none", "booting", "up", "dead"}]
          /\ foreign \in BOOLEAN

\* A request is in prepare() just when it has the operation lock of its daemon.
Prepares(c) == op[c].pc \notin {"idle", "waiting", "model"}
LockIsHeld == \A c \in Callers : Prepares(c) <=> lock[Home(c)] = c

\* Who installs has install.lock, and finds nothing valid until it is through.
Installs(c) == op[c].pc \in {"download", "extract", "swap", "place", "manifest"}
InstallsAlone == \A c \in Callers : Installs(c) => installing = c
NothingValidYet == \A c \in Callers : op[c].pc \in {"download", "extract", "swap"} => ~Valid

\* Between the stop of the last server and the start of the next none is held.
StoppedFirst == \A c \in Callers : op[c].pc \in {"port", "spawn"} => held[Home(c)] = None

IInv == /\ Typing /\ LockIsHeld /\ InstallsAlone /\ NothingValidYet /\ StoppedFirst
        /\ NoServerLeaks /\ SettledAtRest

\* What a step of request c leaves of op: that of the others, and its own at pc.
Moves(c, pc) == /\ op' \in [Callers -> Request]
                /\ op'[c].pc = pc
                /\ \A e \in Callers \ {c} : op'[e] = op[e]

-----------------------------------------------------------------------------
(* The mark of the one restart for the GPU leaves the rest of a request.    *)
LEMMA RecoverySet ==
  ASSUME NEW r \in Request, NEW b \in BOOLEAN
  PROVE  [r EXCEPT !.recovery = b] \in Request /\ [r EXCEPT !.recovery = b].pc = r.pc
  <1>1. [r EXCEPT !.recovery = b] \in Request
    BY DEF Request
  <1>2. [r EXCEPT !.recovery = b].pc = r.pc
    BY DEF Request
  <1> QED
    BY <1>1, <1>2

(* What the forms of an update of op do to it.                              *)
LEMMA Moved ==
  ASSUME Typing, NEW c \in Callers
  PROVE  /\ \A pc \in Pcs : op' = [op EXCEPT ![c].pc = pc] => Moves(c, pc)
         /\ op' = [op EXCEPT ![c] = Idle] => Moves(c, "idle")
         /\ \A pc \in Pcs, o \in {"managed", "system"} :
               op' = [op EXCEPT ![c].pc = pc, ![c].origin = o] => Moves(c, pc)
         /\ \A pc \in Pcs : op' = [op EXCEPT ![c].pc = pc, ![c].recovery = TRUE] => Moves(c, pc)
         /\ \A pc \in Pcs : op' = [op EXCEPT ![c].pc = pc, ![c].origin = "managed", ![c].recovery = FALSE]
                              => Moves(c, pc)
  <1> USE DEF Typing, Moves
  <1>1. ASSUME NEW pc \in Pcs, op' = [op EXCEPT ![c].pc = pc] PROVE Moves(c, pc)
    BY <1>1 DEF Request
  <1>2. ASSUME op' = [op EXCEPT ![c] = Idle] PROVE Moves(c, "idle")
    BY <1>2 DEF Request, Idle, Pcs
  <1>3. ASSUME NEW pc \in Pcs, NEW o \in {"managed", "system"}, op' = [op EXCEPT ![c].pc = pc, ![c].origin = o]
        PROVE  Moves(c, pc)
    <2> DEFINE first == [op EXCEPT ![c].pc = pc]
    <2>1. first \in [Callers -> Request] /\ first[c].pc = pc /\ \A e \in Callers \ {c} : first[e] = op[e]
      BY DEF Request
    <2>2. op' = [first EXCEPT ![c].origin = o]
      BY <1>3
    <2> HIDE DEF first
    <2> QED
      BY <2>1, <2>2 DEF Request
  <1>4. ASSUME NEW pc \in Pcs, op' = [op EXCEPT ![c].pc = pc, ![c].recovery = TRUE]
        PROVE  Moves(c, pc)
    <2> DEFINE first == [op EXCEPT ![c].pc = pc]
    <2>1. first \in [Callers -> Request] /\ first[c].pc = pc /\ \A e \in Callers \ {c} : first[e] = op[e]
      BY DEF Request
    <2>2. op' = [first EXCEPT ![c].recovery = TRUE]
      BY <1>4
    <2> HIDE DEF first
    <2>3. [first[c] EXCEPT !.recovery = TRUE] \in Request /\ [first[c] EXCEPT !.recovery = TRUE].pc = pc
      BY <2>1, RecoverySet
    <2>4. op' = [first EXCEPT ![c] = [first[c] EXCEPT !.recovery = TRUE]]
      BY <2>1, <2>2
    <2> QED
      BY <2>1, <2>3, <2>4
  <1>5. ASSUME NEW pc \in Pcs,
               op' = [op EXCEPT ![c].pc = pc, ![c].origin = "managed", ![c].recovery = FALSE]
        PROVE  Moves(c, pc)
    <2> DEFINE first == [op EXCEPT ![c].pc = pc]
               second == [first EXCEPT ![c].origin = "managed"]
    <2>1. first \in [Callers -> Request] /\ first[c].pc = pc /\ \A e \in Callers \ {c} : first[e] = op[e]
      BY DEF Request
    <2>2. op' = [second EXCEPT ![c].recovery = FALSE]
      BY <1>5
    <2> HIDE DEF first
    <2>3. second \in [Callers -> Request] /\ second[c].pc = pc /\ \A e \in Callers \ {c} : second[e] = op[e]
      BY <2>1 DEF Request
    <2> HIDE DEF second
    <2>4. [second[c] EXCEPT !.recovery = FALSE] \in Request /\ [second[c] EXCEPT !.recovery = FALSE].pc = pc
      BY <2>3, RecoverySet
    <2>5. op' = [second EXCEPT ![c] = [second[c] EXCEPT !.recovery = FALSE]]
      BY <2>2, <2>3
    <2> QED
      BY <2>3, <2>4, <2>5
  <1> QED
    BY <1>1, <1>2, <1>3, <1>4, <1>5

\* The set of what a step of request c may do to the exclusion of others, short of
\* taking the lock: it keeps the lock while it prepares and gives it up at the end,
\* and so with install.lock.
Excludes(c, pc) ==
    /\ Moves(c, pc)
    /\ \A d \in Daemons \ {Home(c)} : lock'[d] = lock[d]
    /\ lock'[Home(c)] = IF pc \in {"idle", "waiting", "model"} THEN None ELSE c
    /\ \/ pc \in {"download", "extract", "swap", "place", "manifest"} /\ installing' = c
       \/ /\ pc \notin {"download", "extract", "swap", "place", "manifest"}
          /\ installing' = installing \/ (installing = c /\ installing' = None)

(* A step that keeps to that keeps the exclusion.                           *)
LEMMA Excluding ==
  ASSUME IInv, NEW c \in Callers, Prepares(c), NEW pc \in Pcs, Excludes(c, pc),
         installing' = c => installing \in {c, None}
  PROVE  LockIsHeld' /\ InstallsAlone'
  <1> USE NoneAssumption, CallersAssumption DEF IInv, Typing, Excludes, Moves
  <1>1. LockIsHeld'
    BY DEF LockIsHeld, Prepares, Pcs
  <1>2. InstallsAlone'
    BY DEF InstallsAlone, Installs
  <1> QED
    BY <1>1, <1>2

\* What it may do to the disk and the status: while it works the status is its
\* own, and at its end the status is settled.
Settles(c, pc) ==
    /\ loose' = loose
    /\ \A d \in Daemons \ {Home(c)} : phase'[d] = phase[d] /\ ready'[d] = ready[d]
    /\ pc = "idle" => /\ phase'[Home(c)] \in Terminal
                      /\ ready'[Home(c)] => phase'[Home(c)] = "ready"
Validates(c, pc) ==
    /\ Valid' => Valid \/ Installs(c)
    /\ pc \in {"download", "extract", "swap"} => ~Valid'

(* A step that keeps to all of these and leaves the servers alone keeps     *)
(* the invariant.                                                           *)
LEMMA Working ==
  ASSUME IInv, NEW c \in Callers, Prepares(c), NEW pc \in Pcs \ {"waiting", "model"}, Excludes(c, pc),
         installing' = c => installing \in {c, None}, Settles(c, pc), Validates(c, pc),
         UNCHANGED <<server, held, orphans>>,
         pc \in {"port", "spawn"} => held[Home(c)] = None, Typing'
  PROVE  IInv'
  <1>1. LockIsHeld' /\ InstallsAlone'
    BY Excluding
  <1> USE NoneAssumption, CallersAssumption DEF IInv, Typing, Excludes, Moves
  <1>2. NothingValidYet'
    BY DEF NothingValidYet, InstallsAlone, Installs, Validates
  <1>3. StoppedFirst'
    BY DEF StoppedFirst
  <1>4. NoServerLeaks'
    BY DEF NoServerLeaks, Live
  <1>5. SettledAtRest'
    <2> SUFFICES ASSUME NEW d \in Daemons, lock'[d] = None, d \notin loose'
                 PROVE  phase'[d] \in Terminal /\ (ready'[d] => phase'[d] = "ready")
      BY DEF SettledAtRest
    <2>1. CASE d = Home(c)
      <3>1. pc = "idle"
        BY <2>1
      <3> QED
        BY <2>1, <3>1 DEF Settles
    <2>2. CASE d # Home(c)
      <3>1. lock[d] = None /\ d \notin loose /\ phase'[d] = phase[d] /\ ready'[d] = ready[d]
        BY <2>2 DEF Settles
      <3> QED
        BY <3>1 DEF SettledAtRest
    <2> QED
      BY <2>1, <2>2
  <1> QED
    BY <1>1, <1>2, <1>3, <1>4, <1>5

(* What prepare() makes of an error: the lock is free and the status is     *)
(* settled.                                                                 *)
LEMMA Failing ==
  ASSUME IInv, NEW c \in Callers, Prepares(c), Fail(c), loose' = loose
  PROVE  /\ Moves(c, "idle") /\ Settles(c, "idle")
         /\ \A d \in Daemons \ {Home(c)} : lock'[d] = lock[d]
         /\ lock'[Home(c)] = None
         /\ lock' \in [Daemons -> Callers \cup {None}]
         /\ phase' \in [Daemons -> Terminal \cup {"checking", "downloading", "installing", "starting",
                                                  "validating"}]
         /\ ready' \in [Daemons -> BOOLEAN]
  <1> USE CallersAssumption DEF IInv, Fail
  <1>1. Moves(c, "idle")
    BY Moved
  <1>2. Settles(c, "idle")
    BY DEF Settles, Typing, Terminal
  <1> QED
    BY <1>1, <1>2 DEF Typing, Terminal

(* The steps of an installation.                                            *)
LEMMA InstallStep ==
  ASSUME IInv, NEW c \in Callers, Discover(c) \/ Install(c) \/ Download(c) \/ Extract(c) \/ Swap(c)
  PROVE  IInv'
  <1> USE CallersAssumption, NoneAssumption DEF At, Go
  <1>0. Prepares(c) /\ lock[Home(c)] = c /\ Typing
    BY DEF Discover, Install, Download, Extract, Swap, IInv, LockIsHeld, Prepares
  <1>1. CASE Discover(c)
    <2>1. PICK pc \in {"start", "install"} : Moves(c, pc)
      BY <1>0, <1>1, Moved DEF Discover, Pcs
    <2>2. Typing'
      BY <1>0, <1>1, <2>1 DEF Discover, Typing, Moves, status, disk, world
    <2>3. Excludes(c, pc) /\ Settles(c, pc) /\ Validates(c, pc)
      BY <1>0, <1>1, <2>1 DEF Discover, Excludes, Settles, Validates, Valid, status, disk
    <2> QED
      BY <1>0, <1>1, <2>1, <2>2, <2>3, Working DEF Discover, disk, world, Pcs
  <1>2. CASE Install(c) /\ Fail(c)
    <2>1. UNCHANGED disk
      BY <1>0, <1>2 DEF Install, Fail, Idle, Typing, Request
    <2>2. loose' = loose
      BY <1>2 DEF Install
    <2>3. Typing'
      BY <1>0, <1>2, <2>1, <2>2, Failing DEF Install, Typing, Moves, disk, world
    <2>4. Excludes(c, "idle") /\ Settles(c, "idle") /\ Validates(c, "idle")
      BY <1>0, <1>2, <2>1, <2>2, Failing DEF Excludes, Validates, Valid, disk
    <2> QED
      BY <1>0, <1>2, <2>1, <2>3, <2>4, Working DEF Install, disk, world, Pcs
  <1>3. CASE Install(c) /\ ~Fail(c)
    <2>1. PICK pc \in {"start", "download"} : Moves(c, pc) /\ (pc = "download" => installing = None /\ ~Valid /\ installing' = c)
                                               /\ (pc = "start" => installing' = installing)
      BY <1>0, <1>3, Moved DEF Install, Pcs, disk
    <2>2. lock' = lock /\ active' = active /\ payload' = payload /\ loose' = loose /\ ready' = ready
          /\ (phase' = phase \/ phase' = [phase EXCEPT ![Home(c)] = "downloading"])
      BY <1>3 DEF Install, status, disk, Show
    <2>3. Typing'
      BY <1>0, <1>3, <2>1, <2>2 DEF Install, Typing, Moves, world
    <2>4. Excludes(c, pc) /\ Settles(c, pc) /\ Validates(c, pc)
      BY <1>0, <2>1, <2>2 DEF Excludes, Settles, Validates, Valid, Typing
    <2> QED
      BY <1>0, <1>3, <2>1, <2>3, <2>4, Working DEF Install, world, Pcs
  <1>4. CASE (Download(c) \/ Extract(c)) /\ Fail(c)
    <2>0. Installs(c) /\ installing = c
      BY <1>4 DEF Download, Extract, Installs, IInv, InstallsAlone
    <2>1. installing' = None
      BY <1>0, <1>4, <2>0 DEF Download, Extract, Drop, Fail, Idle, Typing, Request
    <2>2. loose' = loose /\ active' = active /\ payload' = payload
      BY <1>4 DEF Download, Extract
    <2>3. Typing'
      BY <1>0, <1>4, <2>1, <2>2, Failing DEF Download, Extract, Typing, Moves, world
    <2>4. Excludes(c, "idle") /\ Settles(c, "idle") /\ Validates(c, "idle")
      BY <1>0, <1>4, <2>0, <2>1, <2>2, Failing DEF Excludes, Validates, Valid
    <2> QED
      BY <1>0, <1>4, <2>1, <2>3, <2>4, Working DEF Download, Extract, world, Pcs
  <1>5. CASE (Download(c) \/ Extract(c)) /\ ~Fail(c)
    <2>0. Installs(c) /\ installing = c /\ ~Valid
      BY <1>5 DEF Download, Extract, Installs, IInv, InstallsAlone, NothingValidYet
    <2>1. PICK pc \in {"extract", "swap"} : Moves(c, pc)
      BY <1>0, <1>5, Moved DEF Download, Extract, Pcs
    <2>2. lock' = lock /\ UNCHANGED disk /\ loose' = loose /\ ready' = ready
          /\ (phase' = phase \/ phase' = [phase EXCEPT ![Home(c)] = "installing"])
      BY <1>5 DEF Download, Extract, status, disk, Show
    <2>3. Typing'
      BY <1>0, <1>5, <2>1, <2>2 DEF Download, Extract, Typing, Moves, disk, world
    <2>4. Excludes(c, pc) /\ Settles(c, pc) /\ Validates(c, pc)
      BY <1>0, <2>0, <2>1, <2>2 DEF Excludes, Settles, Validates, Valid, Typing, disk
    <2> QED
      BY <1>0, <1>5, <2>1, <2>2, <2>3, <2>4, Working DEF Download, Extract, world, disk, Pcs
  <1>6. CASE Swap(c)
    <2>0. Installs(c) /\ installing = c
      BY <1>6 DEF Swap, Installs, IInv, InstallsAlone
    <2>1. PICK pc \in {"place", "manifest", "start"} :
             /\ Moves(c, pc)
             /\ installing' = IF pc = "start" THEN None ELSE c
      BY <1>0, <1>6, <2>0, Moved DEF Swap, Pcs, Drop
    <2>2. lock' = lock /\ UNCHANGED status /\ loose' = loose
      BY <1>6 DEF Swap
    <2>3. Typing'
      BY <1>0, <1>6, <2>1, <2>2 DEF Swap, Typing, Moves, world, status
    <2>4. Excludes(c, pc) /\ Settles(c, pc) /\ Validates(c, pc)
      BY <1>0, <2>0, <2>1, <2>2 DEF Excludes, Settles, Validates, status
    <2> QED
      BY <1>0, <1>6, <2>0, <2>1, <2>3, <2>4, Working DEF Swap, world, Pcs
  <1> QED
    BY <1>1, <1>2, <1>3, <1>4, <1>5, <1>6

(* The steps of the start of a server and of its validation.                *)
LEMMA ServeStep ==
  ASSUME IInv, NEW c \in Callers, Start(c) \/ Port(c) \/ Spawn(c) \/ WaitForApi(c) \/ Validate(c)
  PROVE  IInv'
  <1> USE CallersAssumption, NoneAssumption DEF At, Go
  <1>0. Prepares(c) /\ lock[Home(c)] = c /\ Typing
    BY DEF Start, Port, Spawn, WaitForApi, Validate, IInv, LockIsHeld, Prepares
  <1>1. CASE (Start(c) \/ Port(c) \/ WaitForApi(c) \/ Validate(c)) /\ Fail(c)
    <2>1. UNCHANGED <<server, held, orphans, disk, cancel, foreign, loose>>
      BY <1>0, <1>1 DEF Start, Port, WaitForApi, Validate, Fail, Idle, Typing, Request, world
    <2>2. Typing'
      BY <1>0, <1>1, <2>1, Failing DEF Typing, Moves, disk
    <2>3. Excludes(c, "idle") /\ Settles(c, "idle") /\ Validates(c, "idle")
      BY <1>0, <1>1, <2>1, Failing DEF Excludes, Validates, Valid, disk
    <2> QED
      BY <1>0, <2>1, <2>2, <2>3, Working DEF disk, Pcs
  <1>2. CASE (Port(c) \/ WaitForApi(c)) /\ ~Fail(c)
    <2>1. PICK pc \in {"spawn", "validate"} : Moves(c, pc) /\ (pc = "spawn" => held[Home(c)] = None)
      BY <1>0, <1>2, Moved DEF Port, WaitForApi, Pcs, IInv, StoppedFirst
    <2>2. lock' = lock /\ UNCHANGED <<disk, held, cancel, world>> /\ loose' = loose /\ ready' = ready
          /\ \E p \in {"starting", "validating"} : phase' = [phase EXCEPT ![Home(c)] = p]
      BY <1>2 DEF Port, WaitForApi, Show
    <2>3. Typing'
      BY <1>0, <2>1, <2>2 DEF Typing, Moves, disk, world
    <2>4. Excludes(c, pc) /\ Settles(c, pc) /\ Validates(c, pc)
      BY <1>0, <2>1, <2>2 DEF Excludes, Settles, Validates, Valid, Typing, disk
    <2> QED
      BY <1>0, <2>1, <2>2, <2>3, <2>4, Working DEF world, disk, Pcs
  <1>3. CASE Validate(c) /\ ~Fail(c)
    <2>1. PICK pc \in {"start", "install", "idle"} :
             /\ Moves(c, pc)
             /\ IF pc = "idle"
                THEN /\ lock' = [lock EXCEPT ![Home(c)] = None]
                     /\ phase' = [phase EXCEPT ![Home(c)] = "ready"]
                     /\ ready' = [ready EXCEPT ![Home(c)] = TRUE]
                ELSE UNCHANGED <<lock, status>>
      BY <1>0, <1>3, Moved DEF Validate, Pcs
    <2>2. UNCHANGED <<disk, held, cancel, world>> /\ loose' = loose
      BY <1>3 DEF Validate
    <2>3. Typing'
      BY <1>0, <2>1, <2>2 DEF Typing, Moves, disk, world, status, Terminal
    <2>4. Excludes(c, pc) /\ Settles(c, pc) /\ Validates(c, pc)
      BY <1>0, <2>1, <2>2 DEF Excludes, Settles, Validates, Valid, Typing, disk, status, Terminal
    <2> QED
      BY <1>0, <2>1, <2>2, <2>3, <2>4, Working DEF world, disk, Pcs
  <1>4. CASE Spawn(c) \/ (Start(c) /\ ~Fail(c))
    <2>1. PICK pc \in {"port", "api"} :
             /\ Moves(c, pc)
             /\ IF pc = "port"
                THEN Stop(c)
                ELSE /\ op[c].pc = "spawn"
                     /\ \E s \in Servers : /\ server[s] = "none"
                                           /\ server' = [server EXCEPT ![s] = "booting"]
                                           /\ held' = [held EXCEPT ![Home(c)] = s]
      BY <1>0, <1>4, Moved DEF Start, Spawn, Pcs
    <2>2. UNCHANGED <<disk, lock, cancel, status, foreign, orphans>> /\ loose' = loose
      BY <1>4 DEF Start, Spawn
    <2>3. Typing'
      BY <1>0, <2>1, <2>2 DEF Typing, Moves, disk, status, Stop
    <2>4. LockIsHeld' /\ InstallsAlone'
      <3>1. Excludes(c, pc)
        BY <1>0, <2>1, <2>2 DEF Excludes, disk
      <3> QED
        BY <1>0, <2>2, <3>1, Excluding DEF Pcs, disk
    <2>5. NothingValidYet'
      BY <2>1, <2>2 DEF IInv, NothingValidYet, Moves, Valid, disk
    <2>6. \A e \in Callers : Prepares(e) /\ Home(e) = Home(c) => e = c
      BY <1>0 DEF IInv, LockIsHeld
    <2>7. StoppedFirst'
      BY <1>0, <2>1, <2>6 DEF IInv, StoppedFirst, Moves, Stop, Prepares, Typing
    <2>8. NoServerLeaks'
      <3>1. CASE pc = "port"
        BY <1>0, <2>1, <2>2, <3>1 DEF IInv, NoServerLeaks, Live, Stop, Typing
      <3>2. CASE pc = "api"
        <4>1. held[Home(c)] = None
          BY <2>1, <3>2 DEF IInv, StoppedFirst
        <4>2. PICK s \in Servers : /\ server' = [server EXCEPT ![s] = "booting"]
                                   /\ held' = [held EXCEPT ![Home(c)] = s]
          BY <2>1, <3>2
        <4>3. held'[Home(c)] = s /\ \A d \in Daemons : d # Home(c) => held'[d] = held[d]
          BY <1>0, <4>2 DEF Typing
        <4>4. \A t \in Servers : t # s => server'[t] = server[t]
          BY <1>0, <4>2 DEF Typing
        <4>5. \A t \in Servers : t # None
          BY DEF Servers
        <4> SUFFICES ASSUME NEW t \in Servers, Live(t)', t # s
                     PROVE  t \in orphans \/ \E d \in Daemons : held'[d] = t
          BY <2>2, <4>3 DEF NoServerLeaks
        <4>6. t \in orphans \/ \E d \in Daemons : held[d] = t
          BY <4>4 DEF IInv, NoServerLeaks, Live
        <4> QED
          BY <4>1, <4>3, <4>5, <4>6
      <3> QED
        BY <2>1, <3>1, <3>2
    <2>9. SettledAtRest'
      BY <2>2 DEF IInv, SettledAtRest, status
    <2> QED
      BY <2>3, <2>4, <2>5, <2>7, <2>8, <2>9 DEF IInv
  <1> QED
    BY <1>1, <1>2, <1>3, <1>4

(* A request arrives, validates a model on its own, or gets the lock.       *)
LEMMA RequestStep ==
  ASSUME IInv, NEW c \in Callers, Ensure(c) \/ Model(c) \/ Acquire(c)
  PROVE  IInv'
  <1> USE CallersAssumption, NoneAssumption DEF At, Go
  <1>0. Typing
    BY DEF IInv
  <1>1. CASE Ensure(c) \/ Model(c)
    <2>1. op' = op \/ \E pc \in {"waiting", "model", "idle"} : Moves(c, pc)
      BY <1>0, <1>1, Moved DEF Ensure, Model, Pcs
    <2>2. op[c].pc \in {"idle", "model"}
      BY <1>1 DEF Ensure, Model, Idle
    <2>3. UNCHANGED <<lock, held, disk, world, cancel>>
      BY <1>1 DEF Ensure, Model
    <2>4. /\ phase' = phase \/ phase' = [phase EXCEPT ![Home(c)] = "validating"]
                            \/ phase' = [phase EXCEPT ![Home(c)] = "ready"]
          /\ ready' = ready \/ ready' = [ready EXCEPT ![Home(c)] = FALSE]
                            \/ ready' = [ready EXCEPT ![Home(c)] = TRUE]
      BY <1>1 DEF Ensure, Model, Show, status
    <2>5. Typing'
      BY <1>0, <2>1, <2>3, <2>4 DEF Typing, Moves, disk, world, Terminal
    <2>6. LockIsHeld'
      BY <1>0, <2>1, <2>2, <2>3 DEF IInv, LockIsHeld, Prepares, Moves
    <2>7. InstallsAlone' /\ NothingValidYet' /\ StoppedFirst'
      BY <1>0, <2>1, <2>3 DEF IInv, InstallsAlone, Installs, NothingValidYet, Valid, StoppedFirst,
                              Moves, disk
    <2>8. NoServerLeaks'
      BY <2>3 DEF IInv, NoServerLeaks, Live, world
    <2>9. SettledAtRest'
      BY <1>0, <1>1, <2>3 DEF Ensure, Model, Show, status, IInv, SettledAtRest, Terminal, Typing
    <2> QED
      BY <2>5, <2>6, <2>7, <2>8, <2>9 DEF IInv
  <1>2. CASE Acquire(c)
    <2>1. Moves(c, "discover") /\ op[c].pc = "waiting" /\ lock[Home(c)] = None
      BY <1>0, <1>2, Moved DEF Acquire, Pcs
    <2>2. /\ lock' = [lock EXCEPT ![Home(c)] = c] /\ UNCHANGED <<held, disk, world>>
          /\ phase' = [phase EXCEPT ![Home(c)] = "checking"] /\ ready' = [ready EXCEPT ![Home(c)] = FALSE]
          /\ cancel' = [cancel EXCEPT ![Home(c)] = FALSE]
          /\ loose \ {Home(c)} \subseteq loose' /\ loose' \subseteq loose
      BY <1>2 DEF Acquire
    <2>3. Typing'
      BY <1>0, <2>1, <2>2 DEF Typing, Moves, disk, world
    <2>4. LockIsHeld'
      BY <1>0, <2>1, <2>2 DEF IInv, LockIsHeld, Prepares, Moves, Typing
    <2>5. InstallsAlone' /\ NothingValidYet' /\ StoppedFirst'
      BY <1>0, <2>1, <2>2 DEF IInv, InstallsAlone, Installs, NothingValidYet, Valid, StoppedFirst,
                              Moves, disk
    <2>6. NoServerLeaks'
      BY <2>2 DEF IInv, NoServerLeaks, Live, world
    <2>7. SettledAtRest'
      BY <1>0, <2>2 DEF IInv, SettledAtRest, Typing
    <2> QED
      BY <2>3, <2>4, <2>5, <2>6, <2>7 DEF IInv
  <1> QED
    BY <1>1, <1>2

(* A chat is dropped where it waits, or its daemon is killed.               *)
LEMMA EndStep ==
  ASSUME IInv, (\E c \in Callers : Abandon(c)) \/ (\E d \in Daemons : Kill(d))
  PROVE  IInv'
  <1> USE CallersAssumption, NoneAssumption DEF At
  <1>0. Typing
    BY DEF IInv
  <1>1. ASSUME NEW c \in Callers, Abandon(c) PROVE IInv'
    <2>1. Moves(c, "idle") /\ UNCHANGED <<held, active, payload, world, cancel, status>>
      BY <1>0, <1>1, Moved DEF Abandon
    <2>2. /\ lock' = [lock EXCEPT ![Home(c)] = IF lock[Home(c)] = c THEN None ELSE lock[Home(c)]]
          /\ installing' = (IF installing = c THEN None ELSE installing)
          /\ loose' = loose \cup (IF op[c].pc = "waiting" THEN {} ELSE {Home(c)})
      BY <1>1 DEF Abandon, Drop
    <2>3. Typing'
      BY <1>0, <2>1, <2>2 DEF Typing, Moves, world, status
    <2>4. LockIsHeld'
      BY <1>0, <2>1, <2>2 DEF IInv, LockIsHeld, Prepares, Moves, Typing
    <2>5. InstallsAlone' /\ NothingValidYet' /\ StoppedFirst'
      BY <1>0, <2>1, <2>2 DEF IInv, InstallsAlone, Installs, NothingValidYet, Valid, StoppedFirst, Moves
    <2>6. NoServerLeaks'
      BY <2>1 DEF IInv, NoServerLeaks, Live, world
    <2>7. SettledAtRest'
      <3> SUFFICES ASSUME NEW d \in Daemons, lock'[d] = None, d \notin loose'
                   PROVE  phase[d] \in Terminal /\ (ready[d] => phase[d] = "ready")
        BY <2>1 DEF SettledAtRest, status
      <3>1. op[c].pc = "waiting" => lock[Home(c)] # c
        BY DEF IInv, LockIsHeld, Prepares
      <3>2. lock[d] = None /\ d \notin loose
        BY <1>0, <2>2, <3>1 DEF Typing
      <3> QED
        BY <3>2 DEF IInv, SettledAtRest
    <2> QED
      BY <2>3, <2>4, <2>5, <2>6, <2>7 DEF IInv
  <1>2. ASSUME NEW d \in Daemons, Kill(d) PROVE IInv'
    <2>1. /\ op' \in [Callers -> Request]
          /\ \A c \in Callers : IF Home(c) = d THEN op'[c].pc = "idle" ELSE op'[c] = op[c]
      BY <1>0, <1>2 DEF Kill, Typing, Idle, Request, Pcs
    <2>2. /\ lock' = [lock EXCEPT ![d] = None] /\ cancel' = [cancel EXCEPT ![d] = FALSE]
          /\ phase' = [phase EXCEPT ![d] = "checking"] /\ ready' = [ready EXCEPT ![d] = FALSE]
          /\ held' = [held EXCEPT ![d] = None]
          /\ orphans' = orphans \cup {s \in Servers : s = held[d]}
          /\ installing' = (IF installing # None /\ Home(installing) = d THEN None ELSE installing)
          /\ loose' = loose \cup {d}
          /\ UNCHANGED <<active, payload, server, foreign>>
      BY <1>2 DEF Kill
    <2>3. Typing'
      BY <1>0, <2>1, <2>2 DEF Typing
    <2>4. LockIsHeld'
      BY <1>0, <2>1, <2>2 DEF IInv, LockIsHeld, Prepares, Typing
    <2>5. InstallsAlone' /\ NothingValidYet' /\ StoppedFirst'
      BY <1>0, <2>1, <2>2 DEF IInv, InstallsAlone, Installs, NothingValidYet, Valid, StoppedFirst, Typing
    <2>6. NoServerLeaks'
      BY <1>0, <2>2 DEF IInv, NoServerLeaks, Live, Typing
    <2>7. SettledAtRest'
      BY <1>0, <2>2 DEF IInv, SettledAtRest, Typing
    <2> QED
      BY <2>3, <2>4, <2>5, <2>6, <2>7 DEF IInv
  <1> QED
    BY <1>1, <1>2

(* A cancel request, a step of a server, and the other faults.              *)
LEMMA WorldStep ==
  ASSUME IInv, \/ \E d \in Daemons : Cancel(d)
               \/ \E s \in Servers : Serve(s)
               \/ Damage \/ Foreign \/ UNCHANGED vars
  PROVE  IInv'
  <1>0. Typing
    BY DEF IInv
  <1>1. UNCHANGED <<op, lock, status, held, installing, active, orphans, loose>>
    BY DEF Cancel, Serve, Damage, Foreign, vars, disk, world
  <1>2. payload' = payload \/ payload' = "damaged"
    BY DEF Cancel, Serve, Damage, Foreign, vars, disk
  <1>3. \/ server' = server
        \/ \E s \in Servers : Live(s) /\ \E x \in {"dead", "up"} : server' = [server EXCEPT ![s] = x]
    BY DEF Cancel, Serve, Damage, Foreign, vars, world
  <1>4. cancel' \in [Daemons -> BOOLEAN] /\ foreign' \in BOOLEAN
    BY <1>0 DEF Cancel, Serve, Damage, Foreign, vars, world, Typing
  <1>5. Typing'
    BY <1>0, <1>1, <1>2, <1>3, <1>4 DEF Typing, status
  <1>6. LockIsHeld' /\ InstallsAlone' /\ StoppedFirst'
    BY <1>1 DEF IInv, LockIsHeld, Prepares, InstallsAlone, Installs, StoppedFirst
  <1>7. NothingValidYet'
    BY <1>1, <1>2 DEF IInv, NothingValidYet, Valid
  <1>8. NoServerLeaks'
    BY <1>0, <1>1, <1>3 DEF IInv, NoServerLeaks, Live, Typing
  <1>9. SettledAtRest'
    BY <1>1 DEF IInv, SettledAtRest, status
  <1> QED
    BY <1>5, <1>6, <1>7, <1>8, <1>9 DEF IInv

-----------------------------------------------------------------------------
(* IInv is an invariant of the specification.                               *)
THEOREM Invariance == Spec => []IInv
  <1>1. Init => IInv
    <2> SUFFICES ASSUME Init PROVE IInv
      OBVIOUS
    <2>1. Typing
      BY DEF Init, Typing, Request, Pcs, Idle, Terminal
    <2>2. LockIsHeld /\ InstallsAlone /\ NothingValidYet /\ StoppedFirst
      BY CallersAssumption, NoneAssumption DEF Init, Idle, LockIsHeld, Prepares, InstallsAlone, Installs,
                                               NothingValidYet, StoppedFirst
    <2>3. NoServerLeaks /\ SettledAtRest
      BY DEF Init, NoServerLeaks, Live, SettledAtRest
    <2> QED
      BY <2>1, <2>2, <2>3 DEF IInv
  <1>2. IInv /\ [Next]_vars => IInv'
    BY InstallStep, ServeStep, RequestStep, EndStep, WorldStep DEF Next, Step
  <1> QED
    BY <1>1, <1>2, PTL DEF Spec

(* Every variable keeps its type.                                           *)
THEOREM TypeCorrect == Spec => []TypeOK
  <1>1. IInv => TypeOK
    BY DEF IInv, Typing, TypeOK
  <1> QED
    BY <1>1, Invariance, PTL

(* However attempts fail, are cancelled, dropped, or start again, every     *)
(* server that runs is the one its daemon holds and would stop, but for     *)
(* those of a daemon that was killed (runtime.rs L793, L1161).              *)
THEOREM ServersAreHeld == Spec => []NoServerLeaks
  <1>1. IInv => NoServerLeaks
    BY DEF IInv
  <1> QED
    BY <1>1, Invariance, PTL

(* A status at rest is settled (runtime.rs L293-316).                       *)
THEOREM StatusSettles == Spec => []SettledAtRest
  <1>1. IInv => SettledAtRest
    BY DEF IInv
  <1> QED
    BY <1>1, Invariance, PTL

(* A runtime that is whole is not touched by an installation, neither by    *)
(* one begun before another daemon finished its own nor by one that is      *)
(* interrupted (docs/local-runtime-doctor.md:84).                           *)
THEOREM WholeIsKept == Spec => ValidIsKept
  <1> DEFINE Untouched == Valid /\ ~Valid' => payload' = "damaged"
  <1>1. IInv /\ [Next]_vars => Untouched
    <2> SUFFICES ASSUME IInv, [Next]_vars, Valid, ~Valid' PROVE payload' = "damaged"
      OBVIOUS
    <2>1. ASSUME NEW c \in Callers, Swap(c) PROVE FALSE
      BY <2>1 DEF Swap, At, IInv, NothingValidYet, Valid
    <2>2. ASSUME NEW c \in Callers, Install(c) \/ Download(c) \/ Extract(c) PROVE FALSE
      BY <2>2 DEF Install, Download, Extract, Valid, disk
    <2>3. ASSUME NEW c \in Callers, Discover(c) \/ Start(c) \/ Port(c) \/ Spawn(c) \/ WaitForApi(c) \/ Validate(c)
          PROVE  FALSE
      BY <2>3 DEF Discover, Start, Port, Spawn, WaitForApi, Validate, Valid, disk
    <2>4. ASSUME NEW c \in Callers, Ensure(c) \/ Model(c) \/ Acquire(c) \/ Abandon(c) PROVE FALSE
      BY <2>4 DEF Ensure, Model, Acquire, Abandon, Valid, disk
    <2>5. ASSUME \/ \E d \in Daemons : Cancel(d) \/ Kill(d)
                 \/ \E s \in Servers : Serve(s)
                 \/ Foreign \/ UNCHANGED vars
          PROVE  FALSE
      BY <2>5 DEF Cancel, Kill, Serve, Foreign, vars, Valid, disk
    <2> QED
      BY <2>1, <2>2, <2>3, <2>4, <2>5 DEF Next, Step, Damage
  <1>2. IInv /\ [Next]_vars => [Untouched]_vars
    BY <1>1
  <1> QED
    BY <1>2, Invariance, PTL DEF Spec, ValidIsKept
=============================================================================
