----------------------------- MODULE DaemonState ------------------------------
(***************************************************************************)
(* What the daemon keeps on its disk between requests, side by side: the   *)
(* sessions, a channel, the settings with the vault, and a document with   *)
(* its plugin.  The modules share no variable.  The code keeps the accounts*)
(* and the health of a channel in settings.json too: Channel and Config    *)
(* each have the keys they are about, and the writers of these alone.      *)
(* What is stated here of each is for any sizes.                           *)
(***************************************************************************)
CONSTANTS
    Nobody,      \* None of the modules below
    Sessions, Clients, MaxStoreOps, MaxEvents, MaxKills,
    Accounts, First(_), Limit, Window, Retries, Threshold, OpenFor, MaxCalls, MaxEdits, MaxTime,
    Torn, MaxRequests, MaxWriteFaults,
    Editors, Runs, Marks, Kept, MaxRev, MaxAdmin, MaxSaveFaults

VARIABLES
    row, event, last, index, does, done, kills, off, want, stale, torn,
    file, session, throttle, call, edit, clock, calls, edits, streak, overlapped, late,
    settings, vault, env, req, version, vaultVersion, requests, writeFaults, asked, crossed, lost, dangling,
    doc, hist, bundled, pkg, access, hostGate, page, run, admins, saveFaults, past, restored, pruned, said

storeVars == <<row, event, last, index, does, done, kills, off, want, stale, torn>>
channelVars == <<file, session, throttle, call, edit, clock, calls, edits, streak, overlapped, late>>
settingsVars == <<settings, vault, env, req, version, vaultVersion, requests, writeFaults, asked, crossed, lost, dangling>>
studioVars == <<doc, hist, bundled, pkg, access, hostGate, page, run, admins, saveFaults, past, restored, pruned, said>>

Store == INSTANCE SessionStore WITH op <- does, ops <- done, MaxOps <- MaxStoreOps, None <- Nobody
Channel == INSTANCE ChannelPolicy WITH Callers <- Clients, None <- Nobody
Config == INSTANCE Settings WITH file <- settings, faults <- writeFaults, want <- asked, overlapped <- crossed,
                                 MaxFaults <- MaxWriteFaults
Papers == INSTANCE Studio WITH edit <- page, faults <- saveFaults, MaxFaults <- MaxSaveFaults, None <- Nobody

ASSUME SessionsAssumption == Store!StoreAssumption
ASSUME ChannelAssumption == Channel!PolicyAssumption
ASSUME SettingsAssumption == Config!SettingsAssumption
ASSUME StudioAssumption == Papers!StudioAssumption

-----------------------------------------------------------------------------
(* A session's message count is that of its events, see SessionStore.        *)
CountExact == Store!CountExact

(* The search finds a message by the text it has, see SessionStore.          *)
IndexTruthful == Store!IndexTruthful

(* A run keeps the archived flag of its session, see SessionStore.           *)
FlagKept == Store!FlagKept

(* The failures counted are those since the last success, see ChannelPolicy. *)
HealthExact == Channel!HealthExact

(* An account that is gone leaves no session, see ChannelPolicy.             *)
OrphanSessionsWereLate == Channel!OrphanSessionsWereLate

(* A request's answer outlives the requests for other parts, see Settings.   *)
AckedKept == Config!AckedKept

(* A reference to the vault finds its secret, see Settings.                  *)
ReferencesResolve == Config!ReferencesResolve

(* No change to a document is lost to another one, see Studio.               *)
NoLostEdit == Papers!NoLostEdit

(* What a document's history lists is there, see Studio.                     *)
ListedIsThere == Papers!ListedIsThere

(* What is taken from a plugin is taken from its runs, see Studio.           *)
RevokedStaysOut == Papers!RevokedStaysOut
=============================================================================
