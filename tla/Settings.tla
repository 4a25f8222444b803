------------------------------ MODULE Settings ------------------------------
(***************************************************************************)
(* settings.json and the secrets vault beside it (crates/daemon/src/       *)
(* config.rs, secrets_vault.rs) under the requests that change them        *)
(* (agent_api.rs, lib.rs, plugins/mod.rs).  Every request loads the whole  *)
(* file, changes its copy and writes it back in place; no lock, no rename: *)
(* a file is empty between its truncation and its write, settings that do  *)
(* not parse are read as the defaults, and a vault that does not parse is  *)
(* an error.  Of the settings the model keeps one skill's override, one    *)
(* plugin's flag and the agent's API key; of the vault, the API key and a  *)
(* token of the skill.                                                     *)
(***************************************************************************)
EXTENDS Naturals

CONSTANTS
    Clients,     \* requests in flight, one each at a time
    MaxRequests, \* bound: requests ever made
    MaxFaults,   \* bound: crashes and failed writes ever
    Torn         \* a file that was truncated and not written

Names == {"agent", "skill"}
Record == [entry : BOOLEAN, skill : {"unset", "on", "off"}, token : BOOLEAN, plugin : BOOLEAN,
           key : BOOLEAN, ref : BOOLEAN, vaulted : BOOLEAN]
SettingsAssumption == \A x \in Record \cup SUBSET Names : x # Torn

VARIABLES
    file,        \* settings.json: the settings, or Torn
    vault,       \* agent_secrets.v1.json: the secrets, or Torn
    env,         \* APP_AGENT_API_KEY is set in the environment of the daemon
    req,         \* req[c]: the request c is in
    version, vaultVersion, requests, faults,
    want,        \* ghost: what the acknowledged requests asked for
    overlapped,  \* ghost: a file was written by who had read an older one
    lost,        \* ghost: settings.json was left torn
    dangling     \* ghost: the vault was left torn, or a removal from it was cut short

vars == <<file, vault, env, req, version, vaultVersion, requests, faults, want, overlapped, lost, dangling>>

\* entry: the skill has an entry in skill_overrides; token, ref: references to the vault.
Default == [entry |-> FALSE, skill |-> "unset", token |-> FALSE, plugin |-> FALSE, key |-> FALSE, ref |-> FALSE, vaulted |-> TRUE]
Idle == [stage |-> "idle"]

Init == /\ file = Default /\ vault = {} /\ env \in BOOLEAN
        /\ req = [c \in Clients |-> Idle]
        /\ version = 0 /\ vaultVersion = 0 /\ requests = 0 /\ faults = 0
        /\ want = [skill |-> "unset", plugin |-> FALSE]
        /\ overlapped = FALSE /\ lost = FALSE /\ dangling = FALSE

-----------------------------------------------------------------------------
\* load_settings: what does not parse is the default.
LoadSettings == IF file = Torn THEN Default ELSE file

\* apply_env: the environment's key takes the place of the user's.
ApplyEnv(cfg) == IF env THEN [cfg EXCEPT !.key = TRUE, !.ref = FALSE] ELSE cfg

\* A request that has its settings to save, from a file of version base, and
\* before that may have a secret to set in the vault or to remove there.
Saving(cfg, ask, secret, base) ==
    [stage |-> IF secret.do = "none" THEN "ready" ELSE "vault", cfg |-> cfg, ask |-> ask,
     secret |-> secret, base |-> base, secrets |-> {}, vaultBase |-> 0]
No == [do |-> "none"]
Set(name) == [do |-> "set", name |-> name]
Remove(name) == [do |-> "remove", name |-> name]

Goes(c, r) == /\ req[c] = Idle /\ requests < MaxRequests
              /\ requests' = requests + 1 /\ req' = [req EXCEPT ![c] = r]
              /\ UNCHANGED <<file, vault, env, version, vaultVersion, faults, want, overlapped, lost, dangling>>

\* agent_enable_skills, agent_disable_skills: whatever the environment says of
\* the key is in the copy that is saved.
ToggleSkill(c, to) ==
    Goes(c, Saving([ApplyEnv(LoadSettings) EXCEPT !.entry = TRUE, !.skill = to], [want EXCEPT !.skill = to], No, version))

\* set_plugin_enabled, update_plugin_config
TogglePlugin(c, to) ==
    Goes(c, Saving([LoadSettings EXCEPT !.plugin = to], [want EXCEPT !.plugin = to], No, version))

\* agent_configure_skill: a token goes to the vault and is referred to.
SetToken(c) ==
    LET cfg == ApplyEnv(LoadSettings)
    IN  Goes(c, Saving([cfg EXCEPT !.entry = TRUE, !.token = cfg.vaulted], want,
                       IF cfg.vaulted THEN Set("skill") ELSE No, version))

ClearToken(c) ==
    LET cfg == ApplyEnv(LoadSettings)
    IN  Goes(c, Saving([cfg EXCEPT !.entry = TRUE, !.token = FALSE], want,
                       IF cfg.vaulted /\ cfg.token THEN Remove("skill") ELSE No, version))

-----------------------------------------------------------------------------
\* A settings page is filled: the whole file for GET /config, the agent's part
\* with the key from the vault for GET /agent/config, which a torn vault fails.
Fetch(c, page) ==
    LET cfg == ApplyEnv(LoadSettings)
        fromVault == page = "agent" /\ cfg.vaulted /\ ~cfg.key /\ cfg.ref
    IN  /\ fromVault => vault # Torn
        /\ Goes(c, [stage |-> "editing", page |-> page, base |-> version,
                    form |-> IF fromVault THEN [cfg EXCEPT !.key = "agent" \in vault] ELSE cfg])

\* update_config: the page is the file.
PostConfig(c) ==
    /\ req[c].stage = "editing" /\ req[c].page = "app"
    /\ req' = [req EXCEPT ![c] = Saving(@.form, want, No, @.base)]
    /\ UNCHANGED <<file, vault, env, version, vaultVersion, requests, faults, want, overlapped, lost, dangling>>

\* Mutant: the page's overrides are taken even if it has none.
Overrides_Page(form, cfg) == [entry |-> form.entry, skill |-> form.skill, token |-> form.token]

\* A page without overrides leaves those of the file.
Overrides(form, cfg) == LET from == IF form.entry THEN form ELSE cfg
                        IN  [entry |-> from.entry, skill |-> from.skill, token |-> from.token]

\* Mutant: a key that is not in the page is removed, referred to or not.
KeyOf_Forgets(form, vaulted) ==
    CASE ~vaulted             -> [key |-> form.key, ref |-> FALSE, secret |-> No]
      [] vaulted /\ form.key  -> [key |-> FALSE, ref |-> TRUE, secret |-> Set("agent")]
      [] vaulted /\ ~form.key -> [key |-> FALSE, ref |-> form.ref, secret |-> Remove("agent")]

\* What becomes of the key of a page: with the vault on, a key moves there and
\* a missing one that is not referred to is removed there.
KeyOf(form, vaulted) ==
    CASE ~vaulted                            -> [key |-> form.key, ref |-> FALSE, secret |-> No]
      [] vaulted /\ form.key                 -> [key |-> FALSE, ref |-> TRUE, secret |-> Set("agent")]
      [] vaulted /\ ~form.key /\ form.ref    -> [key |-> FALSE, ref |-> TRUE, secret |-> No]
      [] vaulted /\ ~form.key /\ ~form.ref   -> [key |-> FALSE, ref |-> FALSE, secret |-> Remove("agent")]

\* agent_update_config: a page with a key or none, with the reference it got or
\* none, the vault on or off, the overrides it got or none, over what the file
\* has by now.
PostAgent(c, key, keep, vaulted, bare) ==
    LET form == [req[c].form EXCEPT !.key = key, !.ref = keep /\ @, !.entry = ~bare /\ @,
                                    !.skill = IF bare THEN "unset" ELSE @, !.token = ~bare /\ @]
        cfg == ApplyEnv(LoadSettings)
        over == Overrides(form, cfg)
        k == KeyOf(form, vaulted)
    IN  /\ req[c].stage = "editing" /\ req[c].page = "agent"
        /\ req' = [req EXCEPT ![c] =
             Saving([entry |-> over.entry, skill |-> over.skill, token |-> over.token, plugin |-> cfg.plugin,
                     key |-> k.key, ref |-> k.ref, vaulted |-> vaulted], want, k.secret, @.base)]
        /\ UNCHANGED <<file, vault, env, version, vaultVersion, requests, faults, want, overlapped, lost, dangling>>

-----------------------------------------------------------------------------
\* set_secret and remove_secret load the vault; one that is torn fails the
\* request that sets, and not the one that removes.
OpenVault(c) ==
    /\ req[c].stage = "vault"
    /\ req' = [req EXCEPT ![c] =
          IF vault # Torn THEN [@ EXCEPT !.stage = "open", !.secrets = vault, !.vaultBase = vaultVersion]
          ELSE IF @.secret.do = "set" THEN Idle ELSE [@ EXCEPT !.stage = "ready"]]
    /\ UNCHANGED <<file, vault, env, version, vaultVersion, requests, faults, want, overlapped, lost, dangling>>

TruncateVault(c) ==
    /\ req[c].stage = "open"
    /\ vault' = Torn
    /\ req' = [req EXCEPT ![c].stage = "vaultWrite"]
    /\ UNCHANGED <<file, env, version, vaultVersion, requests, faults, want, overlapped, lost, dangling>>

WriteVault(c) ==
    /\ req[c].stage = "vaultWrite"
    /\ vault' = IF req[c].secret.do = "set" THEN req[c].secrets \cup {req[c].secret.name}
                                            ELSE req[c].secrets \ {req[c].secret.name}
    /\ vaultVersion' = vaultVersion + 1
    /\ overlapped' = (overlapped \/ req[c].vaultBase # vaultVersion)
    /\ req' = [req EXCEPT ![c] = [@ EXCEPT !.stage = "ready", !.secrets = {}, !.vaultBase = 0]]
    /\ UNCHANGED <<file, env, version, requests, faults, want, lost, dangling>>

\* save_settings
Truncate(c) ==
    /\ req[c].stage = "ready"
    /\ file' = Torn
    /\ req' = [req EXCEPT ![c].stage = "write"]
    /\ UNCHANGED <<vault, env, version, vaultVersion, requests, faults, want, overlapped, lost, dangling>>

Write(c) ==
    /\ req[c].stage = "write"
    /\ file' = req[c].cfg
    /\ version' = version + 1
    /\ overlapped' = (overlapped \/ req[c].base # version)
    /\ want' = req[c].ask
    /\ req' = [req EXCEPT ![c] = Idle]
    /\ UNCHANGED <<vault, env, vaultVersion, requests, faults, lost, dangling>>

\* In the middle of a removal from the vault: removed, and still referred to.
Removing(c) == req[c].stage \in {"vaultWrite", "ready", "write"} /\ req[c].secret.do = "remove"

\* A write fails after the truncation, for a full disk; a removal from the
\* vault goes on without.
WriteFails(c) ==
    /\ req[c].stage \in {"vaultWrite", "write"} /\ faults < MaxFaults
    /\ faults' = faults + 1
    /\ lost' = (lost \/ req[c].stage = "write")
    /\ dangling' = (dangling \/ req[c].stage = "vaultWrite" \/ Removing(c))
    /\ req' = [req EXCEPT ![c] = IF @.stage = "vaultWrite" /\ Removing(c)
                                 THEN [@ EXCEPT !.stage = "ready"] ELSE Idle]
    /\ UNCHANGED <<file, vault, env, version, vaultVersion, requests, want, overlapped>>

\* The daemon dies and comes up again; the pages stay.
Crash ==
    /\ faults < MaxFaults
    /\ faults' = faults + 1
    /\ lost' = (lost \/ \E c \in Clients : req[c].stage = "write")
    /\ dangling' = (dangling \/ \E c \in Clients : req[c].stage = "vaultWrite" \/ Removing(c))
    /\ req' = [c \in Clients |-> IF req[c].stage = "editing" THEN req[c] ELSE Idle]
    /\ UNCHANGED <<file, vault, env, version, vaultVersion, requests, want, overlapped>>

Save(c) == OpenVault(c) \/ TruncateVault(c) \/ WriteVault(c) \/ Truncate(c) \/ Write(c) \/ WriteFails(c)

Next == \/ \E c \in Clients :
              \/ \E to \in {"on", "off"} : ToggleSkill(c, to)
              \/ \E to \in BOOLEAN : TogglePlugin(c, to)
              \/ SetToken(c) \/ ClearToken(c)
              \/ \E page \in {"app", "agent"} : Fetch(c, page)
              \/ PostConfig(c)
              \/ \E key, keep, vaulted, bare \in BOOLEAN : PostAgent(c, key, keep, vaulted, bare)
              \/ Save(c)
        \/ Crash

Spec == Init /\ [][Next]_vars

-----------------------------------------------------------------------------
TypeOK == /\ file = Torn \/ file \in Record
          /\ vault = Torn \/ vault \subseteq Names
          /\ faults \in 0..MaxFaults

Quiet == \A c \in Clients : req[c].stage \in {"idle", "editing"}

(* What a request was acknowledged for is still there after later ones for  *)
(* other parts of the file, and after crashes, unless one wrote over what   *)
(* it had not read or the file was left torn (agent_api.rs L4572-4652,      *)
(* config.rs L646-672).                                                     *)
AckedKept ==
    Quiet /\ ~overlapped /\ ~lost => file.skill = want.skill /\ file.plugin = want.plugin

(* A reference to the vault finds its secret: it is put there before the    *)
(* reference is saved, so that only a removal that was cut short, a torn    *)
(* vault or an overlap leaves a reference to nothing (agent_api.rs          *)
(* L4616-4646, L1590-1629).                                                 *)
ReferencesResolve ==
    Quiet /\ ~overlapped /\ ~dangling /\ file # Torn =>
        /\ vault # Torn
        /\ file.ref => "agent" \in vault
        /\ file.token => "skill" \in vault
=============================================================================
