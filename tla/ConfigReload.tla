---------------------------- MODULE ConfigReload ----------------------------
(***************************************************************************)
(* Hot reload of the configuration file: the goroutine of config.Watcher,  *)
(* which hears of changes from fsnotify and from polling, and              *)
(* Server.Reload, which puts a loaded configuration in force part by part. *)
(* Each read of the file, of its hash or of the "..data" link is a step,   *)
(* because the file may change between any two of them.                    *)
(***************************************************************************)
EXTENDS Naturals

CONSTANTS
    Contents,   \* what the file may hold
    Boot,       \* what the process was started with
    MaxWrites,  \* BOUND: changes of the file
    Absent

ASSUME ConfigAssumption == Boot \in Contents /\ MaxWrites \in Nat

VARIABLES
    volume,       \* TRUE: a Kubernetes volume, swapped through its link
    file, link,   \* the file, and the number of the volume it is in
    events,       \* fsnotify has an event for the watcher
    timer,        \* the debounce timer is running
    lastHash, lastTarget,   \* pollState
    lastConfig,   \* Watcher.lastConfig
    watch, via,   \* the watcher goroutine, and what woke it
    running,      \* the parts in force
    serverCfg,    \* Server.cfg
    writes,       \* changes so far, for MaxWrites
    loaded,       \* HISTORY: what was last read by LoadFromPath
    missed,       \* HISTORY: changed between that and a debounced snapshot
    stuck         \* HISTORY: parts whose rebuild failed, or that were switched off

disk == <<volume, file, link, writes>>
poll == <<lastHash, lastTarget>>
applied == <<running, serverCfg, stuck>>
configVars == <<disk, events, timer, poll, lastConfig, watch, via, applied, loaded, missed>>

(***************************************************************************)
(* Loading.                                                                *)
(***************************************************************************)

validateKeyStrategy(k) ==
    k.type \in {"clientip", "header", "composite", "global"}
    /\ (k.type \in {"header", "composite"} => k.header)

\* It also parses the CIDRs of a client IP strategy.
NewKeyStrategy(k) ==
    CASE k.type = "clientip" -> k.cidrs
      [] k.type \in {"header", "composite"} -> k.header
      [] OTHER -> k.type = "global"

\* The URL of the mode in use, auth, key strategies; c.valid stands for the
\* rules on single fields.
Validate(c) ==
    /\ c.backend # Absent
    /\ c.auth # Absent => c.auth.service # Absent
    /\ validateKeyStrategy(c.keys)
    /\ c.external # Absent => validateKeyStrategy(c.fallback)
    /\ c.valid

\* A file that cannot be read is one that sets nothing: the defaults name no
\* backend, and Validate rejects them.
LoadFromPath(c) == c.parses /\ Validate(c)

RequiresRestart(c, old) == c.fixed # old.fixed

-----------------------------------------------------------------------------

ConfigInit ==
    /\ volume \in BOOLEAN /\ file = Boot /\ link = 0 /\ writes = 0
    /\ events = FALSE /\ timer = FALSE
    /\ lastHash = Boot /\ lastTarget = 0
    /\ lastConfig = Boot /\ serverCfg = Boot /\ loaded = Boot
    /\ watch = "select" /\ via = "poll"
    /\ running = [keys |-> Boot.keys, fallback |-> Boot.fallback, limits |-> Boot.limits,
                  external |-> Boot.external, auth |-> Boot.auth, backend |-> Boot.backend]
    /\ missed = FALSE /\ stuck = {}

\* Someone changes the file.  A plain file gives an event; the swap of a
\* volume may or may not (external).
Write ==
    /\ writes < MaxWrites /\ writes' = writes + 1
    /\ \E c \in Contents \ {file} : file' = c
    /\ IF volume THEN link' = link + 1 /\ events' \in {events, TRUE}
                 ELSE link' = link /\ events' = TRUE
    /\ UNCHANGED <<volume, timer, poll, lastConfig, watch, via, applied, loaded, missed>>

(***************************************************************************)
(* Watcher.Start.                                                          *)
(***************************************************************************)

handleFSEvent ==
    /\ watch = "select" /\ events
    /\ events' = FALSE /\ timer' = TRUE
    /\ UNCHANGED <<disk, poll, lastConfig, watch, via, applied, loaded, missed>>

Debounced ==
    /\ watch = "select" /\ timer
    /\ timer' = FALSE /\ watch' = "load" /\ via' = "debounce"
    /\ UNCHANGED <<disk, events, poll, lastConfig, applied, loaded, missed>>

\* Mutant: the link alone is looked at.
LinkChanged == link # lastTarget

changed == link # lastTarget \/ file # lastHash

Poll ==
    /\ watch = "select" /\ changed
    /\ lastTarget' = link
    /\ watch' = "hash" /\ via' = "poll"
    /\ UNCHANGED <<disk, events, timer, lastHash, lastConfig, applied, loaded, missed>>

\* snapshot: after the reload when debounced, before it when polled.
SnapshotHash ==
    /\ watch = "hash" /\ watch' = "link"
    /\ lastHash' = file
    /\ missed' = (via = "debounce" /\ file # loaded)
    /\ UNCHANGED <<disk, events, timer, lastTarget, lastConfig, via, applied, loaded>>

SnapshotLink ==
    /\ watch = "link" /\ watch' = IF via = "poll" THEN "load" ELSE "select"
    /\ lastTarget' = link
    /\ UNCHANGED <<disk, events, timer, lastHash, lastConfig, via, applied, loaded, missed>>

AfterReload == IF via = "poll" THEN "select" ELSE "hash"

\* Mutant: the configuration is remembered before it is looked at.
LoadRemembersAll ==
    /\ watch = "load"
    /\ loaded' = file /\ missed' = FALSE
    /\ lastConfig' = IF LoadFromPath(file) THEN file ELSE lastConfig
    /\ watch' = IF LoadFromPath(file) /\ ~RequiresRestart(file, lastConfig)
             THEN "apply" ELSE AfterReload
    /\ UNCHANGED <<disk, events, timer, poll, via, applied>>

\* reload, up to the callback.
Load ==
    /\ watch = "load"
    /\ loaded' = file /\ missed' = FALSE
    /\ IF LoadFromPath(file) /\ ~RequiresRestart(file, lastConfig)
       THEN lastConfig' = file /\ watch' = "apply"
       ELSE watch' = AfterReload /\ UNCHANGED lastConfig
    /\ UNCHANGED <<disk, events, timer, poll, via, applied>>

(***************************************************************************)
(* Server.Reload and Chain.Reload.  The rebuild of a client or of the      *)
(* proxy may fail, which leaves the old one in place and the reload goes   *)
(* on; a key strategy that cannot be built ends the reload.                *)
(***************************************************************************)

\* Mutant: a new failure policy alone does not rebuild the client.
AuthServiceChanged(prev, new) ==
    IF Absent \in {prev.auth, new.auth} THEN prev.auth # new.auth
    ELSE prev.auth.service # new.auth.service

\* auth stands for the fields that are compared: enabled, the URL, the address
\* and the timeout (service), and the failure policy.
authChanged(prev, new) == prev.auth # new.auth

backendChanged(old, new) == old.backend # new.backend

\* reloadAuth rebuilds a client that changed and is not switched off,
\* reloadExternalRL whatever is not switched off, Server.Reload the proxy when
\* its backend changed.
Rebuilt(old, new) ==
    (IF new.auth # Absent /\ authChanged(old, new) THEN {"auth"} ELSE {})
    \cup (IF new.external # Absent THEN {"external"} ELSE {})
    \cup (IF backendChanged(old, new) THEN {"backend"} ELSE {})

SwitchedOff(new) == {p \in {"auth", "external"} : new[p] = Absent}

Reload ==
    /\ watch = "apply" /\ watch' = AfterReload
    /\ LET new == lastConfig IN
       \/ /\ ~NewKeyStrategy(new.keys)
          /\ UNCHANGED applied
       \/ /\ NewKeyStrategy(new.keys)
          /\ new.external # Absent /\ ~NewKeyStrategy(new.fallback)
          /\ running' = [running EXCEPT !.keys = new.keys]
          /\ stuck' = stuck \cup {"keys"}
          /\ UNCHANGED serverCfg
       \/ /\ NewKeyStrategy(new.keys)
          /\ new.external # Absent => NewKeyStrategy(new.fallback)
          /\ \E failed \in SUBSET Rebuilt(serverCfg, new) :
                LET built == Rebuilt(serverCfg, new) \ failed IN
                /\ running' = [p \in DOMAIN running |->
                                 IF \/ p \in {"keys", "limits"} \cup built
                                    \/ p = "fallback" /\ new.external # Absent
                                 THEN new[p] ELSE running[p]]
                /\ stuck' = ((stuck \ {"keys"}) \ built) \cup failed \cup SwitchedOff(new)
          /\ serverCfg' = new
    /\ UNCHANGED <<disk, events, timer, poll, lastConfig, via, loaded, missed>>

ConfigNext ==
    \/ Write \/ handleFSEvent \/ Debounced \/ Poll \/ SnapshotHash \/ SnapshotLink
    \/ Load \/ Reload

ConfigSpec == ConfigInit /\ [][ConfigNext]_configVars

-----------------------------------------------------------------------------

\* A change of the file is never lost between the two ways of hearing of it: as
\* long as the file is not what was last loaded, an event, the timer or the next
\* poll will bring it.  The exception is a change after a debounced load and
\* before the snapshot that follows it.
ReloadNoticed ==
    watch = "select" => loaded = file \/ events \/ timer \/ changed \/ missed

\* No sequence of edits brings in, by itself or with a later edit, a field that
\* needs a restart: what reload skipped once is not taken for running later.
RestartFieldsFixed == serverCfg.fixed = Boot.fixed /\ lastConfig.fixed = Boot.fixed

\* Between reloads every part in force is the one of the server's configuration,
\* through any sequence of edits and edits undone, or is known to have failed
\* when it was last asked for (a rebuild that failed, auth or external limits
\* switched off, a reload that ended after the key strategy was stored).
InForce ==
    /\ running.limits = serverCfg.limits
    /\ running.keys = serverCfg.keys \/ "keys" \in stuck
    /\ \A p \in {"auth", "external", "backend"} : running[p] = serverCfg[p] \/ p \in stuck
=============================================================================
