-------------------------- MODULE PackMarketplace --------------------------
(***************************************************************************)
(* Tool packs of the MCP bridge (ai/mcp_bridge/marketplace): an index and  *)
(* a directory for each pack on disk (PackStore), the dynamic registry of  *)
(* tools in memory (dynamic_registry.py), and the allowlist file that the  *)
(* registry is reloaded from, in which the installer (PackInstaller)       *)
(* enters a pack's tools.  The handlers are those of                       *)
(* tool_marketplace_handlers.py; each is answered before the next.         *)
(***************************************************************************)
EXTENDS FiniteSets

CONSTANTS Packs, PackTools,
          ToolsOf,      \* the tools in the manifest of each pack
          HighRisk,     \* packs of a tier in APPROVAL_REQUIRED_TIERS
          HotReload,    \* source of a tool that a reload registered
          NoOne

ASSUME PacksAssumption == /\ ToolsOf \in [Packs -> SUBSET PackTools]
                          /\ HighRisk \subseteq Packs
                          /\ NoOne \notin Packs /\ HotReload \notin Packs
                          /\ NoOne # HotReload

VARIABLES packState,   \* the index; "none" without an entry
          dirs,        \* the directories of a pack: staging, installed
          source,      \* of each registered tool; NoOne when not registered
          listed,      \* the pack of each allowlist entry; NoOne without an entry
          asked,       \* _pending_approvals
          loaded,      \* the allowlist was loaded since the bridge started
          uneven       \* an installation failed or met a registry that was not
                       \* loaded, or a removal kept entries

packVars == <<packState, dirs, source, listed, asked, loaded, uneven>>

PacksInit ==
    /\ packState = [p \in Packs |-> "none"]
    /\ dirs = [p \in Packs |-> {}]
    /\ source = [t \in PackTools |-> NoOne]
    /\ listed = [t \in PackTools |-> NoOne]
    /\ asked = {}
    /\ loaded = FALSE
    /\ uneven = FALSE

\* get_pack needs the directory that belongs to the state in the index.
Found(p) ==
    \/ packState[p] \in {"staged", "validated"} /\ "staging" \in dirs[p]
    \/ packState[p] \in {"installed", "disabled"} /\ "installed" \in dirs[p]

Become(p, st) == packState' = [packState EXCEPT ![p] = st]

\* stage_pack, after import or export; an import marks it validated as well
\* unless it skips the validation or is killed before.
StagePack(p) ==
    /\ ~Found(p)
    /\ \E st \in {"staged", "validated"} : Become(p, st)
    /\ dirs' = [dirs EXCEPT ![p] = @ \cup {"staging"}]
    /\ UNCHANGED <<source, listed, asked, loaded, uneven>>

\* The pack passes: its state becomes VALIDATED whatever it was, and its
\* directory stays where it is.
ValidatePack(p) ==
    /\ Found(p)
    /\ Become(p, "validated")
    /\ UNCHANGED <<dirs, source, listed, asked, loaded, uneven>>

\* check_install_prerequisites, which force does not get past in the handler.
CanInstall(p) ==
    /\ Found(p)
    /\ packState[p] \in {"validated", "disabled"}
    /\ p \in HighRisk => p \in asked

\* A refused installation may ask for approval, which is all it then needs.
RequestApproval(p) ==
    /\ Found(p) /\ ~CanInstall(p) /\ p \in HighRisk
    /\ asked' = asked \cup {p}
    /\ UNCHANGED <<packState, dirs, source, listed, loaded, uneven>>

\* Tools that are registered already are skipped.
ToInstall(p) == {t \in ToolsOf[p] : source[t] = NoOne}

Registered(p) == [t \in PackTools |-> IF t \in ToInstall(p) THEN p ELSE source[t]]
ListedFor(p) == [t \in PackTools |-> IF t \in ToInstall(p) THEN p ELSE listed[t]]

\* Mutant: the files of an installed pack stay in the staging directory.
Unmoved(p) == dirs

Moved(p) ==
    IF packState[p] = "validated" /\ "staging" \in dirs[p]
    THEN [dirs EXCEPT ![p] = {"installed"}] ELSE dirs

Installing(p) ==
    /\ CanInstall(p)
    /\ uneven' = (uneven \/ ~loaded)

InstallPack(p) ==
    /\ Installing(p)
    /\ source' = Registered(p)
    /\ listed' = ListedFor(p)
    /\ dirs' = Moved(p)
    /\ Become(p, "installed")
    /\ UNCHANGED <<asked, loaded>>

\* The allowlist cannot be written: PackInstallError, with the tools in the
\* registry and no rollback.
InstallFails(p) ==
    /\ CanInstall(p) /\ ToInstall(p) # {}
    /\ uneven' = TRUE
    /\ source' = Registered(p)
    /\ UNCHANGED <<packState, dirs, listed, asked, loaded>>

Stopped ==
    /\ source' = [t \in PackTools |-> NoOne]
    /\ asked' = {}
    /\ loaded' = FALSE

\* The bridge is killed after the allowlist is written, or after the pack has
\* moved as well, and before the index is.
InstallKilled(p) ==
    /\ Installing(p)
    /\ listed' = ListedFor(p)
    /\ dirs' \in {dirs, Moved(p)}
    /\ Stopped
    /\ UNCHANGED packState

\* Mutant: whoever registered them.
RegisteredTools(p) == {t \in ToolsOf[p] : source[t] # NoOne}

RegisteredBy(p) == {t \in ToolsOf[p] : source[t] = p}
EntriesOf(p) == {t \in ToolsOf[p] : listed[t] = p}

\* remove_pack: the entries stay if the caller or an error keeps them.  The
\* files stay as well: a pack in state REMOVED is not found any more.
RemovePack(p) ==
    /\ Found(p) /\ packState[p] = "installed"
    /\ source' = [t \in PackTools |-> IF t \in RegisteredBy(p) THEN NoOne ELSE source[t]]
    /\ \/ /\ listed' = [t \in PackTools |-> IF t \in EntriesOf(p) THEN NoOne ELSE listed[t]]
          /\ UNCHANGED uneven
       \/ uneven' = TRUE /\ UNCHANGED listed
    /\ Become(p, "removed")
    /\ UNCHANGED <<dirs, asked, loaded>>

\* disable_pack leaves the tools registered.
DisablePack(p) ==
    /\ Found(p) /\ packState[p] = "installed"
    /\ Become(p, "disabled")
    /\ UNCHANGED <<dirs, source, listed, asked, loaded, uneven>>

\* reload_allowlist, on request or by the watcher.
ReloadAllowlist ==
    /\ source' = [t \in PackTools |-> IF listed[t] = NoOne THEN NoOne
                                      ELSE IF source[t] = NoOne THEN HotReload
                                      ELSE source[t]]
    /\ loaded' = TRUE
    /\ UNCHANGED <<packState, dirs, listed, asked, uneven>>

\* The registry of a new process is empty until the first reload.
BridgeStops ==
    /\ Stopped
    /\ UNCHANGED <<packState, dirs, listed, uneven>>

PacksNext ==
    \/ \E p \in Packs : \/ StagePack(p) \/ ValidatePack(p) \/ RequestApproval(p)
                        \/ InstallPack(p) \/ InstallFails(p) \/ InstallKilled(p)
                        \/ RemovePack(p) \/ DisablePack(p)
    \/ ReloadAllowlist
    \/ BridgeStops

PacksSpec == PacksInit /\ [][PacksNext]_packVars

----------------------------------------------------------------------------
PacksTypeOK ==
    /\ packState \in [Packs -> {"none", "staged", "validated", "installed",
                                "disabled", "removed"}]
    /\ dirs \in [Packs -> SUBSET {"staging", "installed"}]
    /\ source \in [PackTools -> Packs \cup {HotReload, NoOne}]
    /\ listed \in [PackTools -> Packs \cup {NoOne}]
    /\ asked \subseteq HighRisk
    /\ {loaded, uneven} \subseteq BOOLEAN

(* A pack that the index calls installed or disabled is always found, so    *)
(* that it can be removed, through failed and killed installations and      *)
(* imports of the same pack again.                                          *)
InstalledFound ==
    \A p \in Packs : packState[p] \in {"installed", "disabled"} => Found(p)

(* As long as the registry was loaded before every installation, none       *)
(* failed and no removal kept its entries, an installation takes no tool    *)
(* from another installed pack, whatever was installed, removed, disabled,  *)
(* validated again, killed and restarted before.                            *)
OwnersKept ==
    [][\A t \in PackTools, p, q \in Packs :
          ~uneven' /\ p # q /\ listed[t] = q /\ packState[q] \in {"installed", "disabled"}
             => listed'[t] # p]_packVars
=============================================================================
