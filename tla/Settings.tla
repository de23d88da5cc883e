------------------------------ MODULE Settings -----------------------------
(***************************************************************************)
(* config.toml and everybody who writes it: patches through                *)
(* /admin/config, which a writer lock serializes (settings.rs), the        *)
(* Settings view of the desktop GUI, with and without a daemon, the        *)
(* installer, and the daemon that starts and gives itself an identity      *)
(* (tdmcp-config).                                                         *)
(*                                                                         *)
(* A configuration maps fields to values.  The blocking part of a patch    *)
(* (load, merge, save) is steps of its own: it runs on when the request is *)
(* dropped, and without the lock then.                                     *)
(***************************************************************************)
EXTENDS Absent, Naturals, FiniteSets

CONSTANTS
    Fields,
    Identity,     \* federation.daemon_id
    Binary,       \* advanced.daemon_bin
    Unsaved,      \* the fields that save leaves out
    RestartOnly,  \* the fields that a running daemon does not take over
    Values,
    Bad,          \* a value that validate refuses
    Broken,       \* a file that does not parse
    Requests,     \* patches by other clients
    Edits,        \* Edits[r]: what they may ask for
    MaxRestarts,  \* bound on restarts of the daemon
    MaxEdits      \* bound on what the user of the view changes

Window == "window"
Patches == Requests \cup {Window}
Configs == [Fields -> Values \cup {Bad, None}]

VARIABLES
    file,       \* config.toml
    live,       \* the daemon's watch channel
    startup,    \* what it started with
    patching,     \* the request that holds the writer lock
    patch,      \* patch[p]: [at, edits, config, held, meant]
    view,       \* the Settings view: [loaded, draft, saving, online]
    install,    \* the configuration an installer has loaded
    wanted,     \* history: the last acknowledged edit of each field
    stray,      \* history and bound: who has written without the writer lock
    restarts, edited

settingsVars == <<file, live, startup, patching, patch, view, install, wanted, stray, restarts,
                  edited>>

Saved == Fields \ Unsaved
Default == [f \in Fields |-> IF f = Identity THEN None ELSE CHOOSE v \in Values : TRUE]
NoEdits == [f \in {} |-> Bad]
Over(edits, config) ==
    [f \in Fields |-> IF f \in DOMAIN edits THEN edits[f] ELSE config[f]]

-----------------------------------------------------------------------------
ASSUME SettingsAssumption ==
    /\ Identity \in Fields /\ Binary \in Fields \ {Identity}
    /\ Unsaved \subseteq Fields \ {Identity, Binary} /\ RestartOnly \subseteq Fields
    /\ Values # {} /\ Bad \notin Values /\ None \notin Values \cup {Bad}
    /\ Window \notin Requests /\ None \notin Patches
    /\ None \notin {"dropped", "offline", "install", "hand"}
    /\ \A r \in Requests : \A e \in Edits[r] :
         DOMAIN e \subseteq Fields /\ e \in [DOMAIN e -> Values \cup {Bad}]
    /\ Broken \notin Configs
    /\ MaxRestarts \in Nat /\ MaxEdits \in Nat

Idle == [at |-> "idle", edits |-> NoEdits, config |-> None, held |-> FALSE, meant |-> {}]

SettingsTypeOK ==
    /\ file \in Configs \cup {Broken}
    /\ live \in Configs /\ startup \in Configs /\ wanted \in Configs
    /\ patching \in Patches \cup {None}
    /\ \A p \in Patches :
         /\ patch[p].at \in {"idle", "wait", "load", "save", "publish", "done", "refused"}
         /\ DOMAIN patch[p].edits \subseteq Fields /\ patch[p].meant \subseteq Fields
         /\ patch[p].config \in Configs \cup {None} /\ patch[p].held \in BOOLEAN
    /\ view.loaded \in Configs /\ view.draft \in Configs
    /\ view.saving \in BOOLEAN /\ view.online \in BOOLEAN
    /\ install \in Configs \cup {None}
    /\ stray \in {None, "dropped", "offline", "install", "hand"}
    /\ restarts \in 0 .. MaxRestarts /\ edited \in 0 .. MaxEdits

\* The daemon has started on a fresh configuration and the view has been opened; an
\* installer may have loaded the file before it had an identity.
SettingsInit ==
    \E id \in Values :
      LET config == [Default EXCEPT ![Identity] = id]
      IN /\ file = config /\ live = config /\ startup = config /\ wanted = config
         /\ patching = None
         /\ patch = [p \in Patches |-> Idle]
         /\ view = [loaded |-> config, draft |-> config, saving |-> FALSE, online |-> TRUE]
         /\ \/ install = None /\ stray = None
            \/ install = Default /\ stray = "install"
         /\ restarts = 0 /\ edited = 0

-----------------------------------------------------------------------------
(* tdmcp-config.                                                           *)

\* validate.
Valid(config) == \A f \in Fields : config[f] # Bad

\* save: every field but the unsaved ones, into the text that is there.
SaveFile(config) ==
    /\ file # Broken
    /\ file' = [f \in Fields |-> IF f \in Saved THEN config[f] ELSE file[f]]

\* Mutant: the whole draft is sent.
WholeDraft(old, new) == new

\* diff: only what was changed.
Diff(old, new) == [f \in {g \in Fields : new[g] # old[g]} |-> new[f]]

\* restart_required_fields.
RestartRequired == {f \in RestartOnly : startup[f] # live[f]}

-----------------------------------------------------------------------------
(* Settings::patch behind POST /admin/config.                              *)

Ask(r) ==
    /\ patch[r].at = "idle"
    /\ \E e \in Edits[r] :
         patch' = [patch EXCEPT ![r] = [Idle EXCEPT !.at = "wait", !.edits = e,
                                                    !.meant = DOMAIN e]]
    /\ UNCHANGED <<file, live, startup, patching, view, install, wanted, stray, restarts, edited>>

Lock(p) ==
    /\ patch[p].at = "wait" /\ patching = None
    /\ patching' = p
    /\ patch' = [patch EXCEPT ![p].at = "load", ![p].held = TRUE]
    /\ UNCHANGED <<file, live, startup, view, install, wanted, stray, restarts, edited>>

Free(p) == patching' = IF patching = p THEN None ELSE patching

Refuse(p) ==
    /\ patch' = [patch EXCEPT ![p].at = "refused", ![p].held = FALSE]
    /\ Free(p)

\* load and merge_patch, in the blocking part.
LoadAndMerge(p) ==
    /\ patch[p].at = "load"
    /\ \/ file = Broken /\ Refuse(p)
       \/ /\ file # Broken
          /\ LET config == Over(patch[p].edits, file)
                 kept == Valid(config) /\ config[Identity] = file[Identity]
             IN IF kept THEN /\ patch' = [patch EXCEPT ![p].at = "save", ![p].config = config]
                             /\ UNCHANGED patching
                ELSE Refuse(p)
    /\ UNCHANGED <<file, live, startup, view, install, wanted, stray, restarts, edited>>

\* save, which may fail; a file that no longer parses is left alone.
SavePatch(p) ==
    /\ patch[p].at = "save"
    /\ \/ /\ SaveFile(patch[p].config)
          /\ patch' = [patch EXCEPT ![p].at = "publish"]
          /\ UNCHANGED patching
       \/ Refuse(p) /\ UNCHANGED file
    /\ UNCHANGED <<live, startup, view, install, wanted, stray, restarts, edited>>

\* init_bridge_timeouts and send_replace, and the answer; nobody does it for a request
\* that was dropped.
Publish(p) ==
    /\ patch[p].at = "publish"
    /\ patch' = [patch EXCEPT ![p].at = "done", ![p].held = FALSE]
    /\ Free(p)
    /\ IF patch[p].held
         THEN /\ live' = patch[p].config
              /\ wanted' = [f \in Fields |-> IF f \in patch[p].meant THEN patch[p].edits[f]
                                             ELSE wanted[f]]
         ELSE UNCHANGED <<live, wanted>>
    /\ UNCHANGED <<file, startup, view, install, stray, restarts, edited>>

\* The client goes away: the future is dropped with its guard, the blocking part goes on.
Drop(r) ==
    /\ \/ /\ patch[r].at = "wait"
          /\ patch' = [patch EXCEPT ![r].at = "refused"]
          /\ UNCHANGED <<patching, stray>>
       \/ /\ patch[r].at \in {"load", "save", "publish"} /\ patch[r].held /\ stray = None
          /\ patch' = [patch EXCEPT ![r].held = FALSE]
          /\ Free(r)
          /\ stray' = "dropped"
    /\ UNCHANGED <<file, live, startup, view, install, wanted, restarts, edited>>

-----------------------------------------------------------------------------
(* The Settings view.                                                      *)

\* open_settings.
OpenSettings ==
    /\ ~view.saving /\ file # Broken
    /\ view' = [view EXCEPT !.loaded = file, !.draft = file]
    /\ UNCHANGED <<file, live, startup, patching, patch, install, wanted, stray, restarts, edited>>

\* The user turns a control; a save may be under way.
EditDraft(f, v) ==
    /\ edited < MaxEdits /\ view.draft[f] # v
    /\ edited' = edited + 1
    /\ view' = [view EXCEPT !.draft[f] = v]
    /\ UNCHANGED <<file, live, startup, patching, patch, install, wanted, stray, restarts>>

discard_settings ==
    /\ view.draft # view.loaded
    /\ view' = [view EXCEPT !.draft = view.loaded]
    /\ UNCHANGED <<file, live, startup, patching, patch, install, wanted, stray, restarts, edited>>

\* reset_settings keeps the identity and the binary.
reset_settings ==
    /\ edited < MaxEdits
    /\ edited' = edited + 1
    /\ view' = [view EXCEPT !.draft = [Default EXCEPT ![Identity] = view.draft[Identity],
                                                      ![Binary] = view.draft[Binary]]]
    /\ UNCHANGED <<file, live, startup, patching, patch, install, wanted, stray, restarts>>

\* The status poll finds the daemon or does not, also when it is there.
StatusPoll ==
    /\ view' = [view EXCEPT !.online = ~@]
    /\ UNCHANGED <<file, live, startup, patching, patch, install, wanted, stray, restarts, edited>>

\* save_settings with a daemon: a patch of what was changed.
SaveThroughDaemon ==
    /\ ~view.saving /\ view.online /\ patch[Window].at = "idle"
    /\ view.draft # view.loaded /\ Valid(view.draft)
    /\ LET edits == Diff(view.loaded, view.draft)
       IN patch' = [patch EXCEPT ![Window] =
                      [Idle EXCEPT !.at = "wait", !.edits = edits,
                                   !.meant = {f \in Fields : view.draft[f] # view.loaded[f]}]]
    /\ view' = [view EXCEPT !.saving = TRUE]
    /\ UNCHANGED <<file, live, startup, patching, install, wanted, stray, restarts, edited>>

\* finish_settings_save: the draft becomes what the daemon saved.
FinishSave ==
    /\ view.saving /\ patch[Window].at \in {"done", "refused"}
    /\ view' = IF patch[Window].at = "done"
                 THEN [view EXCEPT !.saving = FALSE, !.draft = patch[Window].config,
                                   !.loaded = patch[Window].config]
                 ELSE [view EXCEPT !.saving = FALSE]
    /\ patch' = [patch EXCEPT ![Window] = Idle]
    /\ UNCHANGED <<file, live, startup, patching, install, wanted, stray, restarts, edited>>

\* save_settings without one writes the file itself.
SaveOffline ==
    /\ ~view.saving /\ ~view.online /\ view.draft # view.loaded /\ Valid(view.draft)
    /\ stray = None
    /\ SaveFile(view.draft)
    /\ view' = [view EXCEPT !.loaded = view.draft]
    /\ stray' = "offline"
    /\ UNCHANGED <<live, startup, patching, patch, install, wanted, restarts, edited>>

-----------------------------------------------------------------------------
(* Other processes.                                                        *)

\* tdmcp-daemon install: load, note where the binary is, save.
InstallLoads ==
    /\ install = None /\ file # Broken /\ stray = None
    /\ \E v \in Values : install' = [file EXCEPT ![Binary] = v]
    /\ stray' = "install"
    /\ UNCHANGED <<file, live, startup, patching, patch, view, wanted, restarts, edited>>

InstallSaves ==
    /\ install # None
    /\ SaveFile(install)
    /\ install' = None
    /\ UNCHANGED <<live, startup, patching, patch, view, wanted, stray, restarts, edited>>

\* The user edits the file by hand and leaves it unreadable, or starts a new one.
UserBreaksFile ==
    /\ stray = None /\ file # Broken
    /\ file' = Broken /\ stray' = "hand"
    /\ UNCHANGED <<live, startup, patching, patch, view, install, wanted, restarts, edited>>

UserStartsAgain ==
    /\ file = Broken
    /\ file' = Default
    /\ UNCHANGED <<live, startup, patching, patch, view, install, wanted, stray, restarts, edited>>

\* The daemon ends, with the requests it was serving, and starts on the file it finds;
\* ensure_daemon_id gives it an identity if it has none.
DaemonRestarts ==
    /\ restarts < MaxRestarts /\ file # Broken
    /\ restarts' = restarts + 1
    /\ \E id \in Values :
         LET config == IF file[Identity] = None THEN [file EXCEPT ![Identity] = id] ELSE file
         IN /\ file' = config /\ live' = config /\ startup' = config
            /\ wanted' = [f \in Fields |->
                            IF \E p \in Patches : /\ patch[p].at \in {"save", "publish"}
                                                  /\ f \in patch[p].meant
                              THEN config[f] ELSE wanted[f]]
    /\ patching' = None
    /\ patch' = [p \in Patches |->
                   IF patch[p].at \in {"wait", "load", "save", "publish"}
                     THEN [patch[p] EXCEPT !.at = "refused", !.held = FALSE] ELSE patch[p]]
    /\ UNCHANGED <<view, install, stray, edited>>

SettingsNext ==
    \/ \E r \in Requests : Ask(r) \/ Drop(r)
    \/ \E p \in Patches : Lock(p) \/ LoadAndMerge(p) \/ SavePatch(p) \/ Publish(p)
    \/ \E f \in Saved \ {Identity}, v \in Values \cup {Bad} : EditDraft(f, v)
    \/ OpenSettings \/ discard_settings \/ reset_settings \/ StatusPoll
    \/ SaveThroughDaemon \/ FinishSave \/ SaveOffline
    \/ InstallLoads \/ InstallSaves \/ UserBreaksFile \/ UserStartsAgain \/ DaemonRestarts

SettingsSpec == SettingsInit /\ [][SettingsNext]_settingsVars

-----------------------------------------------------------------------------
PatchUnderWay == \E p \in Patches : patch[p].at = "publish"

\* As long as everybody writes through the lock, the file, the running daemon and what
\* the users were told agree, field by field: no patch undoes an edit of another client,
\* the Settings view touches only what its user changed, and neither a refused patch nor
\* a restart in the middle of one leaves half of it.  The identity never changes.
SettingsAgree ==
    /\ SettingsTypeOK
    /\ stray = None =>
         /\ \A f \in Saved : live[f] = wanted[f]
         /\ ~PatchUnderWay => \A f \in Saved : file[f] = live[f]
         /\ RestartRequired \cap Saved =
              {f \in RestartOnly \cap Saved : startup[f] # wanted[f]}

-----------------------------------------------------------------------------
(* What does not hold (README, Findings).                                  *)

\* Without a save by anybody else: what the daemon says it has saved is in the file.
LiveIsSaved == stray = None /\ ~PatchUnderWay => file = live

\* An acknowledged edit stays, and nothing else is written, whoever hangs up.
AcknowledgedEditsStay ==
    stray \in {None, "dropped"} /\ patching = None /\ ~PatchUnderWay =>
        \A f \in Saved : file[f] = wanted[f]

\* The persistent identity never changes once it is set.
IdentityIsForever ==
    [][stray # "hand" => live'[Identity] = live[Identity]]_settingsVars
=============================================================================
