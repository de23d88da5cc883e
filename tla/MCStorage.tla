----------------------------- MODULE MCStorage -----------------------------
(* What the daemon keeps in files and whom it starts, on small instances:  *)
(* the evidence store, its exports, the palette index, the settings, and   *)
(* TouchDesigner with a project made for it.  part says which of them this *)
(* behaviour is about; the others stay where they start.                   *)
EXTENDS EvidenceStore, EvidenceExport, PaletteStore, Settings, TdLifecycle, TLC

CONSTANTS o1, o2, o3, b1, b2, w1, w2, g1, t1, u1, u2, u3, u4, a, k1, k2,
          id, bin, port, image, r1

VARIABLE part

\* The first capture shares one blob with each of the others; it and the third
\* have the same owner, whose quota does not hold both.
SharedContent == (o1 :> <<b1, b2>>) @@ (o2 :> <<b1>>) @@ (o3 :> <<b2>>)
TwoOwners == (o1 :> w1) @@ (o2 :> w2) @@ (o3 :> w1)

\* The second export refuses to replace what it finds, the others do.
SomeReplace == [x \in Exports |-> IF x = 2 THEN "NoOverwrite" ELSE "BackupAndReplace"]

\* A client that changes a port, tries a bad one or the identity, or names a field that
\* is never saved.
SomeEdits == r1 :> {port :> 2, port :> Bad, image :> 2}

Init ==
    /\ part \in {"store", "export", "palette", "settings", "launch"}
    /\ StoreInit /\ ExportInit /\ PaletteInit /\ SettingsInit /\ LifeInit
    /\ part # "settings" => file[Identity] = 1 /\ install = None

keptVars == <<storeVars, exportVars, paletteVars, settingsVars>>

Next ==
    \/ /\ part = "store" /\ StoreNext
       /\ UNCHANGED <<part, exportVars, paletteVars, settingsVars, lifeVars>>
    \/ /\ part = "export" /\ ExportNext
       /\ UNCHANGED <<part, storeVars, paletteVars, settingsVars, lifeVars>>
    \/ /\ part = "palette" /\ PaletteNext
       /\ UNCHANGED <<part, storeVars, exportVars, settingsVars, lifeVars>>
    \/ /\ part = "settings" /\ SettingsNext
       /\ UNCHANGED <<part, storeVars, exportVars, paletteVars, lifeVars>>
    \/ part = "launch" /\ LifeNext /\ UNCHANGED <<part, keptVars>>

Spec == Init /\ [][Next]_<<part, keptVars, lifeVars>>
=============================================================================
