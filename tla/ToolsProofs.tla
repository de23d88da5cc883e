---------------------------- MODULE ToolsProofs ----------------------------
(* Proofs about what the tools do to the user's files and tell the caller,  *)
(* for any number of calls, processes and versions: the installation of the *)
(* assets and the binary, the bridge in a packed project, snapshots, calls  *)
(* that are routed to another daemon, the unpacking of a project.           *)
EXTENDS Installation, BridgeInstall, ProjectSnapshot, ProjectUnpack, ToolRouting,
        FiniteSetTheorems, WellFoundedInduction, TLAPS

-----------------------------------------------------------------------------
(* Installation.                                                           *)

Holding == {"look", "backup", "publish", "undo", "release"}

InstallTypes ==
    /\ command \in Commands /\ shipped \in Shipments
    /\ data \in AssetFiles
    /\ holder \in Installers \cup {None}
    /\ standing \in [Installers -> Ensuring \cup Replacing \cup {"end", "dead"}]
    /\ names \in [Installers -> {Always, WithTemplate}]
    /\ next \in [Installers -> 0 .. 5]
    /\ stock \in [Installers -> AssetFiles] /\ kept \in [Installers -> AssetFiles]
    /\ found \in [Installers -> AssetFiles]
    /\ ending \in [Installers -> {"none", "current", "extracted", "restored", "incomplete"}]
    /\ bin \in Builds \cup {None}
    /\ olds \subseteq Installers \X Builds
    /\ mishaps \in 0 .. MaxMishaps /\ halts \in 0 .. MaxHalts

\* Whoever is between taking and releasing install.lock holds it.
LockIsHeld == \A i \in Installers : standing[i] \in Holding <=> holder = i

\* What asset n was when i took the lock, or what the user saved since.
AsFound(i, n, x) == x = found[i][n] \/ (n = "template" /\ x = Custom)

AsBuilt(i, n, x) == x = AssetsOf(Build(i))[n] \/ (n = "template" /\ x = Custom)

\* Before next the assets are the build's and the old ones are kept; from there on they
\* are as they were found.
Publishing(i) ==
    /\ next[i] \in 1 .. Len(names[i]) /\ ending[i] = "none"
    /\ \A x \in 1 .. Len(names[i]) :
          LET n == names[i][x]
          IN /\ x < next[i] => AsBuilt(i, n, data[n]) /\ AsFound(i, n, kept[i][n])
             /\ x = next[i] /\ standing[i] = "publish" => AsFound(i, n, kept[i][n])
             /\ x = next[i] /\ standing[i] = "backup" => AsFound(i, n, data[n])
             /\ x > next[i] => AsFound(i, n, data[n])
             /\ x >= next[i] => stock[i][n] = AssetsOf(Build(i))[n]
    /\ names[i] = Always => data["template"] # None /\ AsFound(i, "template", data["template"])

Undoing(i) ==
    /\ next[i] \in 0 .. Len(names[i]) /\ ending[i] \in {"none", "incomplete"}
    /\ \A x \in 1 .. Len(names[i]) :
          LET n == names[i][x]
          IN /\ x <= next[i] => AsFound(i, n, kept[i][n])
             /\ x > next[i] /\ ending[i] = "none" => AsFound(i, n, data[n])
    /\ names[i] = Always => AsFound(i, "template", data["template"])

Released(i) ==
    /\ ending[i] \in {"current", "extracted"} =>
         /\ data["bridge"] = Build(i) /\ VersionOf[data["stamp"]] = VersionOf[Build(i)]
         /\ data["skills"] # None /\ data["template"] # None
    /\ ending[i] = "restored" => \A n \in Assets : AsFound(i, n, data[n])

Ensures(i) ==
    /\ standing[i] \in {"lock", "look"} => ending[i] = "none"
    /\ standing[i] = "look" => \A n \in Assets : AsFound(i, n, data[n])
    /\ standing[i] \in {"backup", "publish"} => Publishing(i)
    /\ standing[i] = "undo" => Undoing(i)
    /\ standing[i] = "release" => Released(i)

AssetsOnTheWay == \A i \in Installers : Ensures(i)

\* One at a time at the binary, which is only away while it is aside.
BinaryOnTheWay ==
    /\ ~crowded => \A i, j \in Installers : standing[i] \in Replacing /\ standing[j] \in Replacing => i = j
    /\ shipped # None /\ mishaps < 2 /\ halts = 0 /\ ~crowded /\ bin = None =>
         \E i \in Installers : /\ \/ standing[i] = "swap"
                                  \/ standing[i] = "putBack" /\ mishaps > 0
                               /\ \E o \in olds : o[1] = i

InstallInv ==
    /\ InstallTypes /\ crowded \in BOOLEAN
    /\ LockIsHeld /\ AssetsOnTheWay /\ BinaryOnTheWay

LEMMA PublishedNames ==
    \A s \in {Always, WithTemplate} :
        /\ Len(s) \in {4, 5} /\ \A x \in 1 .. Len(s) : s[x] \in Assets
        /\ \A x, y \in 1 .. Len(s) : s[x] = s[y] => x = y
        /\ \A n \in Assets \ {"template"} : \E x \in 1 .. Len(s) : s[x] = n
        /\ s = Always => \A x \in 1 .. Len(s) : s[x] # "template"
        /\ s = WithTemplate => \E x \in 1 .. Len(s) : s[x] = "template"
<1>1. Len(Always) = 4 /\ Len(WithTemplate) = 5 /\ Always # WithTemplate
  BY DEF Always, WithTemplate
<1>2. /\ Always[1] = "bridge" /\ Always[2] = "skills" /\ Always[3] = "starter" /\ Always[4] = "stamp"
      /\ \A x \in 1 .. 4 : x = 1 \/ x = 2 \/ x = 3 \/ x = 4
  BY DEF Always
<1>3. /\ WithTemplate[1] = "bridge" /\ WithTemplate[2] = "skills" /\ WithTemplate[3] = "starter"
      /\ WithTemplate[4] = "template" /\ WithTemplate[5] = "stamp"
      /\ \A x \in 1 .. 5 : x = 1 \/ x = 2 \/ x = 3 \/ x = 4 \/ x = 5
  BY DEF WithTemplate
<1>4. \A n \in Assets \ {"template"} : \E x \in 1 .. 4 : Always[x] = n
  BY <1>2 DEF Assets
<1>5. \A n \in Assets : \E x \in 1 .. 5 : WithTemplate[x] = n
  BY <1>3 DEF Assets
<1>6. \A x \in 1 .. 4 : Always[x] \in Assets /\ Always[x] # "template"
  BY <1>2 DEF Assets
<1>7. \A x \in 1 .. 5 : WithTemplate[x] \in Assets
  BY <1>3 DEF Assets
<1>8. \A x, y \in 1 .. 4 : Always[x] = Always[y] => x = y
  BY <1>2
<1>9. \A x, y \in 1 .. 5 : WithTemplate[x] = WithTemplate[y] => x = y
  BY <1>3
<1>10. \E x \in 1 .. 5 : WithTemplate[x] = "template"
  BY <1>3
<1> SUFFICES ASSUME NEW s \in {Always, WithTemplate}
             PROVE  /\ Len(s) \in {4, 5} /\ \A x \in 1 .. Len(s) : s[x] \in Assets
                    /\ \A x, y \in 1 .. Len(s) : s[x] = s[y] => x = y
                    /\ \A n \in Assets \ {"template"} : \E x \in 1 .. Len(s) : s[x] = n
                    /\ s = Always => \A x \in 1 .. Len(s) : s[x] # "template"
                    /\ s = WithTemplate => \E x \in 1 .. Len(s) : s[x] = "template"
  OBVIOUS
<1> HIDE DEF Always, WithTemplate, Assets
<1>11. CASE s = Always
  BY <1>1, <1>4, <1>6, <1>8, <1>11
<1>12. CASE s = WithTemplate
  BY <1>1, <1>5, <1>7, <1>9, <1>10, <1>12
<1> QED
  BY <1>11, <1>12

LEMMA AssetsOfABuild ==
    \A b \in Builds : AssetsOf(b) \in AssetFiles /\ \A n \in Assets : AssetsOf(b)[n] \in Builds
BY InstallationAssumption DEF AssetsOf, AssetFiles

LEMMA CommandsOfProcesses == ASSUME InstallTypes PROVE \A i \in Installers : Build(i) \in Builds
BY InstallationAssumption DEF InstallTypes, Build

LEMMA InstallInitInv == InstallInit => InstallInv
<1> SUFFICES ASSUME InstallInit PROVE InstallInv
  OBVIOUS
<1> USE InstallationAssumption
<1>1. Nowhere \in AssetFiles
  BY DEF Nowhere, AssetFiles
<1>2. data \in AssetFiles
  BY <1>1, AssetsOfABuild DEF InstallInit
<1>3. InstallTypes
  BY <1>1, <1>2 DEF InstallInit, InstallTypes, Ensuring
<1>4. crowded \in BOOLEAN
  BY DEF InstallInit
<1>5. LockIsHeld
  BY DEF InstallInit, LockIsHeld, Holding
<1>6. AssetsOnTheWay
  BY DEF InstallInit, AssetsOnTheWay, Ensures
<1>7. BinaryOnTheWay
  BY DEF InstallInit, BinaryOnTheWay, Replacing
<1> QED
  BY <1>3, <1>4, <1>5, <1>6, <1>7 DEF InstallInv
\* A step of the process that holds the lock is no affair of the others.
LEMMA OnlyTheHolder ==
    ASSUME InstallInv, NEW i \in Installers, holder = i,
           \A j \in Installers : j # i => standing'[j] = standing[j] /\ ending'[j] = ending[j],
           Ensures(i)'
    PROVE  AssetsOnTheWay'
<1>1. ASSUME NEW j \in Installers, j # i PROVE Ensures(j)'
  <2>1. standing'[j] \notin Holding /\ standing'[j] = standing[j] /\ ending'[j] = ending[j]
    BY <1>1 DEF InstallInv, LockIsHeld
  <2> QED
    BY <2>1 DEF InstallInv, AssetsOnTheWay, Ensures, Holding
<1> QED
  BY <1>1 DEF AssetsOnTheWay

\* Nor is a step before the binary's turn the binary's.
LEMMA BinaryWaits ==
    ASSUME InstallInv, UNCHANGED <<bin, olds, crowded, shipped>>,
           mishaps' \in Nat, halts' \in Nat, mishaps <= mishaps', halts <= halts',
           \A j \in Installers : standing[j] \in Replacing \/ standing'[j] \in Replacing =>
                                   standing'[j] = standing[j]
    PROVE  BinaryOnTheWay'
<1>1. mishaps \in Nat /\ halts \in Nat
  BY InstallationAssumption DEF InstallInv, InstallTypes
<1>2. ~crowded' => \A i, j \in Installers : standing'[i] \in Replacing /\ standing'[j] \in Replacing => i = j
  BY DEF InstallInv, BinaryOnTheWay
<1>3. mishaps' < 2 => mishaps < 2
  BY <1>1
<1>4. halts' = 0 => halts = 0
  BY <1>1
<1>5. ASSUME shipped' # None, mishaps' < 2, halts' = 0, ~crowded', bin' = None
      PROVE  \E i \in Installers : /\ standing'[i] = "swap" \/ (standing'[i] = "putBack" /\ mishaps' > 0)
                                   /\ \E o \in olds' : o[1] = i
  <2>1. PICK i \in Installers : /\ standing[i] = "swap" \/ (standing[i] = "putBack" /\ mishaps > 0)
                                /\ \E o \in olds : o[1] = i
    BY <1>3, <1>4, <1>5 DEF InstallInv, BinaryOnTheWay
  <2>2. standing'[i] = standing[i]
    BY <2>1 DEF Replacing
  <2> QED
    BY <1>1, <2>1, <2>2
<1> QED
  BY <1>2, <1>5 DEF BinaryOnTheWay

LEMMA MishapCounts ==
    ASSUME InstallInv, Mishap \/ UNCHANGED mishaps
    PROVE  mishaps' \in 0 .. MaxMishaps /\ mishaps <= mishaps' /\ mishaps' \in Nat
BY InstallationAssumption DEF InstallInv, InstallTypes, Mishap

LEMMA LockStepKeepsInv ==
    ASSUME InstallInv, NEW i \in Installers, TakeInstallLock(i) \/ LookAtAssets(i) PROVE InstallInv'
<1> USE InstallationAssumption DEF InstallInv
<1>1. /\ UNCHANGED <<given, data, kept, binaryVars, halts>>
      /\ Mishap \/ UNCHANGED mishaps
      /\ \A j \in Installers : j # i => standing'[j] = standing[j] /\ ending'[j] = ending[j]
      /\ standing[i] \in {"lock", "look"} /\ standing'[i] \in Holding
      /\ standing' \in [Installers -> Ensuring \cup Replacing \cup {"end", "dead"}]
      /\ ending' \in [Installers -> {"none", "current", "extracted", "restored", "incomplete"}]
      /\ holder' = i
  BY DEF TakeInstallLock, LookAtAssets, InstallTypes, Does, Finds, Ensuring, Holding, LockIsHeld
<1>2. mishaps' \in 0 .. MaxMishaps /\ mishaps <= mishaps' /\ mishaps' \in Nat /\ halts \in Nat
  BY <1>1, MishapCounts DEF InstallTypes
<1>3. crowded' \in BOOLEAN
  BY <1>1 DEF binaryVars
<1>4. BinaryOnTheWay'
  <2>1. standing'[i] \notin Replacing /\ standing[i] \notin Replacing
    BY <1>1 DEF Holding, Replacing
  <2> QED
    BY <1>1, <1>2, <2>1, BinaryWaits DEF binaryVars, given
<1>5. CASE TakeInstallLock(i)
  <2>1. found' = [found EXCEPT ![i] = data] /\ standing'[i] = "look" /\ ending'[i] = ending[i] /\ standing[i] = "lock"
        /\ holder = None /\ UNCHANGED <<names, next, stock>>
    BY <1>5 DEF TakeInstallLock, Does, InstallTypes
  <2>2. InstallTypes'
    BY <1>1, <1>2, <2>1 DEF InstallTypes, given, binaryVars
  <2>3. LockIsHeld'
    BY <1>1, <2>1 DEF LockIsHeld, InstallTypes
  <2>4. Ensures(i)'
    <3>1. found'[i] = data
      BY <2>1 DEF InstallTypes
    <3> QED
      BY <1>1, <2>1, <3>1 DEF Ensures, AssetsOnTheWay, AsFound
  <2>5. ASSUME NEW j \in Installers, j # i PROVE Ensures(j)'
    <3>1. standing[j] \notin Holding
      BY <2>1 DEF LockIsHeld
    <3> QED
      BY <1>1, <2>5, <3>1 DEF AssetsOnTheWay, Ensures, Holding
  <2> QED
    BY <1>3, <1>4, <2>2, <2>3, <2>4, <2>5 DEF AssetsOnTheWay
<1>6. CASE LookAtAssets(i)
  <2>1. standing[i] = "look" /\ holder = i /\ UNCHANGED <<found, holder>> /\ ending[i] = "none"
        /\ Build(i) \in Builds /\ Build(i)' = Build(i)
    BY <1>1, <1>6, CommandsOfProcesses DEF LookAtAssets, AssetsOnTheWay, Ensures, LockIsHeld, Holding, Build, given
  <2>2. names' \in [Installers -> {Always, WithTemplate}] /\ next' \in [Installers -> 0 .. 5]
        /\ stock' \in [Installers -> AssetFiles]
    BY <1>6, <2>1, AssetsOfABuild DEF LookAtAssets, InstallTypes
  <2>3. InstallTypes'
    BY <1>1, <1>2, <2>1, <2>2 DEF InstallTypes, given, binaryVars
  <2>4. LockIsHeld'
    BY <1>1, <2>1 DEF LockIsHeld
  <2>5. \A n \in Assets : AsFound(i, n, data[n]) /\ AsFound(i, n, data[n])'
    BY <1>1, <2>1 DEF AssetsOnTheWay, Ensures, AsFound
  <2>6. Ensures(i)'
    <3>1. CASE ~command[i].force /\ AssetsCurrent(Build(i)) /\ Finds(i, "current")
      <4>1. ending'[i] = "current" /\ standing'[i] = "release"
        BY <3>1 DEF Finds, Does, InstallTypes
      <4>2. Released(i)'
        <5>1. TemplateOf[Build(i)] # None /\ Build(i) # None
          BY <2>1
        <5> QED
          BY <1>1, <2>1, <3>1, <4>1, <5>1 DEF Released, AssetsCurrent, DigestMatches
      <4> QED
        BY <4>1, <4>2 DEF Ensures
    <3>2. CASE /\ stock' = [stock EXCEPT ![i] = AssetsOf(Build(i))]
               /\ names' = [names EXCEPT ![i] = IF data["template"] = None THEN WithTemplate ELSE Always]
               /\ next' = [next EXCEPT ![i] = 1]
               /\ Does(i, "backup") /\ UNCHANGED ending
      <4>1. /\ standing'[i] = "backup" /\ ending'[i] = "none" /\ next'[i] = 1
            /\ stock'[i] = AssetsOf(Build(i))
            /\ names'[i] = IF data["template"] = None THEN WithTemplate ELSE Always
        BY <2>1, <3>2 DEF Does, InstallTypes
      <4>2. names'[i] = Always => data["template"] # None
        BY <4>1 DEF Always, WithTemplate
      <4>3. Len(names'[i]) \in {4, 5} /\ \A x \in 1 .. Len(names'[i]) : names'[i][x] \in Assets
        BY <4>1, PublishedNames
      <4>4. Publishing(i)'
        <5>1. AsFound(i, "template", data["template"])' /\ data' = data
          BY <1>1, <2>5 DEF Assets, given
        <5>2. 1 \in 1 .. Len(names'[i])
          <6> DEFINE l == Len(names'[i])
          <6>1. l = 4 \/ l = 5
            BY <4>3
          <6> HIDE DEF l
          <6>2. 1 \in 1 .. l
            BY <6>1
          <6> QED
            BY <6>2 DEF l
        <5>3. AssetsOf(Build(i))' = AssetsOf(Build(i))
          BY <2>1 DEF AssetsOf
        <5>4. ASSUME NEW x \in 1 .. Len(names'[i])
              PROVE  /\ AsFound(i, names[i][x], data[names[i][x]])'
                     /\ stock'[i][names'[i][x]] = AssetsOf(Build(i))[names'[i][x]]
                     /\ ~(x < 1)
          BY <2>5, <4>1, <4>3
        <5> QED
          BY <4>1, <4>2, <5>1, <5>2, <5>3, <5>4 DEF Publishing
      <4> QED
        BY <4>1, <4>4 DEF Ensures
    <3>3. CASE Finds(i, "restored")
      <4>1. ending'[i] = "restored" /\ standing'[i] = "release"
        BY <3>3 DEF Finds, Does, InstallTypes
      <4> QED
        BY <2>5, <4>1 DEF Ensures, Released
    <3> QED
      BY <1>6, <3>1, <3>2, <3>3 DEF LookAtAssets
  <2> QED
    BY <1>1, <1>3, <1>4, <2>1, <2>3, <2>4, <2>6, OnlyTheHolder
<1> QED
  BY <1>5, <1>6

\* What the steps of publish_assets have in common.
LEMMA PublishFrame ==
    ASSUME InstallInv, NEW i \in Installers, BackUp(i) \/ PublishAsset(i) \/ UndoOne(i) \/ UndoEnds(i)
    PROVE  /\ standing[i] \in {"backup", "publish", "undo"} /\ holder = i
           /\ names[i] \in {Always, WithTemplate} /\ Build(i) \in Builds
           /\ UNCHANGED <<given, holder, names, found, binaryVars, halts>>
           /\ AssetsOf(Build(i))' = AssetsOf(Build(i))
           /\ mishaps' \in 0 .. MaxMishaps
           /\ crowded' \in BOOLEAN
           /\ standing'[i] \in Holding => BinaryOnTheWay'
<1> USE InstallationAssumption DEF InstallInv
<1>1. /\ standing[i] \in {"backup", "publish", "undo"}
      /\ UNCHANGED <<given, holder, names, found, binaryVars, halts>>
      /\ Mishap \/ UNCHANGED mishaps
      /\ \A j \in Installers : j # i => standing'[j] = standing[j]
  BY DEF BackUp, PublishAsset, UndoOne, UndoEnds, Does, Finds, InstallTypes
<1>2. mishaps' \in 0 .. MaxMishaps /\ mishaps <= mishaps' /\ mishaps' \in Nat /\ halts \in Nat
  BY <1>1, MishapCounts DEF InstallTypes
<1>3. holder = i /\ names[i] \in {Always, WithTemplate} /\ Build(i) \in Builds
  BY <1>1, CommandsOfProcesses DEF LockIsHeld, Holding, InstallTypes
<1>4. crowded' \in BOOLEAN
  BY <1>1 DEF binaryVars
<1>5. ASSUME standing'[i] \in Holding PROVE BinaryOnTheWay'
  <2>1. standing'[i] \notin Replacing /\ standing[i] \notin Replacing
    BY <1>1, <1>5 DEF Holding, Replacing
  <2> QED
    BY <1>1, <1>2, <2>1, BinaryWaits DEF binaryVars, given
<1>6. AssetsOf(Build(i))' = AssetsOf(Build(i))
  BY <1>1 DEF AssetsOf, Build, given
<1> QED
  BY <1>1, <1>2, <1>3, <1>4, <1>5, <1>6

LEMMA PublishStep ==
    ASSUME InstallInv, NEW i \in Installers, BackUp(i) \/ PublishAsset(i) \/ UndoOne(i) \/ UndoEnds(i),
           NEW at2 \in Holding, standing' = [standing EXCEPT ![i] = at2],
           data' \in AssetFiles, next' \in [Installers -> 0 .. 5],
           stock' \in [Installers -> AssetFiles], kept' \in [Installers -> AssetFiles],
           ending' \in [Installers -> {"none", "current", "extracted", "restored", "incomplete"}],
           \A j \in Installers : j # i => ending'[j] = ending[j],
           Ensures(i)'
    PROVE  InstallInv'
<1> USE DEF InstallInv
<1>1. /\ standing[i] \in {"backup", "publish", "undo"} /\ holder = i
      /\ UNCHANGED <<given, holder, names, found, binaryVars, halts>>
      /\ mishaps' \in 0 .. MaxMishaps /\ crowded' \in BOOLEAN
      /\ standing'[i] \in Holding => BinaryOnTheWay'
  BY PublishFrame
<1>2. standing'[i] = at2 /\ \A j \in Installers : j # i => standing'[j] = standing[j]
  BY DEF InstallTypes
<1>3. LockIsHeld'
  BY <1>1, <1>2 DEF LockIsHeld
<1>4. standing' \in [Installers -> Ensuring \cup Replacing \cup {"end", "dead"}]
  BY DEF InstallTypes, Holding, Ensuring
<1>5. InstallTypes'
  BY <1>1, <1>4 DEF InstallTypes, given, binaryVars
<1>6. AssetsOnTheWay'
  BY <1>1, <1>2, OnlyTheHolder
<1> QED
  BY <1>1, <1>2, <1>3, <1>5, <1>6

LEMMA BackUpKeepsInv == ASSUME InstallInv, NEW i \in Installers, BackUp(i) PROVE InstallInv'
<1> USE DEF InstallInv
<1> DEFINE n == Name(i)
<1>1. /\ standing[i] = "backup" /\ Publishing(i) /\ names'[i] = names[i] /\ found' = found
      /\ AssetsOf(Build(i))' = AssetsOf(Build(i)) /\ UNCHANGED <<stock, ending>>
  BY PublishFrame DEF BackUp, AssetsOnTheWay, Ensures
<1>2. /\ Len(names[i]) \in {4, 5} /\ \A x \in 1 .. Len(names[i]) : names[i][x] \in Assets
      /\ \A x, y \in 1 .. Len(names[i]) : names[i][x] = names[i][y] => x = y
      /\ names[i] = Always => \A x \in 1 .. Len(names[i]) : names[i][x] # "template"
  <2>1. names[i] \in {Always, WithTemplate}
    BY PublishFrame
  <2> QED
    BY ONLY <2>1, PublishedNames
<1>3. next[i] \in 1 .. Len(names[i]) /\ n \in Assets /\ n = names[i][next[i]]
  BY <1>1, <1>2 DEF Publishing, Name
<1>4. data \in [Assets -> Builds \cup {None, Custom}] /\ kept \in [Installers -> [Assets -> Builds \cup {None, Custom}]]
  BY DEF InstallTypes, AssetFiles
<1> HIDE DEF n
<1>5. CASE /\ kept' = [kept EXCEPT ![i][n] = data[n]]
           /\ data' = [data EXCEPT ![n] = None]
           /\ Does(i, "publish") /\ UNCHANGED <<next, mishaps>>
  <2>1. data' \in AssetFiles /\ kept' \in [Installers -> AssetFiles]
    BY <1>3, <1>4, <1>5 DEF AssetFiles
  <2>2. standing' = [standing EXCEPT ![i] = "publish"] /\ standing'[i] = "publish"
    BY <1>5 DEF Does, InstallTypes
  <2>3. kept'[i][n] = data[n] /\ \A m \in Assets : m # n => kept'[i][m] = kept[i][m] /\ data'[m] = data[m]
    BY <1>3, <1>4, <1>5
  <2>4. ASSUME NEW x \in 1 .. Len(names[i]), NEW m, m = names[i][x]
        PROVE  /\ x < next[i] => AsBuilt(i, m, data[m])' /\ AsFound(i, m, kept[i][m])'
               /\ x = next[i] => AsFound(i, m, kept[i][m])'
               /\ x > next[i] => AsFound(i, m, data[m])'
               /\ x >= next[i] => stock'[i][m] = AssetsOf(Build(i))[m]
    <3>1. /\ x < next[i] => AsBuilt(i, m, data[m]) /\ AsFound(i, m, kept[i][m])
          /\ x = next[i] => AsFound(i, m, data[m])
          /\ x > next[i] => AsFound(i, m, data[m])
          /\ x >= next[i] => stock[i][m] = AssetsOf(Build(i))[m]
      BY <1>1, <2>4 DEF Publishing
    <3>2. m \in Assets /\ (m = n <=> x = next[i])
      BY <1>2, <1>3, <2>4
    <3>3. stock' = stock
      BY <1>1
    <3> QED
      BY <1>1, <2>3, <3>1, <3>2, <3>3 DEF AsBuilt, AsFound
  <2>5. names[i] = Always => data'["template"] # None /\ AsFound(i, "template", data["template"])'
    <3>1. names[i] = Always => n # "template" /\ data["template"] # None /\ AsFound(i, "template", data["template"])
      BY <1>1, <1>2, <1>3 DEF Publishing
    <3>2. "template" \in Assets
      BY DEF Assets
    <3> QED
      BY <1>1, <2>3, <3>1, <3>2 DEF AsFound
  <2>6. Publishing(i)'
    BY <1>1, <1>3, <1>5, <2>2, <2>4, <2>5 DEF Publishing
  <2>7. Ensures(i)'
    BY <2>2, <2>6 DEF Ensures
  <2> QED
    BY <1>1, <1>5, <2>1, <2>2, <2>7, PublishStep DEF InstallTypes, Holding
<1>6. CASE /\ Does(i, "undo") /\ next' = [next EXCEPT ![i] = @ - 1] /\ UNCHANGED <<data, kept>>
  <2>1. standing' = [standing EXCEPT ![i] = "undo"] /\ standing'[i] = "undo"
    BY <1>6 DEF Does, InstallTypes
  <2>2. next' \in [Installers -> 0 .. 5] /\ next'[i] = next[i] - 1
    BY <1>2, <1>3, <1>6 DEF InstallTypes
  <2>3. Undoing(i)'
    <3>1. next'[i] \in 0 .. Len(names[i]) /\ ending'[i] = "none"
      BY <1>1, <1>2, <1>3, <2>2 DEF Publishing
    <3>2. ASSUME NEW x \in 1 .. Len(names[i]), NEW m, m = names[i][x]
          PROVE  /\ x <= next'[i] => AsFound(i, m, kept[i][m])'
                 /\ x > next'[i] => AsFound(i, m, data[m])'
      <4>1. /\ x < next[i] => AsFound(i, m, kept[i][m])
            /\ x >= next[i] => AsFound(i, m, data[m])
        BY <1>1, <1>2, <1>3, <3>2 DEF Publishing
      <4>2. x <= next'[i] <=> x < next[i]
        BY <1>2, <1>3, <2>2
      <4> QED
        BY <1>1, <1>2, <1>3, <1>6, <2>2, <4>1, <4>2 DEF AsFound
    <3>3. names[i] = Always => AsFound(i, "template", data["template"])'
      BY <1>1, <1>6 DEF Publishing, AsFound
    <3> QED
      BY <1>1, <3>1, <3>2, <3>3 DEF Undoing
  <2>4. Ensures(i)'
    BY <2>1, <2>3 DEF Ensures
  <2> QED
    BY <1>1, <1>6, <2>1, <2>2, <2>4, PublishStep DEF InstallTypes, Holding
<1> QED
  BY <1>5, <1>6 DEF BackUp, n

LEMMA NamesToPublish ==
    ASSUME InstallInv, NEW i \in Installers
    PROVE  /\ Len(names[i]) \in {4, 5} /\ \A x \in 1 .. Len(names[i]) : names[i][x] \in Assets
           /\ \A x, y \in 1 .. Len(names[i]) : names[i][x] = names[i][y] => x = y
           /\ \A m \in Assets \ {"template"} : \E x \in 1 .. Len(names[i]) : names[i][x] = m
           /\ names[i] = Always => \A x \in 1 .. Len(names[i]) : names[i][x] # "template"
           /\ names[i] # Always => \E x \in 1 .. Len(names[i]) : names[i][x] = "template"
<1>1. names[i] \in {Always, WithTemplate}
  BY DEF InstallInv, InstallTypes
<1> QED
  BY ONLY <1>1, PublishedNames

LEMMA PublishKeepsInv == ASSUME InstallInv, NEW i \in Installers, PublishAsset(i) PROVE InstallInv'
<1> USE DEF InstallInv
<1> DEFINE n == Name(i)
<1>1. /\ standing[i] = "publish" /\ Publishing(i) /\ names'[i] = names[i] /\ found' = found
      /\ AssetsOf(Build(i))' = AssetsOf(Build(i)) /\ Build(i)' = Build(i) /\ Build(i) \in Builds
  BY PublishFrame DEF PublishAsset, AssetsOnTheWay, Ensures, given, Build
<1>2. /\ Len(names[i]) \in {4, 5} /\ \A x \in 1 .. Len(names[i]) : names[i][x] \in Assets
      /\ \A x, y \in 1 .. Len(names[i]) : names[i][x] = names[i][y] => x = y
      /\ \A m \in Assets \ {"template"} : \E x \in 1 .. Len(names[i]) : names[i][x] = m
      /\ names[i] = Always => \A x \in 1 .. Len(names[i]) : names[i][x] # "template"
      /\ names[i] # Always => \E x \in 1 .. Len(names[i]) : names[i][x] = "template"
  BY NamesToPublish
<1>3. next[i] \in 1 .. Len(names[i]) /\ n \in Assets /\ n = names[i][next[i]] /\ ending[i] = "none"
  BY <1>1, <1>2 DEF Publishing, Name
<1>4. data \in [Assets -> Builds \cup {None, Custom}] /\ stock \in [Installers -> [Assets -> Builds \cup {None, Custom}]]
  BY DEF InstallTypes, AssetFiles
<1> HIDE DEF n
<1>5. CASE /\ data' = [data EXCEPT ![n] = stock[i][n]]
           /\ stock' = [stock EXCEPT ![i][n] = None]
           /\ IF next[i] < Len(names[i])
                THEN /\ Does(i, "backup") /\ next' = [next EXCEPT ![i] = @ + 1]
                     /\ UNCHANGED <<kept, ending>>
                ELSE /\ Finds(i, "extracted") /\ kept' = [kept EXCEPT ![i] = Nowhere]
                     /\ UNCHANGED next
  <2>1. data' \in AssetFiles /\ stock' \in [Installers -> AssetFiles]
    BY <1>3, <1>4, <1>5 DEF AssetFiles
  <2>2. /\ data'[n] = stock[i][n]
        /\ \A m \in Assets : m # n => stock'[i][m] = stock[i][m] /\ data'[m] = data[m]
    BY <1>3, <1>4, <1>5
  <2>3. ASSUME NEW x \in 1 .. Len(names[i]), NEW m, m = names[i][x]
        PROVE  /\ x <= next[i] => AsBuilt(i, m, data[m])' /\ AsFound(i, m, kept[i][m])
               /\ x > next[i] => AsFound(i, m, data[m])' /\ stock'[i][m] = AssetsOf(Build(i))[m]
    <3>1. /\ x < next[i] => AsBuilt(i, m, data[m]) /\ AsFound(i, m, kept[i][m])
          /\ x = next[i] => AsFound(i, m, kept[i][m])
          /\ x > next[i] => AsFound(i, m, data[m])
          /\ x >= next[i] => stock[i][m] = AssetsOf(Build(i))[m]
      BY <1>1, <2>3 DEF Publishing
    <3>2. m \in Assets /\ (m = n <=> x = next[i])
      BY <1>2, <1>3, <2>3
    <3> QED
      BY <1>1, <1>2, <1>3, <2>2, <3>1, <3>2 DEF AsBuilt, AsFound
  <2>4. names[i] = Always => data'["template"] # None /\ AsFound(i, "template", data["template"])'
    <3>1. names[i] = Always => n # "template" /\ data["template"] # None /\ AsFound(i, "template", data["template"])
      BY <1>1, <1>2, <1>3 DEF Publishing
    <3>2. "template" \in Assets
      BY DEF Assets
    <3> QED
      BY <1>1, <2>2, <3>1, <3>2 DEF AsFound
  <2>5. CASE next[i] < Len(names[i]) /\ Does(i, "backup") /\ next' = [next EXCEPT ![i] = @ + 1] /\ UNCHANGED <<kept, ending>>
    <3>1. standing' = [standing EXCEPT ![i] = "backup"] /\ standing'[i] = "backup" /\ ending' = ending /\ kept' = kept
      BY <2>5 DEF Does, InstallTypes
    <3>2. next' \in [Installers -> 0 .. 5] /\ next'[i] = next[i] + 1 /\ next'[i] \in 1 .. Len(names[i])
      BY <1>2, <1>3, <2>5 DEF InstallTypes
    <3>3. \A x \in 1 .. Len(names[i]) : (x < next'[i] <=> x <= next[i]) /\ (x >= next'[i] <=> x > next[i])
      BY <1>2, <1>3, <3>2
    <3>4. ASSUME NEW x \in 1 .. Len(names[i]), NEW m, m = names[i][x]
          PROVE  /\ x < next'[i] => AsBuilt(i, m, data[m])' /\ AsFound(i, m, kept[i][m])'
                 /\ x = next'[i] => AsFound(i, m, data[m])'
                 /\ x > next'[i] => AsFound(i, m, data[m])'
                 /\ x >= next'[i] => stock'[i][m] = AssetsOf(Build(i))[m]
      <4>1. x = next'[i] \/ x > next'[i] => x > next[i]
        BY <1>2, <1>3, <3>2
      <4>2. AsFound(i, m, kept[i][m])' <=> AsFound(i, m, kept[i][m])
        BY <1>1, <3>1 DEF AsFound
      <4> QED
        BY <2>3, <3>3, <3>4, <4>1, <4>2
    <3>5. Publishing(i)'
      BY <1>1, <1>3, <2>4, <3>1, <3>2, <3>4 DEF Publishing
    <3>6. Ensures(i)'
      BY <3>1, <3>5 DEF Ensures
    <3> QED
      BY <2>1, <3>1, <3>2, <3>6, PublishStep DEF InstallTypes, Holding
  <2>6. CASE next[i] = Len(names[i]) /\ Finds(i, "extracted") /\ kept' = [kept EXCEPT ![i] = Nowhere] /\ UNCHANGED next
    <3>1. /\ standing' = [standing EXCEPT ![i] = "release"] /\ standing'[i] = "release"
          /\ ending' = [ending EXCEPT ![i] = "extracted"] /\ ending'[i] = "extracted"
      BY <2>6 DEF Finds, Does, InstallTypes
    <3>2. kept' \in [Installers -> AssetFiles]
      BY <2>6 DEF InstallTypes, AssetFiles, Nowhere
    <3>3. \A x \in 1 .. Len(names[i]) : AsBuilt(i, names[i][x], data'[names[i][x]])
      <4>1. \A x \in 1 .. Len(names[i]) : AsBuilt(i, names[i][x], data[names[i][x]])'
        <5>1. \A x \in 1 .. Len(names[i]) : x <= next[i]
          BY <1>2, <2>6
        <5> QED
          BY <1>1, <2>3, <5>1
      <4> QED
        BY <1>1, <4>1 DEF AsBuilt
    <3>4. \A m \in Assets : m # "template" => data'[m] = AssetsOf(Build(i))[m]
      BY <1>2, <3>3 DEF AsBuilt
    <3>5. data'["template"] # None
      <4>1. CASE names[i] = Always
        BY <2>4, <4>1
      <4>2. CASE names[i] # Always
        <5>1. AsBuilt(i, "template", data'["template"])
          BY <1>2, <3>3, <4>2
        <5> QED
          BY <1>1, <5>1, AssetsOfABuild, InstallationAssumption DEF AsBuilt, Assets
      <4> QED
        BY <4>1, <4>2
    <3>6. Released(i)'
      <4>1. data'["bridge"] = Build(i) /\ data'["stamp"] = Build(i) /\ data'["skills"] = Build(i)
        BY <3>4 DEF AssetsOf, Assets
      <4> QED
        BY <1>1, <3>1, <3>5, <4>1, InstallationAssumption DEF Released
    <3>7. Ensures(i)'
      BY <3>1, <3>6 DEF Ensures
    <3> QED
      BY <2>1, <2>6, <3>1, <3>2, <3>7, PublishStep DEF InstallTypes, Holding
  <2> QED
    <3>1. next[i] < Len(names[i]) \/ next[i] = Len(names[i])
      BY <1>2, <1>3
    <3> QED
      BY <1>5, <2>5, <2>6, <3>1
<1>6. CASE Does(i, "undo") /\ UNCHANGED <<data, stock, kept, next, ending>>
  <2>1. standing' = [standing EXCEPT ![i] = "undo"] /\ standing'[i] = "undo"
    BY <1>6 DEF Does, InstallTypes
  <2>2. Undoing(i)'
    <3>1. ASSUME NEW x \in 1 .. Len(names[i]), NEW m, m = names[i][x]
          PROVE  /\ x <= next[i] => AsFound(i, m, kept[i][m])'
                 /\ x > next[i] => AsFound(i, m, data[m])'
      <4>1. /\ x < next[i] => AsFound(i, m, kept[i][m])
            /\ x = next[i] => AsFound(i, m, kept[i][m])
            /\ x > next[i] => AsFound(i, m, data[m])
        BY <1>1, <3>1 DEF Publishing
      <4>2. x <= next[i] <=> x < next[i] \/ x = next[i]
        BY <1>2, <1>3
      <4> QED
        BY <1>1, <1>6, <4>1, <4>2 DEF AsFound
    <3>2. names[i] = Always => AsFound(i, "template", data["template"])'
      BY <1>1, <1>6 DEF Publishing, AsFound
    <3>3. next'[i] \in 0 .. Len(names[i]) /\ ending'[i] = "none"
      BY <1>2, <1>3, <1>6
    <3> QED
      BY <1>1, <1>6, <3>1, <3>2, <3>3 DEF Undoing
  <2>3. Ensures(i)'
    BY <2>1, <2>2 DEF Ensures
  <2> QED
    BY <1>6, <2>1, <2>3, PublishStep DEF InstallTypes, Holding
<1> QED
  BY <1>5, <1>6, <1>3 DEF PublishAsset, n

LEMMA UndoKeepsInv == ASSUME InstallInv, NEW i \in Installers, UndoOne(i) \/ UndoEnds(i) PROVE InstallInv'
<1> USE DEF InstallInv
<1>1. /\ standing[i] = "undo" /\ Undoing(i) /\ names'[i] = names[i] /\ found' = found
  BY PublishFrame DEF UndoOne, UndoEnds, AssetsOnTheWay, Ensures
<1>2. /\ Len(names[i]) \in {4, 5} /\ \A x \in 1 .. Len(names[i]) : names[i][x] \in Assets
      /\ \A x, y \in 1 .. Len(names[i]) : names[i][x] = names[i][y] => x = y
      /\ \A m \in Assets \ {"template"} : \E x \in 1 .. Len(names[i]) : names[i][x] = m
      /\ names[i] = Always => \A x \in 1 .. Len(names[i]) : names[i][x] # "template"
      /\ names[i] # Always => \E x \in 1 .. Len(names[i]) : names[i][x] = "template"
  BY NamesToPublish
<1>3. next[i] \in 0 .. Len(names[i]) /\ ending[i] \in {"none", "incomplete"}
  BY <1>1 DEF Undoing
<1>4. CASE UndoOne(i)
  <2> DEFINE n == Name(i)
  <2>1. next[i] > 0 /\ next[i] \in 1 .. Len(names[i]) /\ n \in Assets /\ n = names[i][next[i]]
    <3>1. next[i] > 0
      BY <1>4 DEF UndoOne
    <3> QED
      BY <1>2, <1>3, <3>1 DEF Name
  <2>2. /\ standing' = [standing EXCEPT ![i] = "undo"] /\ standing'[i] = "undo"
        /\ next' \in [Installers -> 0 .. 5] /\ next'[i] = next[i] - 1
    BY <1>1, <1>2, <1>4, <2>1 DEF UndoOne, InstallTypes
  <2>3. /\ data \in [Assets -> Builds \cup {None, Custom}] /\ stock \in [Installers -> [Assets -> Builds \cup {None, Custom}]]
        /\ kept \in [Installers -> [Assets -> Builds \cup {None, Custom}]]
    BY DEF InstallTypes, AssetFiles
  <2> HIDE DEF n
  <2>4. \A x \in 1 .. Len(names[i]) : (x <= next'[i] <=> x < next[i]) /\ (x > next'[i] <=> x >= next[i])
    BY <1>2, <2>1, <2>2
  <2>5. next'[i] \in 0 .. Len(names[i])
    BY <1>2, <2>1, <2>2
  <2>6. CASE /\ stock' = [stock EXCEPT ![i][n] = IF data[n] = None THEN @ ELSE data[n]]
             /\ data' = [data EXCEPT ![n] = kept[i][n]]
             /\ kept' = [kept EXCEPT ![i][n] = None]
             /\ UNCHANGED <<ending, mishaps>>
    <3>1. data' \in AssetFiles /\ stock' \in [Installers -> AssetFiles] /\ kept' \in [Installers -> AssetFiles]
      BY <2>1, <2>3, <2>6 DEF AssetFiles
    <3>2. /\ data'[n] = kept[i][n]
          /\ \A m \in Assets : m # n => kept'[i][m] = kept[i][m] /\ data'[m] = data[m]
      BY <2>1, <2>3, <2>6
    <3>3. ASSUME NEW x \in 1 .. Len(names[i]), NEW m, m = names[i][x]
          PROVE  /\ x <= next'[i] => AsFound(i, m, kept[i][m])'
                 /\ x > next'[i] /\ ending'[i] = "none" => AsFound(i, m, data[m])'
      <4>1. /\ x <= next[i] => AsFound(i, m, kept[i][m])
            /\ x > next[i] /\ ending[i] = "none" => AsFound(i, m, data[m])
        BY <1>1, <3>3 DEF Undoing
      <4>2. m \in Assets /\ (m = n <=> x = next[i])
        BY <1>2, <2>1, <3>3
      <4>3. x < next[i] \/ x = next[i] \/ x > next[i]
        BY <1>2, <2>1
      <4>4. CASE x = next[i]
        BY <1>1, <1>2, <2>1, <2>4, <3>2, <4>1, <4>2, <4>4 DEF AsFound
      <4>5. CASE x < next[i]
        BY <1>1, <1>2, <2>1, <2>4, <3>2, <4>1, <4>2, <4>5 DEF AsFound
      <4>6. CASE x > next[i]
        BY <1>1, <1>2, <2>1, <2>4, <2>6, <3>2, <4>1, <4>2, <4>6 DEF AsFound
      <4> QED
        BY <4>3, <4>4, <4>5, <4>6
    <3>4. names[i] = Always => AsFound(i, "template", data["template"])'
      <4>1. names[i] = Always => n # "template" /\ AsFound(i, "template", data["template"])
        BY <1>1, <1>2, <2>1 DEF Undoing
      <4> QED
        BY <1>1, <3>2, <4>1 DEF AsFound, Assets
    <3>5. Undoing(i)'
      BY <1>1, <1>3, <2>5, <2>6, <3>3, <3>4 DEF Undoing
    <3>6. Ensures(i)'
      BY <2>2, <3>5 DEF Ensures
    <3> QED
      BY <1>4, <2>2, <2>6, <3>1, <3>6, PublishStep DEF InstallTypes, Holding
  <2>7. CASE ending' = [ending EXCEPT ![i] = "incomplete"] /\ UNCHANGED <<data, stock, kept>>
    <3>1. ending'[i] = "incomplete" /\ \A j \in Installers : j # i => ending'[j] = ending[j]
      BY <2>7 DEF InstallTypes
    <3>2. ASSUME NEW x \in 1 .. Len(names[i]), NEW m, m = names[i][x]
          PROVE  x <= next'[i] => AsFound(i, m, kept[i][m])'
      <4>1. x <= next[i] => AsFound(i, m, kept[i][m])
        BY <1>1, <3>2 DEF Undoing
      <4>2. x <= next'[i] => x <= next[i]
        BY <1>2, <2>1, <2>2
      <4> QED
        BY <1>1, <2>7, <4>1, <4>2 DEF AsFound
    <3>3. names[i] = Always => AsFound(i, "template", data["template"])'
      BY <1>1, <2>7 DEF Undoing, AsFound
    <3>4. Undoing(i)'
      BY <1>1, <2>5, <3>1, <3>2, <3>3 DEF Undoing
    <3>5. Ensures(i)'
      BY <2>2, <3>4 DEF Ensures
    <3> QED
      BY <1>4, <2>2, <2>7, <3>1, <3>5, PublishStep DEF InstallTypes, Holding
  <2>8. CASE /\ ending' = [ending EXCEPT ![i] = "incomplete"] /\ UNCHANGED kept
             /\ stock' = [stock EXCEPT ![i][n] = data[n]]
             /\ data' = [data EXCEPT ![n] = None]
    <3>1. ending'[i] = "incomplete" /\ \A j \in Installers : j # i => ending'[j] = ending[j]
      BY <2>8 DEF InstallTypes
    <3>2. data' \in AssetFiles /\ stock' \in [Installers -> AssetFiles]
      BY <2>1, <2>3, <2>8 DEF AssetFiles
    <3>3. ASSUME NEW x \in 1 .. Len(names[i]), NEW m, m = names[i][x]
          PROVE  x <= next'[i] => AsFound(i, m, kept[i][m])'
      <4>1. x <= next[i] => AsFound(i, m, kept[i][m])
        BY <1>1, <3>3 DEF Undoing
      <4>2. x <= next'[i] => x <= next[i]
        BY <1>2, <2>1, <2>2
      <4> QED
        BY <1>1, <2>8, <4>1, <4>2 DEF AsFound
    <3>4. names[i] = Always => AsFound(i, "template", data["template"])'
      <4>1. names[i] = Always => n # "template" /\ AsFound(i, "template", data["template"])
        BY <1>1, <1>2, <2>1 DEF Undoing
      <4>2. n # "template" => data'["template"] = data["template"]
        BY <2>3, <2>8 DEF Assets
      <4> QED
        BY <1>1, <4>1, <4>2 DEF AsFound
    <3>5. Undoing(i)'
      BY <1>1, <2>5, <3>1, <3>3, <3>4 DEF Undoing
    <3>6. Ensures(i)'
      BY <2>2, <3>5 DEF Ensures
    <3> QED
      BY <1>4, <2>2, <2>8, <3>1, <3>2, <3>6, PublishStep DEF InstallTypes, Holding
  <2> QED
    BY <1>4, <2>6, <2>7, <2>8 DEF UndoOne, n
<1>5. CASE UndoEnds(i)
  <2> DEFINE v == IF ending[i] = "incomplete" THEN "incomplete" ELSE "restored"
  <2>1. /\ standing' = [standing EXCEPT ![i] = "release"] /\ standing'[i] = "release"
        /\ ending' = [ending EXCEPT ![i] = v] /\ ending'[i] = v
        /\ next[i] = 0 /\ UNCHANGED <<data, next, stock, kept>>
    BY <1>5 DEF UndoEnds, Finds, Does, InstallTypes
  <2>2. ending[i] = "none" => \A m \in Assets : AsFound(i, m, data[m])'
    <3>1. ending[i] = "none" => \A x \in 1 .. Len(names[i]) : AsFound(i, names[i][x], data[names[i][x]])
      BY <1>1, <1>2, <2>1 DEF Undoing
    <3>2. ending[i] = "none" => AsFound(i, "template", data["template"])
      BY <1>1, <1>2, <3>1 DEF Undoing
    <3>3. ending[i] = "none" => \A m \in Assets : AsFound(i, m, data[m])
      BY <1>2, <3>1, <3>2
    <3> QED
      BY <1>1, <2>1, <3>3 DEF AsFound
  <2>3. Released(i)'
    BY <1>3, <2>1, <2>2 DEF Released
  <2>4. Ensures(i)'
    BY <2>1, <2>3 DEF Ensures
  <2> QED
    BY <1>5, <2>1, <2>4, PublishStep DEF InstallTypes, Holding
<1> QED
  BY <1>4, <1>5

LEMMA ReleaseKeepsAssets == ASSUME InstallInv, NEW i \in Installers, ReleaseInstallLock(i) PROVE InstallInv'
<1> USE InstallationAssumption DEF InstallInv
<1> DEFINE goesOn == ending[i] \in {"current", "extracted"} /\ command[i].binary
           to == CASE goesOn /\ command[i].inPlace -> "verify"
                   [] goesOn /\ ~command[i].inPlace -> "sweep"
                   [] OTHER -> "end"
<1>1. /\ standing[i] = "release" /\ holder' = None /\ Does(i, to)
      /\ crowded' = (crowded \/ (goesOn /\ \E j \in Installers : standing[j] \in Replacing))
      /\ UNCHANGED <<given, data, names, next, stock, kept, found, ending, bin, olds, mishaps, halts>>
  BY DEF ReleaseInstallLock
<1>2. to \in {"verify", "sweep", "end"} /\ (to # "end" => goesOn)
  <2>1. CASE goesOn /\ command[i].inPlace
    BY <2>1
  <2>2. CASE goesOn /\ ~command[i].inPlace
    BY <2>2
  <2>3. CASE ~goesOn
    BY <2>3
  <2> QED
    BY <2>1, <2>2, <2>3
<1> HIDE DEF to, goesOn
<1>3. /\ standing'[i] = to /\ \A j \in Installers : j # i => standing'[j] = standing[j]
      /\ standing' \in [Installers -> Ensuring \cup Replacing \cup {"end", "dead"}]
  BY <1>1, <1>2 DEF Does, InstallTypes, Replacing
<1>4. holder = i
  BY <1>1 DEF LockIsHeld, Holding
<1>5. crowded' \in BOOLEAN
  BY <1>1
<1>6. InstallTypes'
  BY <1>1, <1>3 DEF InstallTypes, given
<1>7. LockIsHeld'
  BY <1>1, <1>2, <1>3, <1>4 DEF LockIsHeld, Holding
<1>8. AssetsOnTheWay'
  <2>1. Ensures(i)'
    BY <1>2, <1>3 DEF Ensures
  <2>2. \A j \in Installers : j # i => standing'[j] = standing[j] /\ ending'[j] = ending[j]
    BY <1>1, <1>3
  <2> QED
    BY <1>4, <2>1, <2>2, OnlyTheHolder
<1>9. BinaryOnTheWay'
  <2>1. crowded => crowded'
    BY <1>1
  <2>2. ~crowded' => (to # "end" => \A j \in Installers : standing[j] \notin Replacing)
    BY <1>1, <1>2
  <2>3. ~crowded' => \A j, k \in Installers : standing'[j] \in Replacing /\ standing'[k] \in Replacing => j = k
    <3>1. "end" \notin Replacing
      BY DEF Replacing
    <3> QED
      BY <1>3, <2>1, <2>2, <3>1 DEF BinaryOnTheWay
  <2>4. ASSUME shipped' # None, mishaps' < 2, halts' = 0, ~crowded', bin' = None
        PROVE  \E j \in Installers : /\ standing'[j] = "swap" \/ (standing'[j] = "putBack" /\ mishaps' > 0)
                                     /\ \E o \in olds' : o[1] = j
    <3>1. PICK j \in Installers : /\ standing[j] = "swap" \/ (standing[j] = "putBack" /\ mishaps > 0)
                                  /\ \E o \in olds : o[1] = j
      BY <1>1, <2>1, <2>4 DEF BinaryOnTheWay, given
    <3>2. j # i
      BY <1>1, <3>1
    <3> QED
      BY <1>1, <1>3, <3>1, <3>2
  <2> QED
    BY <2>3, <2>4 DEF BinaryOnTheWay
<1> QED
  BY <1>5, <1>6, <1>7, <1>8, <1>9

\* The steps around the binary touch no asset.
BinaryStep(i) ==
    \/ Sweep(i) \/ CopyToStage(i) \/ MoveAside(i) \/ SwapIn(i) \/ PutBack(i)
    \/ SwapOver(i) \/ Tidy(i) \/ VerifyVersion(i)

LEMMA BinaryStepKeepsInv == ASSUME InstallInv, NEW i \in Installers, BinaryStep(i) PROVE InstallInv'
<1> USE InstallationAssumption DEF InstallInv
<1>1. /\ UNCHANGED <<assetVars, crowded, halts>> /\ (Mishap \/ UNCHANGED mishaps)
      /\ standing[i] \in Replacing
      /\ \E to \in Replacing \cup {"end"} : standing' = [standing EXCEPT ![i] = to]
  <2>1. CASE Sweep(i) \/ CopyToStage(i) \/ MoveAside(i)
    BY <2>1 DEF Sweep, CopyToStage, MoveAside, Does, Replacing, binaryVars
  <2>2. CASE SwapIn(i) \/ SwapOver(i)
    BY <2>2 DEF SwapIn, SwapOver, Does, Replacing, binaryVars
  <2>3. CASE PutBack(i)
    BY <2>3 DEF PutBack, Does, Replacing, binaryVars
  <2>4. CASE Tidy(i) \/ VerifyVersion(i)
    BY <2>4 DEF Tidy, VerifyVersion, Does, Replacing, binaryVars
  <2> QED
    BY <2>1, <2>2, <2>3, <2>4 DEF BinaryStep
<1>2. PICK to \in Replacing \cup {"end"} : standing' = [standing EXCEPT ![i] = to]
  BY <1>1
<1>3. /\ standing'[i] = to /\ to \notin Holding /\ standing[i] \notin Holding
      /\ \A j \in Installers : j # i => standing'[j] = standing[j]
      /\ standing' \in [Installers -> Ensuring \cup Replacing \cup {"end", "dead"}]
  BY <1>1, <1>2 DEF InstallTypes, Replacing, Holding
<1>4. mishaps' \in 0 .. MaxMishaps /\ mishaps <= mishaps' /\ mishaps' \in Nat /\ mishaps \in Nat
  BY <1>1, MishapCounts DEF InstallTypes
<1>5. bin' \in Builds \cup {None} /\ olds' \subseteq Installers \X Builds
  <2>1. CASE Sweep(i) \/ CopyToStage(i) \/ Tidy(i) \/ VerifyVersion(i)
    BY <2>1 DEF Sweep, CopyToStage, Tidy, VerifyVersion, binaryVars, InstallTypes
  <2>2. CASE MoveAside(i)
    BY <2>2 DEF MoveAside, InstallTypes
  <2>3. CASE SwapIn(i) \/ SwapOver(i)
    BY <2>3, CommandsOfProcesses DEF SwapIn, SwapOver, InstallTypes
  <2>4. CASE PutBack(i)
    <3> DEFINE aside == {o \in olds : o[1] = i}
    <3>1. aside # {} => (CHOOSE o \in aside : TRUE) \in aside
      OBVIOUS
    <3>2. \A o \in aside : o[2] \in Builds
      BY DEF InstallTypes
    <3>3. \/ aside # {} /\ bin' = (CHOOSE o \in aside : TRUE)[2] /\ olds' = olds \ aside
          \/ UNCHANGED <<bin, olds>>
      BY <2>4 DEF PutBack
    <3> HIDE DEF aside
    <3> QED
      BY <3>1, <3>2, <3>3 DEF InstallTypes
  <2> QED
    BY <2>1, <2>2, <2>3, <2>4 DEF BinaryStep
<1>6. crowded' \in BOOLEAN
  BY <1>1
<1>7. InstallTypes'
  BY <1>1, <1>3, <1>4, <1>5 DEF InstallTypes, assetVars, given
<1>8. LockIsHeld'
  BY <1>1, <1>3 DEF LockIsHeld, assetVars
<1>9. AssetsOnTheWay'
  <2>1. ASSUME NEW j \in Installers PROVE Ensures(j)'
    <3>1. CASE j = i
      BY <1>3, <3>1 DEF Ensures, Holding, Replacing
    <3>2. CASE j # i
      <4>1. Ensures(j) /\ standing'[j] = standing[j]
        BY <1>3, <3>2 DEF AssetsOnTheWay
      <4>2. UNCHANGED <<data, names, next, stock, kept, found, ending, command>>
        BY <1>1 DEF assetVars, given
      <4>3. Publishing(j) <=> Publishing(j)'
        BY <4>1, <4>2 DEF Publishing, AsFound, AsBuilt, AssetsOf, Build
      <4>4. Undoing(j) <=> Undoing(j)'
        BY <4>1, <4>2 DEF Undoing, AsFound
      <4>5. Released(j) <=> Released(j)'
        BY <4>1, <4>2 DEF Released, AsFound, Build
      <4> QED
        BY <4>1, <4>2, <4>3, <4>4, <4>5 DEF Ensures, AsFound
    <3> QED
      BY <3>1, <3>2
  <2> QED
    BY <2>1 DEF AssetsOnTheWay
<1>10. BinaryOnTheWay'
  <2>1. ~crowded' => \A j, k \in Installers : standing'[j] \in Replacing /\ standing'[k] \in Replacing => j = k
    BY <1>1, <1>3 DEF BinaryOnTheWay
  <2>2. ASSUME shipped' # None, mishaps' < 2, halts' = 0, ~crowded', bin' = None
        PROVE  \E j \in Installers : /\ standing'[j] = "swap" \/ (standing'[j] = "putBack" /\ mishaps' > 0)
                                     /\ \E o \in olds' : o[1] = j
    <3>1. shipped # None /\ mishaps < 2 /\ halts = 0 /\ ~crowded
      BY <1>1, <1>4, <2>2 DEF assetVars, given
    <3>2. \A j \in Installers : standing[j] \in Replacing => j = i
      BY <1>1, <3>1 DEF BinaryOnTheWay
    <3>3. bin = None => /\ standing[i] = "swap" \/ (standing[i] = "putBack" /\ mishaps > 0)
                        /\ \E o \in olds : o[1] = i
      BY <3>1, <3>2 DEF BinaryOnTheWay, Replacing
    <3>4. CASE Sweep(i) \/ CopyToStage(i) \/ Tidy(i) \/ VerifyVersion(i)
      BY <2>2, <3>3, <3>4 DEF Sweep, CopyToStage, Tidy, VerifyVersion, binaryVars
    <3>5. CASE MoveAside(i)
      <4>1. /\ bin # None /\ olds' = olds \cup {<<i, bin>>} /\ Does(i, "swap")
        BY <2>2, <3>3, <3>5 DEF MoveAside
      <4>2. standing'[i] = "swap" /\ <<i, bin>> \in olds' /\ <<i, bin>>[1] = i
        BY <4>1 DEF Does, InstallTypes
      <4> QED
        BY <4>2
    <3>6. CASE SwapIn(i)
      <4>1. Build(i) # None
        BY CommandsOfProcesses
      <4>2. Mishap /\ Does(i, "putBack") /\ UNCHANGED <<bin, olds>>
        BY <2>2, <3>6, <4>1 DEF SwapIn
      <4>3. standing'[i] = "putBack" /\ mishaps' > 0
        BY <1>4, <4>2 DEF Does, InstallTypes, Mishap
      <4> QED
        BY <2>2, <3>3, <4>2, <4>3
    <3>7. CASE PutBack(i)
      <4> DEFINE aside == {o \in olds : o[1] = i}
      <4>1. standing[i] = "putBack"
        BY <3>7 DEF PutBack
      <4>2. \/ aside # {} /\ bin' = (CHOOSE o \in aside : TRUE)[2]
            \/ aside # {} /\ Mishap /\ bin' = bin
            \/ aside = {} /\ bin' = bin
        BY <3>7 DEF PutBack
      <4>3. aside # {} => (CHOOSE o \in aside : TRUE) \in aside
        OBVIOUS
      <4>4. \A o \in aside : o[2] \in Builds
        BY DEF InstallTypes
      <4>5. bin' = bin => aside # {} /\ mishaps > 0
        BY <2>2, <3>3, <4>1
      <4> HIDE DEF aside
      <4>6. aside # {} => bin' = bin
        BY <2>2, <4>2, <4>3, <4>4
      <4>7. Mishap /\ mishaps > 0
        BY <2>2, <4>2, <4>3, <4>4, <4>5
      <4> QED
        BY <1>4, <2>2, <4>7 DEF Mishap
    <3>8. CASE SwapOver(i)
      <4>1. standing[i] = "swapOver" /\ (bin' = Build(i) \/ bin' = bin)
        BY <3>8 DEF SwapOver
      <4> QED
        BY <2>2, <3>3, <4>1, CommandsOfProcesses
    <3> QED
      BY <3>4, <3>5, <3>6, <3>7, <3>8 DEF BinaryStep
  <2> QED
    BY <2>1, <2>2 DEF BinaryOnTheWay
<1> QED
  BY <1>6, <1>7, <1>8, <1>9, <1>10

LEMMA HaltKeepsInv == ASSUME InstallInv, NEW i \in Installers, Halt(i) PROVE InstallInv'
<1> USE InstallationAssumption DEF InstallInv
<1>1. /\ UNCHANGED <<given, data, names, next, stock, kept, found, ending, binaryVars, mishaps>>
      /\ standing[i] # "lock" /\ standing'[i] = "dead"
      /\ \A j \in Installers : j # i => standing'[j] = standing[j]
      /\ standing' \in [Installers -> Ensuring \cup Replacing \cup {"end", "dead"}]
      /\ halts' = halts + 1 /\ halts < MaxHalts
      /\ holder' = IF holder = i THEN None ELSE holder
  BY DEF Halt, Does, InstallTypes
<1>2. halts' \in 0 .. MaxHalts /\ halts' # 0
  BY <1>1 DEF InstallTypes
<1>3. crowded' \in BOOLEAN
  BY <1>1 DEF binaryVars
<1>4. InstallTypes'
  BY <1>1, <1>2 DEF InstallTypes, given, binaryVars
<1>5. LockIsHeld'
  <2>1. standing'[i] \notin Holding
    BY <1>1 DEF Holding
  <2> QED
    BY <1>1, <2>1 DEF LockIsHeld
<1>6. AssetsOnTheWay'
  <2>1. ASSUME NEW j \in Installers PROVE Ensures(j)'
    <3>1. CASE j = i
      BY <1>1, <3>1 DEF Ensures
    <3>2. CASE j # i
      <4>1. Ensures(j) /\ standing'[j] = standing[j]
        BY <1>1, <3>2 DEF AssetsOnTheWay
      <4>2. UNCHANGED <<data, names, next, stock, kept, found, ending, command>>
        BY <1>1 DEF given
      <4>3. Publishing(j) <=> Publishing(j)'
        BY <4>1, <4>2 DEF Publishing, AsFound, AsBuilt, AssetsOf, Build
      <4>4. Undoing(j) <=> Undoing(j)'
        BY <4>1, <4>2 DEF Undoing, AsFound
      <4>5. Released(j) <=> Released(j)'
        BY <4>1, <4>2 DEF Released, AsFound, Build
      <4> QED
        BY <4>1, <4>2, <4>3, <4>4, <4>5 DEF Ensures, AsFound
    <3> QED
      BY <3>1, <3>2
  <2> QED
    BY <2>1 DEF AssetsOnTheWay
<1>7. BinaryOnTheWay'
  <2>1. ~crowded' => \A j, k \in Installers : standing'[j] \in Replacing /\ standing'[k] \in Replacing => j = k
    BY <1>1 DEF BinaryOnTheWay, binaryVars, Replacing
  <2> QED
    BY <1>2, <2>1 DEF BinaryOnTheWay
<1> QED
  BY <1>3, <1>4, <1>5, <1>6, <1>7

LEMMA UserSavesKeepsInv == ASSUME InstallInv, UserSavesTemplate PROVE InstallInv'
<1> USE InstallationAssumption DEF InstallInv
<1>1. /\ data' = [data EXCEPT !["template"] = Custom]
      /\ UNCHANGED <<given, holder, standing, names, next, stock, kept, found, ending, binaryVars, mishaps, halts>>
  BY DEF UserSavesTemplate
<1>2. data' \in AssetFiles /\ data'["template"] = Custom /\ \A m \in Assets : m # "template" => data'[m] = data[m]
  BY <1>1 DEF InstallTypes, AssetFiles, Assets
<1>3. crowded' \in BOOLEAN
  BY <1>1 DEF binaryVars
<1>4. InstallTypes'
  BY <1>1, <1>2 DEF InstallTypes, given, binaryVars
<1>5. LockIsHeld'
  BY <1>1 DEF LockIsHeld
<1>6. BinaryOnTheWay'
  <2>1. mishaps' \in Nat /\ halts' \in Nat /\ mishaps <= mishaps' /\ halts <= halts'
    BY <1>1 DEF InstallTypes
  <2> QED
    BY <1>1, <2>1, BinaryWaits DEF binaryVars, given
<1>7. AssetsOnTheWay'
  <2> SUFFICES ASSUME NEW j \in Installers PROVE Ensures(j)'
    BY DEF AssetsOnTheWay
  <2>1. \A m \in Assets : /\ AsFound(j, m, data[m]) => AsFound(j, m, data[m])'
                          /\ AsBuilt(j, m, data[m]) => AsBuilt(j, m, data[m])'
                          /\ AsFound(j, m, kept[j][m]) => AsFound(j, m, kept[j][m])'
    BY <1>1, <1>2 DEF AsFound, AsBuilt, AssetsOf, Build, given
  <2>2. \A x \in 1 .. Len(names[j]) : names[j][x] \in Assets
    BY NamesToPublish
  <2>3. Publishing(j) => Publishing(j)'
    BY <1>1, <1>2, <2>1, <2>2 DEF Publishing, AssetsOf, Build, given, Assets
  <2>4. Undoing(j) => Undoing(j)'
    BY <1>1, <1>2, <2>1, <2>2 DEF Undoing, Assets
  <2>5. Released(j) => Released(j)'
    BY <1>1, <1>2, <2>1 DEF Released, Build, given, Assets
  <2> QED
    BY <1>1, <2>1, <2>3, <2>4, <2>5 DEF Ensures, AssetsOnTheWay
<1> QED
  BY <1>3, <1>4, <1>5, <1>6, <1>7

LEMMA InstallStepInv == InstallInv /\ [InstallNext]_installVars => InstallInv'
<1> SUFFICES ASSUME InstallInv, [InstallNext]_installVars PROVE InstallInv'
  OBVIOUS
<1>1. CASE UNCHANGED installVars
  <2>1. crowded' \in BOOLEAN
    BY <1>1 DEF installVars, InstallInv
  <2>2. InstallTypes' /\ LockIsHeld'
    BY <1>1 DEF installVars, InstallInv, InstallTypes, LockIsHeld
  <2>3. AssetsOnTheWay'
    <3> SUFFICES ASSUME NEW j \in Installers PROVE Ensures(j)'
      BY DEF AssetsOnTheWay
    <3>1. Ensures(j)
      BY DEF InstallInv, AssetsOnTheWay
    <3>2. /\ Publishing(j) => Publishing(j)'
          /\ Undoing(j) => Undoing(j)'
          /\ Released(j) => Released(j)'
      <4>1. Publishing(j) => Publishing(j)'
        BY <1>1 DEF installVars, Publishing, AsFound, AsBuilt, AssetsOf, Build
      <4>2. Undoing(j) => Undoing(j)'
        BY <1>1 DEF installVars, Undoing, AsFound
      <4>3. Released(j) => Released(j)'
        BY <1>1 DEF installVars, Released, AsFound, AssetsOf, Build
      <4> QED
        BY <4>1, <4>2, <4>3
    <3> QED
      BY <1>1, <3>1, <3>2 DEF installVars, Ensures, AsFound
  <2>4. BinaryOnTheWay'
    BY <1>1 DEF installVars, InstallInv, BinaryOnTheWay
  <2> QED
    BY <2>1, <2>2, <2>3, <2>4 DEF InstallInv
<1> QED
  BY <1>1, LockStepKeepsInv, BackUpKeepsInv, PublishKeepsInv, UndoKeepsInv, ReleaseKeepsAssets,
     BinaryStepKeepsInv, HaltKeepsInv, UserSavesKeepsInv DEF InstallNext, BinaryStep

\* Whoever installs beside whom, and whatever dies: what ensure_installed says of the
\* assets is so when it returns, and without a crash or a second installer one failed
\* operation leaves a binary.
THEOREM InstallAlwaysKeepsItsWord == InstallSpec => []InstallKeepsItsWord
<1>1. ASSUME InstallInv PROVE InstallKeepsItsWord
  <2>1. InstallTypeOK
    BY <1>1 DEF InstallInv, InstallTypes, InstallTypeOK
  <2>2. EnsuredAssetsAreRight
    BY <1>1 DEF InstallInv, AssetsOnTheWay, Ensures, Released, AsFound, EnsuredAssetsAreRight
  <2>3. BinaryIsKept
    BY <1>1 DEF InstallInv, BinaryOnTheWay, BinaryIsKept
  <2> QED
    BY <2>1, <2>2, <2>3 DEF InstallKeepsItsWord
<1> QED
  BY <1>1, InstallInitInv, InstallStepInv, PTL DEF InstallSpec

-----------------------------------------------------------------------------
(* The bridge in a packed project.                                         *)

Projects == ProjectsOf(SUBSET Comps)

BridgeTypes ==
    /\ wanted \in Wanted
    /\ told \in [Installs -> Running \cup Answers]
    /\ second \in 0 .. MaxSecond /\ brokenEnds \in 0 .. MaxBroken
    /\ target \in Projects \cup {Broken}
    /\ copied \in [Installs -> Projects \cup {None}]
    /\ packed \in [Installs -> Projects \cup {None}]
    /\ backups \in [0 .. MaxSecond -> Projects \cup {None, Broken}]

\* What is published differs from the copy in the bridge alone.
PackedIsCopied(i) ==
    /\ packed[i].work = copied[i].work
    /\ TheBridge(packed[i]).dats = AllCurrent
    /\ packed[i].comps \ {TheBridge(packed[i])} = copied[i].comps \ Bridges(copied[i])

OnTheWay(i) ==
    /\ told[i] \notin {"start", "refused"} => copied[i] \in Projects
    /\ told[i] \in {"verified", "backedUp", "updated", "failed", "died"} =>
         packed[i] \in Projects /\ PackedIsCopied(i)

InABackup(i) == \E s \in 0 .. MaxSecond : backups[s] = copied[i]

\* As long as nobody else wrote, the copy is at the target or, once it is overwritten, in
\* the backup.
CopySurvives(i) ==
    wanted[i].backup /\ undisturbed[i] =>
      /\ told[i] \in {"staged", "verified", "current"} => target = copied[i]
      /\ told[i] \in {"backedUp", "updated", "died"} => InABackup(i)
      /\ told[i] = "failed" => target = copied[i] \/ InABackup(i)

BridgeInv ==
    /\ BridgeTypes /\ undisturbed \in [Installs -> BOOLEAN]
    /\ \A i \in Installs : OnTheWay(i) /\ CopySurvives(i)

LEMMA BridgeInitInv == BridgeInit => BridgeInv
<1> SUFFICES ASSUME BridgeInit PROVE BridgeInv
  OBVIOUS
<1>1. BridgeTypes
  <2>1. told \in [Installs -> Running \cup Answers]
    BY DEF BridgeInit, Running
  <2>2. copied \in [Installs -> Projects \cup {None}] /\ packed \in [Installs -> Projects \cup {None}]
    BY DEF BridgeInit
  <2>3. backups \in [0 .. MaxSecond -> Projects \cup {None, Broken}]
    BY DEF BridgeInit
  <2>4. wanted \in Wanted /\ target \in Projects
    BY BridgeInstallAssumption DEF BridgeInit, Projects
  <2>5. second \in 0 .. MaxSecond /\ brokenEnds \in 0 .. MaxBroken
    BY BridgeInstallAssumption DEF BridgeInit
  <2> QED
    BY <2>1, <2>2, <2>3, <2>4, <2>5 DEF BridgeTypes
<1>2. undisturbed \in [Installs -> BOOLEAN]
  BY DEF BridgeInit
<1>3. \A i \in Installs : OnTheWay(i) /\ CopySurvives(i)
  BY DEF BridgeInit, OnTheWay, CopySurvives
<1> QED
  BY <1>1, <1>2, <1>3 DEF BridgeInv

\* A bridge whose bodies are all current is complete, whatever it is called.
LEMMA CurrentIsComplete ==
    ASSUME NEW c \in Comps, c.node, c.dats = AllCurrent
    PROVE  Complete(c)
<1>1. \A d \in BridgeDats : c.dats[d] = "current"
  BY DEF AllCurrent
<1>2. Marked(c) = BridgeDats
  BY <1>1 DEF Marked
<1> QED
  BY <1>1, <1>2 DEF Complete

\* Rewriting the one bridge of a project, or the one that was put into it, leaves the rest.
LEMMA RewritingLeavesTheRest ==
    ASSUME NEW p \in Projects, ~Unsafe(p), NEW c \in Comps,
           Bridges(p) = {} => c = Donor,
           Bridges(p) # {} => c = TheBridge(p),
           NEW g, g = IF Bridges(p) = {} THEN [p EXCEPT !.comps = @ \cup {Donor}] ELSE p,
           NEW k, k = [c EXCEPT !.dats = AllCurrent]
    PROVE  /\ g \in Projects /\ Rewritten(g, c) \in Projects /\ k \in Comps /\ Complete(k)
           /\ Rewritten(g, c).work = p.work
           /\ Rewritten(g, c).comps \ {k} = p.comps \ Bridges(p)
<1>1. Donor \in Comps /\ Complete(Donor)
  BY DEF Donor, Comps, DatStates, Complete
<1>2. p.comps \subseteq Comps /\ p = [work |-> p.work, host |-> p.host, comps |-> p.comps]
  BY DEF Projects, ProjectsOf
<1>3. Complete(c)
  BY <1>1, <1>2 DEF Bridges, TheBridge
<1>4. k \in Comps /\ k.node /\ k.dats = AllCurrent
  BY <1>3 DEF Comps, AllCurrent, DatStates, Complete
<1>5. Complete(k)
  BY <1>4, CurrentIsComplete
<1>6. g \in Projects /\ g.work = p.work /\ g.comps = IF Bridges(p) = {} THEN p.comps \cup {Donor} ELSE p.comps
  BY <1>1 DEF Projects, ProjectsOf
<1>7. /\ Rewritten(g, c) \in Projects /\ Rewritten(g, c).work = p.work
      /\ Rewritten(g, c).comps = (g.comps \ {c}) \cup {k}
  BY <1>4, <1>6 DEF Rewritten, Projects, ProjectsOf
<1>8. (g.comps \ {c}) \ {k} = p.comps \ Bridges(p)
  <2>1. CASE Bridges(p) = {}
    <3>1. Donor \notin p.comps /\ k \notin p.comps
      BY <1>1, <1>5, <2>1 DEF Bridges
    <3> QED
      BY <1>6, <2>1, <3>1
  <2>2. CASE Bridges(p) # {}
    <3>1. c \in Bridges(p)
      BY <2>2 DEF Bridges, TheBridge
    <3>2. Bridges(p) = {c}
      BY <3>1 DEF Unsafe
    <3>3. k \in p.comps => k = c
      BY <1>5, <3>2 DEF Bridges
    <3> QED
      BY <1>6, <2>2, <3>2, <3>3
  <2> QED
    BY <2>1, <2>2
<1> QED
  BY <1>4, <1>5, <1>6, <1>7, <1>8

LEMMA CollapsedIsProject ==
    ASSUME NEW p \in Projects, NEW c \in Comps, NEW after \in Collapsed(p, c)
    PROVE  after \in Projects
<1>1. p.work \in 0 .. MaxWork /\ p.host \in BOOLEAN /\ p.comps \in SUBSET Comps /\ MaxWork \in Nat
  BY BridgeInstallAssumption DEF Projects, ProjectsOf
<1>2. \A w \in 0 .. p.work : w \in 0 .. MaxWork /\ [p EXCEPT !.work = w] \in Projects
  BY <1>1 DEF Projects, ProjectsOf
<1>3. \A cs \in SUBSET Comps : [p EXCEPT !.comps = cs] \in Projects
  BY DEF Projects, ProjectsOf
<1>4. \A d \in BridgeDats : [c EXCEPT !.dats[d] = "marked"] \in Comps
  BY DEF Comps, DatStates
<1>5. [c EXCEPT !.canonical = ~@] \in Comps
  BY DEF Comps
<1> QED
  BY <1>1, <1>2, <1>3, <1>4, <1>5 DEF Collapsed

LEMMA PrepareKeepsInv == ASSUME BridgeInv, NEW i \in Installs, Prepare(i) PROVE BridgeInv'
<1> USE DEF BridgeInv
<1> DEFINE p == copied[i]
           created == Bridges(p) = {}
           mended == IF created THEN Donor ELSE TheBridge(p)
           grown == IF created THEN [p EXCEPT !.comps = @ \cup {Donor}] ELSE p
           expected == Rewritten(grown, mended)
           kep == [mended EXCEPT !.dats = AllCurrent]
<1>1. /\ told[i] = "staged" /\ ~Unsafe(p)
      /\ UNCHANGED <<wanted, target, copied, backups, second, undisturbed, brokenEnds>>
      /\ \/ Answer(i, "current") /\ UNCHANGED packed
         \/ /\ \E after \in Collapsed(expected, kep) :
                 /\ Verified(expected, kep, after)
                 /\ packed' = [packed EXCEPT ![i] = after]
            /\ Answer(i, "verified")
  BY DEF Prepare
<1>2. undisturbed' \in [Installs -> BOOLEAN]
  BY <1>1
<1>3. p \in Projects
  BY <1>1 DEF OnTheWay
<1>4. \A j \in Installs : CopySurvives(j)'
  <2>1. told' \in [Installs -> Running \cup Answers] /\ told'[i] \in {"current", "verified"}
        /\ \A j \in Installs : j # i => told'[j] = told[j]
    BY <1>1 DEF Answer, BridgeTypes, Running, Answers
  <2> QED
    BY <1>1, <2>1 DEF CopySurvives, InABackup
<1>5. CASE Answer(i, "current") /\ UNCHANGED packed
  <2>1. told' \in [Installs -> Running \cup Answers] /\ told'[i] = "current"
        /\ \A j \in Installs : j # i => told'[j] = told[j]
    BY <1>5 DEF Answer, BridgeTypes, Running, Answers
  <2>2. BridgeTypes'
    BY <1>1, <1>5, <2>1 DEF BridgeTypes
  <2>3. \A j \in Installs : OnTheWay(j)'
    BY <1>1, <1>5, <2>1 DEF OnTheWay, PackedIsCopied
  <2> QED
    BY <1>2, <1>4, <2>2, <2>3
<1>6. ASSUME NEW after \in Collapsed(expected, kep), Verified(expected, kep, after),
             packed' = [packed EXCEPT ![i] = after], Answer(i, "verified")
      PROVE  BridgeInv'
  <2>1. told' \in [Installs -> Running \cup Answers] /\ told'[i] = "verified"
        /\ \A j \in Installs : j # i => told'[j] = told[j] /\ packed'[j] = packed[j]
    BY <1>6 DEF Answer, BridgeTypes, Running, Answers
  <2>2. mended \in Comps
    <3>1. Donor \in Comps
      BY DEF Donor, Comps, DatStates
    <3>2. ~created => TheBridge(p) \in Comps
      BY <1>3 DEF Projects, ProjectsOf, Bridges, TheBridge
    <3> QED
      BY <3>1, <3>2
  <2>3. /\ expected \in Projects /\ kep \in Comps
        /\ expected.work = p.work /\ expected.comps \ {kep} = p.comps \ Bridges(p)
    BY <1>1, <1>3, <2>2, RewritingLeavesTheRest
  <2> HIDE DEF expected, kep, p
  <2>4. after \in Projects
    BY <1>6, <2>3, CollapsedIsProject
  <2>5. packed' \in [Installs -> Projects \cup {None}] /\ packed'[i] = after
    BY <1>6, <2>4 DEF BridgeTypes
  <2>6. PackedIsCopied(i)'
    <3>1. copied'[i] = p
      BY <1>1 DEF p
    <3> QED
      BY <1>6, <2>3, <2>5, <3>1 DEF PackedIsCopied, Verified
  <2>7. BridgeTypes'
    BY <1>1, <2>1, <2>5 DEF BridgeTypes
  <2>8. \A j \in Installs : OnTheWay(j)'
    <3>1. copied' = copied /\ copied[i] \in Projects
      BY <1>1, <1>3 DEF p
    <3> QED
      BY <2>1, <2>4, <2>5, <2>6, <3>1 DEF OnTheWay, PackedIsCopied
  <2> QED
    BY <1>2, <1>4, <2>7, <2>8
<1> QED
  BY <1>1, <1>5, <1>6

LEMMA BridgeStepInv == BridgeInv /\ [BridgeInstallNext]_bridgeVars => BridgeInv'
<1> SUFFICES ASSUME BridgeInv, [BridgeInstallNext]_bridgeVars PROVE BridgeInv'
  OBVIOUS
<1> USE BridgeInstallAssumption DEF BridgeInv
<1>1. CASE UNCHANGED bridgeVars
  <2>1. undisturbed' \in [Installs -> BOOLEAN]
    BY <1>1 DEF bridgeVars
  <2> QED
    BY <1>1, <2>1 DEF bridgeVars, BridgeTypes, OnTheWay, PackedIsCopied, CopySurvives, InABackup
<1>2. ASSUME NEW i \in Installs, StageTarget(i) PROVE BridgeInv'
  <2>1. /\ told[i] = "start" /\ UNCHANGED <<wanted, target, packed, backups, second, brokenEnds>>
        /\ undisturbed' = [undisturbed EXCEPT ![i] = TRUE]
        /\ \/ target \in Projects /\ copied' = [copied EXCEPT ![i] = target] /\ Answer(i, "staged")
           \/ copied' = copied /\ Answer(i, "refused")
    BY <1>2 DEF StageTarget, IsProject, BridgeTypes
  <2>2. undisturbed' \in [Installs -> BOOLEAN]
    BY <2>1
  <2>3. /\ told' \in [Installs -> Running \cup Answers] /\ copied' \in [Installs -> Projects \cup {None}]
        /\ told'[i] = "staged" => copied'[i] = target /\ target \in Projects
        /\ told'[i] \in {"staged", "refused"}
        /\ \A j \in Installs : j # i => told'[j] = told[j] /\ copied'[j] = copied[j]
    <3>1. CASE target \in Projects /\ copied' = [copied EXCEPT ![i] = target] /\ Answer(i, "staged")
      BY <3>1 DEF Answer, BridgeTypes, Running, Answers
    <3>2. CASE copied' = copied /\ Answer(i, "refused")
      BY <3>2 DEF Answer, BridgeTypes, Running, Answers
    <3> QED
      BY <2>1, <3>1, <3>2
  <2>4. BridgeTypes'
    BY <2>1, <2>3 DEF BridgeTypes
  <2>5. \A j \in Installs : OnTheWay(j)'
    BY <2>1, <2>3 DEF OnTheWay, PackedIsCopied
  <2>6. ASSUME NEW j \in Installs PROVE CopySurvives(j)'
    <3>1. CASE j = i
      BY <2>1, <2>3, <3>1 DEF CopySurvives
    <3>2. CASE j # i
      <4>1. undisturbed'[j] = undisturbed[j]
        BY <2>1, <3>2
      <4> QED
        BY <2>1, <2>3, <3>2, <4>1 DEF CopySurvives, InABackup
    <3> QED
      BY <3>1, <3>2
  <2> QED
    BY <2>2, <2>4, <2>5, <2>6
<1>3. ASSUME NEW i \in Installs, PrepareFails(i) PROVE BridgeInv'
  <2>1. /\ told' = [told EXCEPT ![i] = "refused"]
        /\ UNCHANGED <<wanted, target, copied, packed, backups, second, undisturbed, brokenEnds>>
    BY <1>3 DEF PrepareFails, Answer
  <2>2. undisturbed' \in [Installs -> BOOLEAN]
    BY <2>1
  <2>3. /\ told' \in [Installs -> Running \cup Answers] /\ told'[i] = "refused"
        /\ \A j \in Installs : j # i => told'[j] = told[j]
    BY <2>1 DEF BridgeTypes, Answers
  <2> QED
    BY <2>1, <2>2, <2>3 DEF BridgeTypes, OnTheWay, PackedIsCopied, CopySurvives, InABackup
<1>4. ASSUME NEW i \in Installs, Backup(i) PROVE BridgeInv'
  <2>1. /\ told[i] = "verified" /\ Disturbs({i})
        /\ UNCHANGED <<wanted, target, copied, packed, second, brokenEnds>>
        /\ \/ wanted[i].backup /\ backups' = [backups EXCEPT ![second] = target] /\ Answer(i, "backedUp")
           \/ ~wanted[i].backup /\ Answer(i, "backedUp") /\ UNCHANGED backups
           \/ backups' \in {backups, [backups EXCEPT ![second] = Broken]} /\ Answer(i, "failed")
    BY <1>4 DEF Backup
  <2>2. undisturbed' \in [Installs -> BOOLEAN] /\ \A j \in Installs : j # i => ~undisturbed'[j]
    BY <2>1 DEF Disturbs
  <2>3. undisturbed'[i] => undisturbed[i]
    BY <2>1 DEF Disturbs
  <2>4. /\ told' \in [Installs -> Running \cup Answers] /\ told'[i] \in {"backedUp", "failed"}
        /\ \A j \in Installs : j # i => told'[j] = told[j]
    BY <2>1 DEF BridgeTypes, Answer, Running, Answers
  <2>5. backups' \in [0 .. MaxSecond -> Projects \cup {None, Broken}]
    BY <2>1 DEF BridgeTypes
  <2>6. BridgeTypes'
    BY <2>1, <2>4, <2>5 DEF BridgeTypes
  <2>7. \A j \in Installs : OnTheWay(j)'
    BY <2>1, <2>4 DEF OnTheWay, PackedIsCopied
  <2>8. CopySurvives(i)'
    <3>1. wanted[i].backup /\ undisturbed'[i] => target = copied[i]
      BY <2>1, <2>3 DEF CopySurvives
    <3>2. wanted[i].backup /\ told'[i] = "backedUp" => backups'[second] = target /\ second \in 0 .. MaxSecond
      <4>1. told'[i] = "backedUp" => ~Answer(i, "failed")
        BY DEF Answer, BridgeTypes
      <4> QED
        BY <2>1, <4>1 DEF BridgeTypes
    <3> QED
      BY <2>1, <2>4, <3>1, <3>2 DEF CopySurvives, InABackup
  <2>9. \A j \in Installs : CopySurvives(j)'
    BY <2>2, <2>8 DEF CopySurvives
  <2> QED
    BY <2>2, <2>6, <2>7, <2>9
<1>5. ASSUME NEW i \in Installs, PublishProject(i) PROVE BridgeInv'
  <2>1. /\ told[i] = "backedUp" /\ Disturbs({i}) /\ packed[i] \in Projects
        /\ UNCHANGED <<wanted, copied, packed, backups, second>>
        /\ target' \in {packed[i], target, Broken}
        /\ brokenEnds' \in 0 .. MaxBroken
        /\ \E a \in {"updated", "failed", "died"} : Answer(i, a)
    BY <1>5 DEF PublishProject, BridgeTypes, OnTheWay
  <2>2. undisturbed' \in [Installs -> BOOLEAN] /\ \A j \in Installs : j # i => ~undisturbed'[j]
    BY <2>1 DEF Disturbs
  <2>3. undisturbed'[i] => undisturbed[i]
    BY <2>1 DEF Disturbs
  <2>4. /\ told' \in [Installs -> Running \cup Answers] /\ told'[i] \in {"updated", "failed", "died"}
        /\ \A j \in Installs : j # i => told'[j] = told[j]
    BY <2>1 DEF BridgeTypes, Answer, Answers
  <2>5. BridgeTypes'
    BY <2>1, <2>4 DEF BridgeTypes
  <2>6. \A j \in Installs : OnTheWay(j)'
    BY <2>1, <2>4 DEF OnTheWay, PackedIsCopied
  <2>7. CopySurvives(i)'
    BY <2>1, <2>3, <2>4 DEF CopySurvives, InABackup
  <2>8. \A j \in Installs : CopySurvives(j)'
    BY <2>2, <2>7 DEF CopySurvives
  <2> QED
    BY <2>2, <2>5, <2>6, <2>8
<1>6. CASE UserSaves
  <2>1. /\ target \in Projects /\ target.work < MaxWork /\ target' = [target EXCEPT !.work = @ + 1]
        /\ UNCHANGED <<wanted, copied, packed, told, backups, second, brokenEnds>> /\ Disturbs({})
    BY <1>6 DEF UserSaves, IsProject, BridgeTypes
  <2>2. undisturbed' \in [Installs -> BOOLEAN] /\ \A j \in Installs : ~undisturbed'[j]
    BY <2>1 DEF Disturbs
  <2>3. target' \in Projects
    BY <2>1 DEF Projects, ProjectsOf
  <2>4. BridgeTypes' /\ \A j \in Installs : OnTheWay(j)'
    BY <2>1, <2>3 DEF BridgeTypes, OnTheWay, PackedIsCopied
  <2> QED
    BY <2>2, <2>4 DEF CopySurvives
<1>7. CASE NextSecond
  <2>1. undisturbed' \in [Installs -> BOOLEAN]
    BY <1>7 DEF NextSecond
  <2> QED
    BY <1>7, <2>1 DEF NextSecond, BridgeTypes, OnTheWay, PackedIsCopied, CopySurvives, InABackup
<1> QED
  BY <1>1, <1>2, <1>3, <1>4, <1>5, <1>6, <1>7, PrepareKeepsInv DEF BridgeInstallNext

\* However many installs and saves work on one project, what an install publishes differs
\* from what it copied in the bridge alone, and the user's work is at the target or in the
\* backup the caller asked for.
THEOREM BridgeInstallIsAlwaysSafe == BridgeInstallSpec => []BridgeInstallIsSafe
<1>1. ASSUME BridgeInv PROVE BridgeInstallIsSafe
  <2>1. \A p \in Projects : /\ IsProject(p) /\ p.work \in 0 .. MaxWork /\ p.host \in BOOLEAN
                            /\ \A c \in p.comps : c.dats \in [BridgeDats -> DatStates]
    BY BridgeInstallAssumption DEF Projects, ProjectsOf, Comps, IsProject
  <2>2. BridgeTypeOK
    BY <1>1, <2>1 DEF BridgeInv, BridgeTypes, BridgeTypeOK, IsProject
  <2>3. OnlyTheBridgeChanges
    BY <1>1 DEF BridgeInv, OnTheWay, PackedIsCopied, OnlyTheBridgeChanges
  <2>4. WorkIsKept
    <3> SUFFICES ASSUME NEW i \in Installs, told[i] \notin {"start", "refused"}, wanted[i].backup, undisturbed[i]
                 PROVE  \E p \in {target} \cup {backups[s] : s \in 0 .. MaxSecond} :
                          IsProject(p) /\ p.work = copied[i].work
      BY DEF WorkIsKept
    <3>1. copied[i] \in Projects
      BY <1>1 DEF BridgeInv, OnTheWay
    <3>2. target = copied[i] \/ InABackup(i)
      BY <1>1 DEF BridgeInv, CopySurvives, BridgeTypes, Running, Answers
    <3> QED
      BY <2>1, <3>1, <3>2 DEF InABackup
  <2> QED
    BY <2>2, <2>3, <2>4 DEF BridgeInstallIsSafe
<1> QED
  BY <1>1, BridgeInitInv, BridgeStepInv, PTL DEF BridgeInstallSpec

-----------------------------------------------------------------------------
(* Snapshots of a component or the project.                                *)

LEMMA SomeNumberIsLeast == ASSUME NEW S \in SUBSET Nat, S # {} PROVE \E m \in S : \A n \in S : m <= n
<1> DEFINE R == {ss \in Nat \X Nat : ss[1] < ss[2]}
<1>1. IsWellFoundedOn(R, Nat)
  BY NatLessThanWellFounded DEF OpToRel
<1>2. PICK m \in S : \A n \in S : ~(<<n, m>> \in R)
  <2> HIDE DEF R
  <2> QED
    BY <1>1, WFMin
<1>3. ASSUME NEW n \in S PROVE m <= n
  <2>1. n \in Nat /\ m \in Nat
    OBVIOUS
  <2>2. n < m => <<n, m>> \in R
    BY ONLY <2>1
  <2>3. ~(<<n, m>> \in R)
    BY <1>2
  <2> HIDE DEF R
  <2> QED
    BY <2>1, <2>2, <2>3
<1> QED
  BY <1>3

LEMMA MinIsMember == ASSUME NEW S \in SUBSET Nat, S # {} PROVE Min(S) \in S
BY SomeNumberIsLeast DEF Min

\* A call that is under way has told nobody anything, and knows what it found; what it
\* set aside is the file it is to replace.
SaveIsUnderWay ==
    /\ saving \in Saves
    /\ receipt = None
    /\ saving.step \in {"stash", "save"} => saving.alone = Alone
    /\ saving.step = "stash" =>
         saving.before = files[Target] /\ saving.kind = "component" /\ ~saving.stashed /\ displaced = saving.before
    /\ saving.step = "restore" => saving.stashed /\ saving.failing \in {"failed", "unknown"}
    /\ saving.stashed =>
         saving.kind = "component" /\ displaced = saving.before /\ files[Replaced] = displaced
    /\ saving.step = "save" /\ ~saving.stashed => displaced = None

SnapshotInv ==
    /\ SnapshotTypeOK /\ DisplacedSurvives /\ ReceiptIsTrue
    /\ saving # None => SaveIsUnderWay

LEMMA SnapshotInitInv == SnapshotInit => SnapshotInv
<1> SUFFICES ASSUME SnapshotInit PROVE SnapshotInv
  OBVIOUS
<1>1. files \in [Files -> Bytes \cup {None}]
  BY SnapshotAssumption DEF SnapshotInit, Bytes
<1>2. SnapshotTypeOK
  BY <1>1, SnapshotAssumption DEF SnapshotInit, SnapshotTypeOK
<1> QED
  BY <1>2 DEF SnapshotInit, SnapshotInv, DisplacedSurvives, ReceiptIsTrue

\* What a call tells at its end is a receipt.
LEMMA ToldIsReceipt ==
    ASSUME NEW call \in Saves,
           NEW o \in {"refused", "declined", "failed", "unknown", "written", "loaded"}
    PROVE  /\ Told(call, o) \in Receipts
           /\ Told(call, o).kind = call.kind /\ Told(call, o).outcome = o
           /\ Told(call, o).before = call.before /\ ~Told(call, o).restored
           /\ Told(call, o).alone = call.alone
BY DEF Told, Receipts, Saves

\* A call that ends without touching the scene or what is displaced.
LEMMA EndKeepsInv ==
    ASSUME SnapshotInv, files' \in [Files -> Bytes \cup {None}], receipt' \in Receipts,
           saving' = None, UNCHANGED <<version, children, displaced, snapshots, exits>>,
           DisplacedSurvives', ReceiptIsTrue'
    PROVE  SnapshotInv'
BY DEF SnapshotInv, SnapshotTypeOK

\* What the handler sees are files, each as it is or as if it were not there.
LEMMA SeenAreFiles ==
    ASSUME NEW fs \in [Files -> Bytes \cup {None}], NEW hidden
    PROVE  /\ StatOf(fs, hidden) \in [Files -> Bytes \cup {None}]
           /\ \A f \in Files : StatOf(fs, hidden)[f] \in {None, fs[f]}
BY DEF StatOf

\* A call begins with what it sees of the target and its siblings.
LEMMA BegunIsSave ==
    ASSUME SnapshotInv, NEW hidden, NEW kind \in {"component", "project"}
    PROVE  LET begun == Begun(kind, StatOf(files, hidden))
           IN /\ begun \in Saves /\ begun.kind = kind /\ begun.step = "save"
              /\ ~begun.stashed /\ begun.before \in {None, files[Target]}
              /\ begun.alone = Alone
<1> DEFINE seen == StatOf(files, hidden)
<1>1. /\ seen \in [Files -> Bytes \cup {None}] /\ seen[Target] \in {None, files[Target]}
      /\ Target \in Files /\ Siblings \subseteq Files
  BY SeenAreFiles DEF SnapshotInv, SnapshotTypeOK, Files
<1>2. Alone \in BOOLEAN
  BY DEF Alone
<1> HIDE DEF seen
<1>3. /\ Begun(kind, seen) \in Saves /\ Begun(kind, seen).kind = kind
      /\ Begun(kind, seen).step = "save" /\ ~Begun(kind, seen).stashed
      /\ Begun(kind, seen).before = seen[Target] /\ Begun(kind, seen).alone = Alone
  BY <1>1, <1>2 DEF Begun, Saves
<1> QED
  BY <1>1, <1>3 DEF seen

LEMMA StartSaveKeepsInv ==
    ASSUME SnapshotInv, NEW kind \in {"component", "project"}, NEW mode \in {"fail", "replace"},
           StartSave(kind, mode)
    PROVE  SnapshotInv'
<1>0. PICK hidden \in Unreadable :
         LET begun == Begun(kind, StatOf(files, hidden))
         IN \/ /\ begun.before # None /\ mode = "fail"
               /\ Ends(Told(begun, "refused"))
               /\ UNCHANGED displaced
            \/ /\ begun.before # None /\ mode = "replace" /\ kind = "component"
               /\ saving' = [begun EXCEPT !.step = "stash"] /\ receipt' = None
               /\ displaced' = begun.before
            \/ /\ begun.before = None \/ (mode = "replace" /\ kind = "project")
               /\ saving' = begun /\ receipt' = None
               /\ displaced' = None
  BY DEF StartSave
<1> DEFINE begun == Begun(kind, StatOf(files, hidden))
<1>1. /\ saving = None /\ snapshots < MaxSnapshots /\ snapshots' = snapshots + 1
      /\ UNCHANGED <<files, version, children, exits>>
      /\ \/ /\ begun.before # None /\ Ends(Told(begun, "refused"))
            /\ UNCHANGED displaced
         \/ /\ begun.before # None /\ kind = "component"
            /\ saving' = [begun EXCEPT !.step = "stash"] /\ receipt' = None
            /\ displaced' = begun.before
         \/ /\ begun.before = None \/ kind = "project"
            /\ saving' = begun /\ receipt' = None
            /\ displaced' = None
  BY <1>0 DEF StartSave
<1>2. begun \in Saves
  BY BegunIsSave
<1>3. begun.kind = kind /\ begun.before \in {None, files[Target]} /\ begun.step = "save"
      /\ ~begun.stashed /\ begun.alone = Alone
  BY BegunIsSave
<1>4. [begun EXCEPT !.step = "stash"] \in Saves
  BY <1>2 DEF Saves
<1>5. snapshots' \in 0 .. MaxSnapshots
  BY <1>1, SnapshotAssumption DEF SnapshotInv, SnapshotTypeOK
<1>6. files' \in [Files -> Bytes \cup {None}] /\ version' \in 0 .. MaxVersion /\ children' \subseteq Bytes
      /\ exits' \in 0 .. MaxExits /\ files' = files
  BY <1>1 DEF SnapshotInv, SnapshotTypeOK
<1>7. displaced \in Bytes \cup {None} /\ DisplacedSurvives
  BY DEF SnapshotInv, SnapshotTypeOK
<1> HIDE DEF begun
<1>a. CASE begun.before # None /\ Ends(Told(begun, "refused")) /\ UNCHANGED displaced
  <2>1. saving' = None /\ receipt' \in Receipts /\ receipt'.outcome = "refused"
        /\ receipt'.before = files[Target] /\ displaced' = displaced
    BY <1>a, <1>2, <1>3, ToldIsReceipt DEF Ends
  <2>2. SnapshotTypeOK'
    BY <1>5, <1>6, <1>7, <2>1 DEF SnapshotTypeOK
  <2>3. DisplacedSurvives' /\ ReceiptIsTrue'
    BY <1>6, <1>7, <2>1 DEF DisplacedSurvives, ReceiptIsTrue
  <2> QED
    BY <2>1, <2>2, <2>3 DEF SnapshotInv
<1>b. CASE /\ begun.before # None /\ kind = "component"
           /\ saving' = [begun EXCEPT !.step = "stash"] /\ receipt' = None
           /\ displaced' = begun.before
  <2>1. saving' \in Saves /\ saving'.step = "stash" /\ saving'.kind = "component" /\ ~saving'.stashed
        /\ saving'.before = files[Target] /\ saving'.alone = Alone
    BY <1>b, <1>2, <1>3, <1>4 DEF Saves
  <2>2. displaced' = files[Target] /\ receipt' = None /\ displaced' \in Bytes \cup {None}
    BY <1>b, <1>2, <1>3 DEF Saves
  <2>3. SnapshotTypeOK'
    BY <1>5, <1>6, <2>1, <2>2 DEF SnapshotTypeOK
  <2>4. DisplacedSurvives' /\ ReceiptIsTrue'
    BY <1>6, <2>2 DEF DisplacedSurvives, ReceiptIsTrue
  <2>5. SaveIsUnderWay'
    BY <1>6, <2>1, <2>2 DEF SaveIsUnderWay, Alone
  <2> QED
    BY <2>3, <2>4, <2>5 DEF SnapshotInv
<1>c. CASE /\ begun.before = None \/ kind = "project"
           /\ saving' = begun /\ receipt' = None
           /\ displaced' = None
  <2>1. saving' \in Saves /\ saving'.step = "save" /\ ~saving'.stashed
        /\ saving'.alone = Alone
    BY <1>c, <1>2, <1>3
  <2>2. displaced' = None /\ receipt' = None
    BY <1>c
  <2>3. SnapshotTypeOK'
    BY <1>5, <1>6, <2>1, <2>2 DEF SnapshotTypeOK
  <2>4. DisplacedSurvives' /\ ReceiptIsTrue'
    BY <2>2 DEF DisplacedSurvives, ReceiptIsTrue
  <2>5. SaveIsUnderWay'
    BY <1>6, <2>1, <2>2 DEF SaveIsUnderWay, Alone
  <2> QED
    BY <2>3, <2>4, <2>5 DEF SnapshotInv
<1> QED
  BY <1>1, <1>a, <1>b, <1>c

\* The copy beside the target is read back before anything is written over the target.
LEMMA SetAsideKeepsInv == ASSUME SnapshotInv, SetAside PROVE SnapshotInv'
<1>1. /\ saving # None /\ saving.step = "stash"
      /\ \E b \in {files[Target], files[Replaced], Torn} : files' = [files EXCEPT ![Replaced] = b]
      /\ UNCHANGED <<version, children, displaced, snapshots, exits>>
  BY DEF SetAside, CopyOver
<1>2. SaveIsUnderWay
  BY <1>1 DEF SnapshotInv
<1>3. /\ files' \in [Files -> Bytes \cup {None}] /\ files'[Target] = files[Target]
      /\ \A n \in Watched : files'[n] = files[n]
  <2>1. files \in [Files -> Bytes \cup {None}] /\ Target \in Files /\ Replaced \in Files /\ Torn \in Bytes
    BY DEF SnapshotInv, SnapshotTypeOK, Files, Bytes
  <2>2. Target # Replaced /\ \A n \in Siblings : n # Replaced /\ n \in Files
    BY SnapshotAssumption DEF Target, Replaced, Siblings, Files
  <2>3. files' \in [Files -> Bytes \cup {None}] /\ \A f \in Files : f # Replaced => files'[f] = files[f]
    BY <1>1, <2>1
  <2> QED
    BY <2>1, <2>2, <2>3 DEF Watched
<1>4. displaced = files[Target] /\ displaced' = displaced /\ saving.before = files[Target]
      /\ saving.alone = Alone /\ saving.kind = "component" /\ saving \in Saves
  BY <1>1, <1>2 DEF SaveIsUnderWay
<1>5. DisplacedSurvives'
  BY <1>3, <1>4 DEF DisplacedSurvives
<1>6. CASE files'[Replaced] = files[Target] /\ Proceeds([saving EXCEPT !.step = "save", !.stashed = TRUE])
  <2>1. saving' \in Saves /\ saving'.step = "save" /\ saving'.stashed /\ saving'.kind = "component"
        /\ saving'.before = files[Target] /\ saving'.alone = Alone
    BY <1>4, <1>6 DEF Proceeds, Saves
  <2>2. receipt' = None
    BY <1>2, <1>6 DEF Proceeds, SaveIsUnderWay
  <2>3. SnapshotTypeOK'
    BY <1>1, <1>3, <2>1, <2>2 DEF SnapshotInv, SnapshotTypeOK
  <2>4. SaveIsUnderWay'
    BY <1>3, <1>4, <1>6, <2>1, <2>2 DEF SaveIsUnderWay, Alone
  <2>5. ReceiptIsTrue'
    BY <2>2 DEF ReceiptIsTrue
  <2> QED
    BY <1>5, <2>3, <2>4, <2>5 DEF SnapshotInv
<1>7. CASE Ends(Told(saving, "declined"))
  <2>1. saving' = None /\ receipt' \in Receipts /\ receipt'.outcome = "declined"
        /\ receipt'.before = files[Target]
    BY <1>4, <1>7, ToldIsReceipt DEF Ends
  <2>2. ReceiptIsTrue'
    BY <1>3, <2>1 DEF ReceiptIsTrue
  <2> QED
    BY <1>1, <1>3, <1>5, <2>1, <2>2, EndKeepsInv
<1> QED
  BY <1>6, <1>7 DEF SetAside

LEMMA PutTargetBackKeepsInv == ASSUME SnapshotInv, PutTargetBack PROVE SnapshotInv'
<1>0. PICK readable \in BOOLEAN :
         Ends([Told(saving, saving.failing) EXCEPT
                 !.restored = readable /\ files'[Target] = saving.before])
  BY DEF PutTargetBack
<1> DEFINE report == [Told(saving, saving.failing) EXCEPT
                        !.restored = readable /\ files'[Target] = saving.before]
<1>1. /\ saving # None /\ saving.step = "restore"
      /\ \E b \in {files[Target], files[Replaced], Torn} : files' = [files EXCEPT ![Target] = b]
      /\ Ends(report)
      /\ UNCHANGED <<version, children, displaced, snapshots, exits>>
  BY <1>0 DEF PutTargetBack, CopyOver
<1>2. saving \in Saves /\ saving.failing \in {"failed", "unknown"} /\ files[Replaced] = displaced
  BY <1>1 DEF SnapshotInv, SaveIsUnderWay
<1>3. files' \in [Files -> Bytes \cup {None}] /\ files'[Replaced] = files[Replaced]
  <2>1. files \in [Files -> Bytes \cup {None}] /\ Target \in Files /\ Replaced \in Files /\ Torn \in Bytes
    BY DEF SnapshotInv, SnapshotTypeOK, Files, Bytes
  <2>2. Target # Replaced
    BY SnapshotAssumption DEF Target, Replaced
  <2> QED
    BY <1>1, <2>1, <2>2
<1>4. report \in Receipts /\ report.outcome = saving.failing /\ report.before = saving.before
      /\ (report.restored => files'[Target] = saving.before)
  <2>1. Told(saving, saving.failing) \in Receipts
        /\ Told(saving, saving.failing).outcome = saving.failing
        /\ Told(saving, saving.failing).before = saving.before
    BY <1>2, ToldIsReceipt
  <2>2. (readable /\ files'[Target] = saving.before) \in BOOLEAN
    OBVIOUS
  <2> QED
    BY <2>1, <2>2 DEF Receipts
<1> HIDE DEF report
<1>5. saving' = None /\ receipt' = report
  BY <1>1 DEF Ends
<1>6. DisplacedSurvives'
  BY <1>1, <1>2, <1>3 DEF DisplacedSurvives
<1>7. ReceiptIsTrue'
  BY <1>2, <1>4, <1>5 DEF ReceiptIsTrue
<1> QED
  BY <1>1, <1>3, <1>4, <1>5, <1>6, <1>7, EndKeepsInv

\* A save that fails is followed by putting back what was set aside, if anything was.
LEMMA FailsKeepsInv ==
    ASSUME SnapshotInv, NEW b \in Bytes \cup {None}, files' = [files EXCEPT ![Target] = b],
           AtSave("component"), NEW o \in {"failed", "unknown"}, Fails(o),
           UNCHANGED <<version, children, displaced, snapshots, exits>>
    PROVE  SnapshotInv'
<1>1. SaveIsUnderWay /\ saving \in Saves /\ saving.step = "save" /\ receipt = None
  BY DEF SnapshotInv, SaveIsUnderWay, AtSave
<1>2. files' \in [Files -> Bytes \cup {None}] /\ files'[Replaced] = files[Replaced]
  <2>1. files \in [Files -> Bytes \cup {None}] /\ Target \in Files /\ Replaced \in Files
    BY DEF SnapshotInv, SnapshotTypeOK, Files
  <2>2. Target # Replaced
    BY SnapshotAssumption DEF Target, Replaced
  <2> QED
    BY <2>1, <2>2
<1>3. DisplacedSurvives'
  BY <1>1, <1>2 DEF DisplacedSurvives, SaveIsUnderWay
<1>4. CASE saving.stashed
  <2>1. saving' = [saving EXCEPT !.step = "restore", !.failing = o] /\ receipt' = None
    BY <1>1, <1>4 DEF Fails, Proceeds
  <2>2. saving' \in Saves /\ saving'.step = "restore" /\ saving'.failing = o /\ saving'.stashed
        /\ saving'.kind = saving.kind /\ saving'.before = saving.before
    BY <1>1, <1>4, <2>1 DEF Saves
  <2>3. SaveIsUnderWay'
    BY <1>1, <1>2, <1>4, <2>1, <2>2 DEF SaveIsUnderWay
  <2>4. SnapshotTypeOK'
    BY <1>2, <2>1, <2>2 DEF SnapshotInv, SnapshotTypeOK
  <2>5. ReceiptIsTrue'
    BY <2>1 DEF ReceiptIsTrue
  <2> QED
    BY <1>3, <2>3, <2>4, <2>5 DEF SnapshotInv
<1>5. CASE ~saving.stashed
  <2>1. saving' = None /\ receipt' \in Receipts /\ receipt'.outcome = o /\ ~receipt'.restored
    BY <1>1, <1>5, ToldIsReceipt DEF Fails, Ends
  <2>2. ReceiptIsTrue'
    BY <2>1 DEF ReceiptIsTrue
  <2> QED
    BY <1>2, <1>3, <2>1, <2>2, EndKeepsInv
<1> QED
  BY <1>4, <1>5

LEMMA ComponentKeepsInv ==
    ASSUME SnapshotInv, ComponentSaved \/ ComponentRaised \/ ComponentUnaccounted
    PROVE  SnapshotInv'
<1>1. files \in [Files -> Bytes \cup {None}] /\ Target \in Files /\ version \in Bytes /\ Torn \in Bytes
  BY DEF SnapshotInv, SnapshotTypeOK, Files, Bytes
<1>2. CASE ComponentSaved
  <2>1. /\ SaveIsUnderWay /\ saving \in Saves /\ saving.step = "save" /\ saving.kind = "component"
        /\ files' = [files EXCEPT ![Target] = version]
        /\ Ends(WrittenTo(Target)) /\ UNCHANGED <<version, children, displaced, snapshots, exits>>
    BY <1>2 DEF ComponentSaved, AtSave, SnapshotInv, SaveIsUnderWay
  <2>2. /\ files' \in [Files -> Bytes \cup {None}] /\ files'[Target] = version
        /\ files'[Replaced] = files[Replaced]
    <3>1. Target # Replaced /\ Replaced \in Files
      BY SnapshotAssumption DEF Target, Replaced, Files
    <3> QED
      BY <1>1, <2>1, <3>1
  <2>3. /\ saving' = None /\ receipt' \in Receipts /\ receipt'.outcome = "written"
        /\ receipt'.kind = "component" /\ receipt'.artifact = version /\ receipt'.made = version /\ ~receipt'.restored
    <3>1. Told(saving, "written") \in Receipts /\ Told(saving, "written").outcome = "written"
          /\ Told(saving, "written").kind = "component" /\ ~Told(saving, "written").restored
      BY <2>1, ToldIsReceipt
    <3>2. receipt' = [Told(saving, "written") EXCEPT !.artifact = version, !.made = version]
      BY <2>1, <2>2 DEF Ends, WrittenTo
    <3> QED
      BY <1>1, <2>1, <3>1, <3>2 DEF Ends, Receipts
  <2>4. DisplacedSurvives'
    BY <2>1, <2>2 DEF DisplacedSurvives, SaveIsUnderWay
  <2>5. version # None
    BY SnapshotAssumption DEF SnapshotInv, SnapshotTypeOK
  <2>6. ReceiptIsTrue'
    BY <2>3, <2>5 DEF ReceiptIsTrue
  <2> QED
    BY <2>1, <2>2, <2>3, <2>4, <2>6, EndKeepsInv
<1>3. CASE ComponentRaised
  <2>1. PICK b \in {files[Target], Torn, version} : files' = [files EXCEPT ![Target] = b]
    BY <1>3 DEF ComponentRaised
  <2>2. AtSave("component") /\ Fails("failed") /\ UNCHANGED <<version, children, displaced, snapshots, exits>>
    BY <1>3 DEF ComponentRaised
  <2>3. b \in Bytes \cup {None}
    BY <1>1
  <2> QED
    BY <2>1, <2>2, <2>3, FailsKeepsInv
<1>4. CASE ComponentUnaccounted
  <2>1. PICK b \in {files[Target], None, Torn, version} : files' = [files EXCEPT ![Target] = b]
    BY <1>4 DEF ComponentUnaccounted
  <2>2. AtSave("component") /\ Fails("unknown") /\ UNCHANGED <<version, children, displaced, snapshots, exits>>
    BY <1>4 DEF ComponentUnaccounted
  <2>3. b \in Bytes \cup {None}
    BY <1>1
  <2> QED
    BY <2>1, <2>2, <2>3, FailsKeepsInv
<1> QED
  BY <1>2, <1>3, <1>4

\* The file the handler takes for the one that was written is there.
LEMMA FoundIsThere ==
    ASSUME NEW call \in Saves, NEW after \in [Files -> Bytes \cup {None}],
           FindWritten(call, after) # None
    PROVE  FindWritten(call, after) \in Files /\ after[FindWritten(call, after)] # None
<1> DEFINE changed == {n \in Watched : /\ call.numbered[n] # None
                                       /\ after[n] \notin {None, call.numbered[n]}}
           present == {n \in Watched : after[n] # None}
<1>1. Target \in Files /\ Siblings \subseteq Files /\ Siblings \subseteq Nat /\ Watched \subseteq Siblings
  BY SnapshotAssumption DEF Files, Siblings, Watched
<1>2. changed # {} => Min(changed) \in changed
  <2>1. changed \subseteq Nat
    BY <1>1
  <2> HIDE DEF changed
  <2> QED
    BY <2>1, MinIsMember
<1>3. present # {} => Min(present) \in present
  <2>1. present \subseteq Nat
    BY <1>1
  <2> HIDE DEF present
  <2> QED
    BY <2>1, MinIsMember
<1>4. FindWritten(call, after) =
        IF after[Target] # None THEN Target
        ELSE IF changed # {} THEN Min(changed)
        ELSE IF present # {} THEN Min(present)
        ELSE None
  BY DEF FindWritten
<1>5. \A n \in changed \cup present : n \in Files /\ after[n] # None
  BY <1>1
<1> HIDE DEF changed, present
<1> QED
  BY <1>1, <1>2, <1>3, <1>4, <1>5

\* Where nothing was at the target or beside it, what is found is what was written.
LEMMA AloneIsFound ==
    ASSUME SnapshotInv, SaveIsUnderWay, saving.step = "save",
           NEW after \in SaveOutcomes \cup {files}, saving.alone, NEW hidden,
           FindWritten(saving, StatOf(after, hidden)) # None
    PROVE  after # files /\ after[FindWritten(saving, StatOf(after, hidden))] = version
<1> DEFINE seen == StatOf(after, hidden)
<1>1. /\ files \in [Files -> Bytes \cup {None}] /\ version # None
      /\ Target \in Files /\ Watched \subseteq Files /\ \A n \in Watched : n # Target
  BY SnapshotAssumption DEF SnapshotInv, SnapshotTypeOK, Files, Watched, Siblings, Target
<1>2. files[Target] = None /\ \A n \in Watched : files[n] = None
  BY DEF SaveIsUnderWay, Alone
<1>3. after = files \/ after = [files EXCEPT ![Target] = version]
  BY <1>2 DEF SaveOutcomes, SaveTargets
<1>4. \A n \in Watched : seen[n] = None
  BY <1>1, <1>2, <1>3 DEF StatOf
<1>5. seen[Target] \in {None, after[Target]}
  BY <1>1 DEF StatOf
<1> HIDE DEF seen
<1>6. seen[Target] # None
  BY <1>4 DEF FindWritten, seen
<1>7. FindWritten(saving, seen) = Target
  BY <1>6 DEF FindWritten
<1> QED
  BY <1>1, <1>2, <1>3, <1>5, <1>6, <1>7 DEF seen

LEMMA SaveOutcomesAreFiles ==
    ASSUME SnapshotInv
    PROVE  /\ SaveOutcomes \subseteq [Files -> Bytes \cup {None}]
           /\ PartOutcomes \subseteq [Files -> Bytes \cup {None}]
<1>1. files \in [Files -> Bytes \cup {None}] /\ Target \in Files /\ version \in Bytes
  BY DEF SnapshotInv, SnapshotTypeOK, Files, Bytes
<1>2. SaveTargets \subseteq Files
  BY <1>1 DEF SaveTargets, Files
<1>3. \A f \in Files, b \in Bytes : [files EXCEPT ![f] = b] \in [Files -> Bytes \cup {None}]
  BY <1>1
<1>4. Torn \in Bytes
  BY DEF Bytes
<1> QED
  BY <1>1, <1>2, <1>3, <1>4 DEF SaveOutcomes, PartOutcomes

LEMMA ProjectKeepsInv ==
    ASSUME SnapshotInv, ProjectSaved \/ ProjectRaised \/ ProjectDeclined
    PROVE  SnapshotInv'
<1>1. /\ SaveIsUnderWay /\ saving \in Saves /\ saving.step = "save" /\ saving.kind = "project"
      /\ displaced = None
      /\ UNCHANGED <<version, children, displaced, snapshots, exits>>
  BY DEF ProjectSaved, ProjectRaised, ProjectDeclined, AtSave, SnapshotInv, SaveIsUnderWay
<1>2. DisplacedSurvives'
  BY <1>1 DEF DisplacedSurvives
<1>3. files \in [Files -> Bytes \cup {None}] /\ version \in Bytes /\ version # None /\ Target \in Files
      /\ Torn \in Bytes
  BY SnapshotAssumption DEF SnapshotInv, SnapshotTypeOK, Bytes, Files
<1>4. CASE ProjectSaved
  <2>1. PICK after \in SaveOutcomes \cup {files}, hidden \in Unreadable, readable \in BOOLEAN :
           LET where == FindWritten(saving, StatOf(after, hidden))
           IN /\ files' = after
              /\ Ends(IF where = None THEN Told(saving, "unknown")
                      ELSE [Told(saving, "written") EXCEPT
                              !.artifact = IF readable THEN after[where] ELSE None,
                              !.made = IF after = files THEN None ELSE version])
    BY <1>4 DEF ProjectSaved
  <2> DEFINE place == FindWritten(saving, StatOf(after, hidden))
             report == Told(saving, "written")
             made == IF after = files THEN None ELSE version
             bytes == IF readable THEN after[place] ELSE None
  <2>2. after \in [Files -> Bytes \cup {None}]
    BY <1>3, SaveOutcomesAreFiles
  <2>3. CASE place = None
    <3>1. saving' = None /\ receipt' \in Receipts /\ receipt'.outcome = "unknown" /\ ~receipt'.restored
      BY <1>1, <2>1, <2>3, ToldIsReceipt DEF Ends
    <3>2. ReceiptIsTrue'
      BY <3>1 DEF ReceiptIsTrue
    <3> QED
      BY <1>1, <1>2, <2>1, <2>2, <3>1, <3>2, EndKeepsInv
  <2>4. CASE place # None
    <3>1. place \in Files
      <4>1. StatOf(after, hidden) \in [Files -> Bytes \cup {None}]
        BY <2>2, SeenAreFiles
      <4> QED
        BY <1>1, <2>4, <4>1, FoundIsThere
    <3>2. report \in Receipts /\ report.outcome = "written" /\ report.kind = "project" /\ ~report.restored
          /\ report.alone = saving.alone
      BY <1>1, ToldIsReceipt
    <3>3. report.alone => after # files /\ after[place] = version
      BY <1>1, <2>4, <3>2, AloneIsFound
    <3>4. saving' = None /\ receipt' = [report EXCEPT !.artifact = bytes, !.made = made]
      BY <2>1, <2>4 DEF Ends
    <3>5. made \in Bytes \cup {None} /\ bytes \in Bytes \cup {None} /\ (after # files => made = version)
          /\ bytes \in {None, after[place]}
      BY <1>3, <2>2, <3>1
    <3> HIDE DEF place, report, made, bytes
    <3>6. /\ receipt' \in Receipts /\ receipt'.outcome = "written" /\ receipt'.kind = "project"
          /\ ~receipt'.restored /\ receipt'.alone = report.alone
          /\ receipt'.artifact = bytes /\ receipt'.made = made
      BY <3>2, <3>4, <3>5 DEF Receipts
    <3>7. ReceiptIsTrue'
      BY <1>3, <3>3, <3>5, <3>6 DEF ReceiptIsTrue
    <3> QED
      BY <1>1, <1>2, <2>1, <2>2, <3>4, <3>6, <3>7, EndKeepsInv
  <2> QED
    BY <2>3, <2>4
<1>5. CASE ProjectRaised
  <2>1. saving' = None /\ receipt' \in Receipts /\ receipt'.outcome = "unknown" /\ ~receipt'.restored
    BY <1>1, <1>5, ToldIsReceipt DEF ProjectRaised, Ends
  <2>2. files' \in [Files -> Bytes \cup {None}]
    BY <1>5, SaveOutcomesAreFiles DEF ProjectRaised
  <2>3. ReceiptIsTrue'
    BY <2>1 DEF ReceiptIsTrue
  <2> QED
    BY <1>1, <1>2, <2>1, <2>2, <2>3, EndKeepsInv
<1>6. CASE ProjectDeclined
  <2>1. saving' = None /\ receipt' \in Receipts /\ receipt'.outcome = "declined"
        /\ receipt'.kind = "project" /\ ~receipt'.restored
    BY <1>1, <1>6, ToldIsReceipt DEF ProjectDeclined, Ends
  <2>2. files' \in [Files -> Bytes \cup {None}]
    BY <1>6, SaveOutcomesAreFiles DEF ProjectDeclined
  <2>3. ReceiptIsTrue'
    BY <2>1 DEF ReceiptIsTrue
  <2> QED
    BY <1>1, <1>2, <2>1, <2>2, <2>3, EndKeepsInv
<1> QED
  BY <1>4, <1>5, <1>6

LEMMA LoadKeepsInv == ASSUME SnapshotInv, LoadComponent PROVE SnapshotInv'
<1>0. PICK hidden \in SUBSET {Target} :
         LET seen == StatOf(files, hidden)
             tells(o) == [Told(Begun("load", seen), o) EXCEPT !.artifact = seen[Target]]
         IN \/ seen[Target] = None /\ Ends(tells("refused")) /\ UNCHANGED children
            \/ /\ seen[Target] \notin {None, Torn} /\ Ends(tells("loaded"))
               /\ children' = children \cup {files[Target]}
            \/ /\ seen[Target] # None
               /\ \E o \in {"failed", "unknown"} : Ends(tells(o))
               /\ children' \in {children, children \cup {files[Target]}}
  BY DEF LoadComponent
<1> DEFINE seen == StatOf(files, hidden)
           report(o) == [Told(Begun("load", seen), o) EXCEPT !.artifact = seen[Target]]
<1>2. /\ files \in [Files -> Bytes \cup {None}] /\ files[Target] \in Bytes \cup {None}
      /\ seen[Target] \in {None, files[Target]} /\ seen[Target] \in Bytes \cup {None}
  <2>1. files \in [Files -> Bytes \cup {None}] /\ Target \in Files
    BY DEF SnapshotInv, SnapshotTypeOK, Files
  <2> QED
    BY <2>1, SeenAreFiles
<1>1. /\ saving = None /\ snapshots < MaxSnapshots /\ snapshots' = snapshots + 1
      /\ UNCHANGED <<files, version, displaced, exits>>
      /\ \E o \in {"refused", "loaded", "failed", "unknown"} : Ends(report(o))
      /\ children' = children \/ (files[Target] # None /\ children' = children \cup {files[Target]})
  BY <1>0, <1>2 DEF LoadComponent
<1>3. ASSUME NEW o \in {"refused", "loaded", "failed", "unknown"}
      PROVE  report(o) \in Receipts /\ report(o).kind = "load" /\ report(o).outcome = o /\ ~report(o).restored
  <2>1. Alone \in BOOLEAN
    BY DEF Alone
  <2> HIDE DEF seen
  <2> QED
    BY <1>2, <2>1 DEF Told, Receipts, Begun
<1> HIDE DEF report, seen
<1>4. saving' = None /\ receipt' \in Receipts /\ receipt'.kind = "load" /\ ~receipt'.restored
      /\ receipt'.outcome # "written"
  BY <1>1, <1>3 DEF Ends
<1>5. SnapshotTypeOK'
  <2>1. snapshots' \in 0 .. MaxSnapshots
    BY <1>1, SnapshotAssumption DEF SnapshotInv, SnapshotTypeOK
  <2>2. children' \subseteq Bytes
    BY <1>1, <1>2 DEF SnapshotInv, SnapshotTypeOK
  <2> QED
    BY <1>1, <1>4, <2>1, <2>2 DEF SnapshotInv, SnapshotTypeOK
<1>6. DisplacedSurvives' /\ ReceiptIsTrue'
  BY <1>1, <1>4 DEF SnapshotInv, DisplacedSurvives, ReceiptIsTrue
<1> QED
  BY <1>4, <1>5, <1>6 DEF SnapshotInv

LEMMA OutsideKeepsInv ==
    ASSUME SnapshotInv, EditScene \/ TouchDesignerDies PROVE SnapshotInv'
<1>1. CASE EditScene
  <2>1. saving = None /\ version' \in 0 .. MaxVersion
        /\ UNCHANGED <<files, children, saving, receipt, displaced, snapshots, exits>>
    BY <1>1, SnapshotAssumption DEF EditScene, SnapshotInv, SnapshotTypeOK
  <2> QED
    BY <2>1 DEF SnapshotInv, SnapshotTypeOK, DisplacedSurvives, ReceiptIsTrue
<1>2. CASE TouchDesignerDies
  <2>1. /\ SaveIsUnderWay /\ saving \in Saves /\ saving' = None /\ exits' \in 0 .. MaxExits
        /\ UNCHANGED <<version, children, receipt, displaced, snapshots>>
    BY <1>2, SnapshotAssumption
       DEF TouchDesignerDies, SnapshotInv, SnapshotTypeOK, SaveIsUnderWay
  <2>2. Target # Replaced /\ Target \in Files /\ Replaced \in Files /\ Torn \in Bytes
        /\ version \in Bytes /\ files \in [Files -> Bytes \cup {None}]
    BY SnapshotAssumption DEF Target, Replaced, Files, Bytes, SnapshotInv, SnapshotTypeOK
  <2>a. ASSUME saving.step = "stash", \E good \in BOOLEAN : CopyOver(Target, Replaced, good)
        PROVE  DisplacedSurvives' /\ files' \in [Files -> Bytes \cup {None}]
    <3>1. files' \in [Files -> Bytes \cup {None}] /\ files'[Target] = files[Target]
      BY <2>2, <2>a DEF CopyOver
    <3> QED
      BY <2>1, <2>a, <3>1 DEF DisplacedSurvives, SaveIsUnderWay
  <2>b. ASSUME saving.step = "restore", \E good \in BOOLEAN : CopyOver(Replaced, Target, good)
        PROVE  DisplacedSurvives' /\ files' \in [Files -> Bytes \cup {None}]
    <3>1. files' \in [Files -> Bytes \cup {None}] /\ files'[Replaced] = files[Replaced]
      BY <2>2, <2>b DEF CopyOver
    <3> QED
      BY <2>1, <2>b, <3>1 DEF DisplacedSurvives, SaveIsUnderWay
  <2>c. ASSUME saving.step = "save", saving.kind = "component",
               \E b \in {files[Target], Torn, version} : files' = [files EXCEPT ![Target] = b]
        PROVE  DisplacedSurvives' /\ files' \in [Files -> Bytes \cup {None}]
    <3>1. files' \in [Files -> Bytes \cup {None}] /\ files'[Replaced] = files[Replaced]
      BY <2>2, <2>c
    <3> QED
      BY <2>1, <2>c, <3>1 DEF DisplacedSurvives, SaveIsUnderWay
  <2>d. ASSUME saving.step = "save", saving.kind = "project", files' \in PartOutcomes
        PROVE  DisplacedSurvives' /\ files' \in [Files -> Bytes \cup {None}]
    BY <2>1, <2>d, SaveOutcomesAreFiles DEF DisplacedSurvives, SaveIsUnderWay
  <2>4. DisplacedSurvives' /\ files' \in [Files -> Bytes \cup {None}]
    BY <1>2, <2>a, <2>b, <2>c, <2>d DEF TouchDesignerDies
  <2>5. receipt' = None
    BY <2>1 DEF SaveIsUnderWay
  <2>6. ReceiptIsTrue' /\ SnapshotTypeOK'
    BY <2>1, <2>4, <2>5 DEF ReceiptIsTrue, SnapshotInv, SnapshotTypeOK
  <2> QED
    BY <2>1, <2>4, <2>6 DEF SnapshotInv
<1> QED
  BY <1>1, <1>2

LEMMA SnapshotStepInv == SnapshotInv /\ [SnapshotNext]_snapshotVars => SnapshotInv'
<1> SUFFICES ASSUME SnapshotInv, [SnapshotNext]_snapshotVars PROVE SnapshotInv'
  OBVIOUS
<1>1. CASE UNCHANGED snapshotVars
  BY <1>1 DEF snapshotVars, SnapshotInv, SnapshotTypeOK, DisplacedSurvives, ReceiptIsTrue,
              SaveIsUnderWay, Alone
<1> QED
  BY <1>1, StartSaveKeepsInv, SetAsideKeepsInv, PutTargetBackKeepsInv, ComponentKeepsInv,
     ProjectKeepsInv, LoadKeepsInv, OutsideKeepsInv DEF SnapshotNext

\* Whatever a save does, whatever it returns and whenever TouchDesigner dies: the file a
\* component saw it was to replace is at the target or beside it, and a receipt that says
\* written, refused, restored or, of a component, declined is true.
THEOREM SnapshotIsAlwaysSafe == SnapshotSpec => []SnapshotIsSafe
<1>1. SnapshotInv => SnapshotIsSafe
  BY DEF SnapshotInv, SnapshotIsSafe
<1> QED
  BY <1>1, SnapshotInitInv, SnapshotStepInv, PTL DEF SnapshotSpec

-----------------------------------------------------------------------------
(* Routed tool calls.                                                      *)

Asks == [tool : BridgedTools, names : Daemons \cup {None}]
Waits == {"new", "resolve", "entry", "here", "flight", "end"}
Works == {"none", "begin", "enqueue", "call", "answer"}

CallTypes ==
    /\ ask \in [Calls -> Asks \cup {None}]
    /\ pc \in [Calls -> Waits]
    /\ known \in [Calls -> BOOLEAN]
    /\ aim \in [Calls -> Daemons \cup {None}]
    /\ work \in [Calls -> Works]
    /\ outcome \in [Calls -> AnswerSet \cup {None}]
    /\ slots \subseteq Clients \X Daemons
    /\ queue \in [Daemons -> Calls \cup {None}]
    /\ sent \subseteq Calls /\ receipts \subseteq Calls
    /\ ran \in [Calls -> SUBSET (Daemons \X (1 .. MaxUpsets + 1))]
    /\ reply \in [Calls -> AnswerSet \cup {None}]

WorldTypes ==
    /\ bridge \in [Daemons -> [up : BOOLEAN, generation : 1 .. MaxUpsets + 1]]
    /\ table \in [Slaves -> [reach : BOOLEAN, has : BOOLEAN] \cup {None}]
    /\ modal \in [Daemons -> BOOLEAN]
    /\ gone \subseteq Clients
    /\ upsets \in 0 .. MaxUpsets

Unrun(c) == ran[c] = {} /\ c \notin sent

\* Where call c stands, and what that says of where it goes, what was run and what was told.
CallAsked(c) ==
    /\ pc[c] # "new" => ask[c] \in Asks /\ ask[c].tool \in MayAsk[c]
    /\ ask[c] # None => ask[c].tool \in MayAsk[c]
    /\ aim[c] # None => pc[c] # "new" /\ ask[c].names \in {None, aim[c]}
    /\ pc[c] \in {"new", "resolve", "entry"} => work[c] = "none"
    /\ pc[c] = "here" => aim[c] = Home
    /\ pc[c] \in {"entry", "flight"} => aim[c] \in Slaves
    /\ pc[c] = "resolve" => ask[c].names = None
    /\ work[c] # "none" => aim[c] \in Daemons

CallRan(c) ==
    /\ work[c] \in {"begin", "enqueue"} \/ (work[c] = "none" /\ pc[c] # "end") => Unrun(c)
    /\ \A r \in ran[c] : r[1] = aim[c]
    /\ c \in sent => ran[c] = {} /\ aim[c] \in Daemons
    /\ ran[c] # {} => aim[c] \in Daemons /\ \E r \in ran[c] : ran[c] = {r}

\* An answer says what happened.
SaysTrue(c, answer) ==
    /\ answer \in AnswerSet
    /\ answer.kind \in Refusals => Unrun(c)
    /\ answer.kind \in {"ok", "failed"} => ran[c] # {}

CallTold(c) ==
    /\ work[c] = "answer" => SaysTrue(c, outcome[c]) /\ ~outcome[c].routed
    /\ reply[c] # None =>
         /\ pc[c] = "end" /\ SaysTrue(c, reply[c])
         /\ reply[c].kind \in Refusals => work[c] = "none"
         /\ reply[c].kind = "ok" => (reply[c].routed <=> aim[c] # Home)

CallIsRight(c) == CallAsked(c) /\ CallRan(c) /\ CallTold(c)

SlotsAreHeld ==
    /\ \A c \in Calls : InFlight(c) /\ CallerOf[c] \notin gone => Slot(c) \in slots
    /\ \A c, d \in Calls :
         InFlight(c) /\ InFlight(d) /\ Slot(c) = Slot(d) /\ CallerOf[c] \notin gone => c = d
    /\ \A s \in slots : \E c \in Calls : InFlight(c) /\ Slot(c) = s

RoutingInv ==
    /\ CallTypes /\ WorldTypes /\ SlotsAreHeld
    /\ \A c \in Calls : CallIsRight(c)

\* A call nothing happens to.
SameCall(c) ==
    /\ ask'[c] = ask[c] /\ pc'[c] = pc[c] /\ aim'[c] = aim[c] /\ work'[c] = work[c]
    /\ outcome'[c] = outcome[c] /\ ran'[c] = ran[c] /\ reply'[c] = reply[c]
    /\ c \in sent' => c \in sent

LEMMA SameCallIsRight ==
    ASSUME NEW c, CallIsRight(c), SameCall(c) PROVE CallIsRight(c)'
<1>1. CallAsked(c)'
  BY DEF CallIsRight, CallAsked, SameCall
<1>2. CallRan(c)'
  BY DEF CallIsRight, CallRan, SameCall, Unrun
<1>3. CallTold(c)'
  BY DEF CallIsRight, CallTold, SameCall, Unrun, SaysTrue
<1> QED
  BY <1>1, <1>2, <1>3 DEF CallIsRight

\* Nobody enters or leaves a slot.
LEMMA SameSlotsAreHeld ==
    ASSUME SlotsAreHeld, UNCHANGED <<slots, gone>>,
           \A c \in Calls : /\ InFlight(c)' <=> InFlight(c)
                            /\ InFlight(c) => aim'[c] = aim[c]
    PROVE  SlotsAreHeld'
<1>1. \A c \in Calls : InFlight(c) => Slot(c)' = Slot(c)
  BY DEF Slot
<1> HIDE DEF InFlight, Slot
<1>2. ASSUME NEW s \in slots' PROVE \E c \in Calls : InFlight(c)' /\ Slot(c)' = s
  <2>1. PICK c \in Calls : InFlight(c) /\ Slot(c) = s
    BY <1>2 DEF SlotsAreHeld
  <2> QED
    BY <2>1, <1>1
<1> QED
  BY <1>1, <1>2 DEF SlotsAreHeld

\* Call c takes a free slot.
LEMMA TakenSlotIsHeld ==
    ASSUME SlotsAreHeld, gone' = gone, NEW c \in Calls, BeginSlot(c), InFlight(c)', ~InFlight(c),
           \A d \in Calls : /\ aim'[d] = aim[d]
                            /\ d # c => (InFlight(d)' <=> InFlight(d))
    PROVE  SlotsAreHeld'
<1>1. \A d \in Calls : Slot(d)' = Slot(d)
  BY DEF Slot
<1>2. Slot(c) \notin slots /\ slots' = slots \cup {Slot(c)}
  BY DEF BeginSlot, TakeSlot
<1>3. \A d \in Calls : Slot(d) = Slot(c) => CallerOf[d] = CallerOf[c]
  BY DEF Slot
<1> HIDE DEF InFlight, Slot
<1>4. ASSUME NEW s \in slots' PROVE \E d \in Calls : InFlight(d)' /\ Slot(d)' = s
  <2>1. CASE s = Slot(c)
    BY <1>1, <2>1
  <2>2. CASE s \in slots
    <3>1. PICK d \in Calls : InFlight(d) /\ Slot(d) = s
      BY <2>2 DEF SlotsAreHeld
    <3> QED
      BY <3>1, <1>1
  <2> QED
    BY <1>2, <2>1, <2>2
<1>5. ASSUME NEW d \in Calls, InFlight(d)', CallerOf[d] \notin gone PROVE Slot(d) \in slots'
  BY <1>2, <1>5 DEF SlotsAreHeld
<1>6. ASSUME NEW d \in Calls, NEW e \in Calls, InFlight(d)', InFlight(e)', Slot(d) = Slot(e),
             CallerOf[d] \notin gone
      PROVE  d = e
  <2>1. CASE d # c /\ e # c
    BY <1>6, <2>1 DEF SlotsAreHeld
  <2>2. CASE d = c /\ e # c
    <3>1. InFlight(e) /\ CallerOf[e] \notin gone
      BY <1>3, <1>6, <2>2
    <3> QED
      BY <1>2, <1>6, <2>2, <3>1 DEF SlotsAreHeld
  <2>3. CASE d # c /\ e = c
    BY <1>2, <1>6, <2>3 DEF SlotsAreHeld
  <2> QED
    BY <2>1, <2>2, <2>3
<1> QED
  BY <1>1, <1>4, <1>5, <1>6 DEF SlotsAreHeld

\* Call c ends and gives its slot back.
LEMMA FreedSlotIsFree ==
    ASSUME SlotsAreHeld, gone' = gone, NEW c \in Calls, FreeSlot(c), ~InFlight(c)', InFlight(c),
           \A d \in Calls : /\ aim'[d] = aim[d]
                            /\ d # c => (InFlight(d)' <=> InFlight(d))
    PROVE  SlotsAreHeld'
<1>1. \A d \in Calls : Slot(d)' = Slot(d)
  BY DEF Slot
<1>2. slots' = slots \ {Slot(c)}
  BY DEF FreeSlot
<1> HIDE DEF InFlight, Slot
<1>3. ASSUME NEW s \in slots' PROVE \E d \in Calls : InFlight(d)' /\ Slot(d)' = s
  <2>1. PICK d \in Calls : InFlight(d) /\ Slot(d) = s
    BY <1>2 DEF SlotsAreHeld
  <2> QED
    BY <2>1, <1>1, <1>2
<1>4. ASSUME NEW d \in Calls, InFlight(d)', CallerOf[d] \notin gone PROVE Slot(d) \in slots'
  <2>1. d # c /\ InFlight(d)
    BY <1>4
  <2>2. Slot(d) # Slot(c) /\ Slot(d) \in slots
    BY <1>4, <2>1 DEF SlotsAreHeld
  <2> QED
    BY <1>2, <2>2
<1>5. ASSUME NEW d \in Calls, NEW e \in Calls, InFlight(d)', InFlight(e)', Slot(d) = Slot(e),
             CallerOf[d] \notin gone
      PROVE  d = e
  BY <1>5 DEF SlotsAreHeld
<1> QED
  BY <1>1, <1>3, <1>4, <1>5 DEF SlotsAreHeld

LEMMA PlainIsAnswer ==
    ASSUME NEW kind \in AnswerKinds
    PROVE  Plain(kind) \in AnswerSet /\ Plain(kind).kind = kind /\ ~Plain(kind).routed
<1>1. 0 \in 0 .. MaxUpsets + 1
  BY RoutingAssumption
<1> QED
  BY <1>1 DEF Plain, AnswerSet

LEMMA MappedIsAnswer ==
    ASSUME NEW tool \in BridgedTools, NEW env \in Envelopes
    PROVE  /\ Mapped(tool, env) \in AnswerSet /\ ~Mapped(tool, env).routed
           /\ Mapped(tool, env).kind \in {"ok", "failed"}
<1>1. CASE env.ok
  BY <1>1, PlainIsAnswer DEF Mapped, AnswerKinds
<1>2. CASE ~env.ok
  <2> DEFINE m == MapFailure(tool, env)
  <2>1. tool.maps \in {"script", "perception", "timing", "inspect", "editor", "help", "catalog", "mutate"}
    BY DEF BridgedTools, Tool, ExecutePython, Capture, CaptureJob, SampleData, ScriptSource,
           ParamInterface, CompareNodes, ProjectSnapshotTool, Record, Inspect, MutateNodes, ApiHelp,
           EditorContext
  <2>2. Listed(env) \in {"own", "default"} /\ InCatalog(env) \in {"own", "other", "default"}
    BY DEF Listed, InCatalog, Envelopes
  <2>3. m.code \in {"own", "other", "default"} /\ m.data \in BOOLEAN
    BY <2>1, <2>2 DEF MapFailure, MapScript, MapPerception, MapTiming, MapInspect, MapEditor,
           MapHelp, MapCatalog, MapMutate
  <2>4. Plain("failed") \in AnswerSet /\ Plain("failed").kind = "failed" /\ ~Plain("failed").routed
    BY PlainIsAnswer DEF AnswerKinds
  <2>5. Mapped(tool, env) = [Plain("failed") EXCEPT !.code = m.code, !.data = m.data]
    BY <1>2 DEF Mapped
  <2> HIDE DEF m
  <2> QED
    BY <2>3, <2>4, <2>5 DEF AnswerSet
<1> QED
  BY <1>1, <1>2

LEMMA OneCallMoves ==
    ASSUME RoutingInv, UNCHANGED worldVars, CallTypes', SlotsAreHeld',
           NEW c \in Calls, CallIsRight(c)', \A d \in Calls : d # c => SameCall(d)
    PROVE  RoutingInv'
<1>1. WorldTypes'
  BY DEF RoutingInv, WorldTypes, worldVars
<1>2. \A d \in Calls : CallIsRight(d)'
  BY SameCallIsRight DEF RoutingInv
<1> QED
  BY <1>1, <1>2 DEF RoutingInv

\* A call that is answered before it took a slot.
LEMMA EarlyReply ==
    ASSUME RoutingInv, NEW c \in Calls, NEW kind \in AnswerKinds, Refuse(c, kind),
           pc[c] \in {"new", "resolve", "entry", "here"}, work[c] = "none",
           ask' \in [Calls -> Asks \cup {None}], ask'[c] \in Asks, ask'[c].tool \in MayAsk[c],
           pc[c] # "new" => ask'[c] = ask[c],
           \A d \in Calls : d # c => ask'[d] = ask[d],
           kind # "ok" /\ kind # "failed", known' \in [Calls -> BOOLEAN],
           UNCHANGED <<aim, work, outcome, slots, queue, sent, ran, receipts, worldVars>>
    PROVE  RoutingInv'
<1>1. /\ pc' = [pc EXCEPT ![c] = "end"] /\ reply' = [reply EXCEPT ![c] = Plain(kind)]
      /\ pc'[c] = "end" /\ reply'[c] = Plain(kind)
  BY DEF Refuse, GiveReply, RoutingInv, CallTypes
<1>2. CallTypes'
  BY <1>1, PlainIsAnswer DEF RoutingInv, CallTypes, Waits
<1>3. \A d \in Calls : d # c => SameCall(d)
  BY <1>1 DEF SameCall, RoutingInv, CallTypes
<1>4. CallIsRight(c)'
  <2>1. CallAsked(c) /\ CallRan(c) /\ CallTold(c)
    BY DEF RoutingInv, CallIsRight
  <2>2. CallAsked(c)'
    BY <1>1, <2>1 DEF CallAsked, Asks
  <2>3. CallRan(c)'
    BY <1>1, <2>1 DEF CallRan, Unrun
  <2>4. Unrun(c) /\ Unrun(c)'
    BY <2>1 DEF CallRan, Unrun
  <2>5. CallTold(c)'
    BY <1>1, <2>4, PlainIsAnswer DEF CallTold, SaysTrue
  <2> QED
    BY <2>2, <2>3, <2>5 DEF CallIsRight
<1>5. SlotsAreHeld'
  <2>1. \A d \in Calls : InFlight(d)' <=> InFlight(d)
    BY <1>1 DEF InFlight, RoutingInv, CallTypes
  <2> QED
    BY <2>1, SameSlotsAreHeld DEF RoutingInv, worldVars
<1> QED
  BY <1>2, <1>3, <1>4, <1>5, OneCallMoves

LEMMA ComeKeepsInv == ASSUME RoutingInv, NEW c \in Calls, Come(c) PROVE RoutingInv'
<1>1. PICK tool \in MayAsk[c], daemon \in MayName[c] :
         /\ ask' = [ask EXCEPT ![c] = [tool |-> tool, names |-> daemon]]
         /\ \/ \E kind \in {"args", "palette"} : Refuse(c, kind) /\ UNCHANGED <<known, aim>>
            \/ /\ daemon = None
               /\ pc' = [pc EXCEPT ![c] = "resolve"]
               /\ \E has \in {TRUE, bridge[Home].up} : known' = [known EXCEPT ![c] = has]
               /\ UNCHANGED <<aim, reply>>
            \/ /\ daemon # None
               /\ pc' = [pc EXCEPT ![c] = IF daemon = Home THEN "here" ELSE "entry"]
               /\ aim' = [aim EXCEPT ![c] = daemon]
               /\ UNCHANGED <<known, reply>>
  BY DEF Come
<1>2. pc[c] = "new" /\ UNCHANGED <<work, outcome, slots, queue, sent, ran, receipts, worldVars>>
  BY DEF Come
<1>3. tool \in BridgedTools /\ daemon \in Daemons \cup {None}
  BY RoutingAssumption
<1>4. /\ ask' \in [Calls -> Asks \cup {None}] /\ ask'[c] \in Asks /\ ask'[c].tool = tool
      /\ ask'[c].names = daemon /\ \A d \in Calls : d # c => ask'[d] = ask[d]
  <2>1. [tool |-> tool, names |-> daemon] \in Asks
    BY <1>3 DEF Asks
  <2> QED
    BY <1>1, <2>1 DEF RoutingInv, CallTypes
<1>5. CallAsked(c) /\ CallRan(c) /\ CallTold(c) /\ work[c] = "none" /\ aim[c] = None
  BY <1>2 DEF RoutingInv, CallIsRight, CallAsked
<1>6. CASE \E kind \in {"args", "palette"} : Refuse(c, kind) /\ UNCHANGED <<known, aim>>
  <2>1. PICK kind \in {"args", "palette"} : Refuse(c, kind) /\ UNCHANGED <<known, aim>>
    BY <1>6
  <2>2. kind \in AnswerKinds /\ known \in [Calls -> BOOLEAN]
    BY DEF AnswerKinds, Refusals, RoutingInv, CallTypes
  <2> QED
    BY <1>2, <1>4, <1>5, <2>1, <2>2, EarlyReply
<1>7. CASE reply' = reply /\ pc' = [pc EXCEPT ![c] = "resolve"] /\ aim' = aim /\ daemon = None
           /\ \E has \in {TRUE, bridge[Home].up} : known' = [known EXCEPT ![c] = has]
  <2>1. pc'[c] = "resolve" /\ pc' \in [Calls -> Waits] /\ \A d \in Calls : d # c => pc'[d] = pc[d]
    BY <1>7 DEF RoutingInv, CallTypes, Waits
  <2>2. known' \in [Calls -> BOOLEAN]
    BY <1>7 DEF RoutingInv, CallTypes, WorldTypes, Daemons
  <2>3. CallTypes'
    BY <1>2, <1>4, <1>7, <2>1, <2>2 DEF RoutingInv, CallTypes
  <2>4. CallIsRight(c)'
    <3>1. CallAsked(c)'
      BY <1>1, <1>2, <1>4, <1>5, <1>7, <2>1 DEF CallAsked
    <3>2. CallRan(c)' /\ CallTold(c)'
      BY <1>2, <1>5, <1>7, <2>1 DEF CallRan, CallTold, Unrun, SaysTrue
    <3> QED
      BY <3>1, <3>2 DEF CallIsRight
  <2>5. \A d \in Calls : d # c => SameCall(d)
    BY <1>2, <1>4, <1>7, <2>1 DEF SameCall
  <2>6. SlotsAreHeld'
    <3>1. \A d \in Calls : InFlight(d)' <=> InFlight(d)
      BY <1>2, <2>1 DEF InFlight
    <3> QED
      BY <1>2, <1>7, <3>1, SameSlotsAreHeld DEF RoutingInv, worldVars
  <2> QED
    BY <1>2, <2>3, <2>4, <2>5, <2>6, OneCallMoves
<1>8. CASE /\ reply' = reply /\ pc' = [pc EXCEPT ![c] = IF daemon = Home THEN "here" ELSE "entry"]
           /\ aim' = [aim EXCEPT ![c] = daemon] /\ daemon # None /\ known' = known
  <2>1. pc'[c] \in {"here", "entry"} /\ pc' \in [Calls -> Waits] /\ \A d \in Calls : d # c => pc'[d] = pc[d]
        /\ (pc'[c] = "here" <=> daemon = Home)
    BY <1>8 DEF RoutingInv, CallTypes, Waits
  <2>2. aim' \in [Calls -> Daemons \cup {None}] /\ aim'[c] = daemon /\ \A d \in Calls : d # c => aim'[d] = aim[d]
    BY <1>3, <1>8 DEF RoutingInv, CallTypes
  <2>3. CallTypes'
    BY <1>2, <1>4, <1>8, <2>1, <2>2 DEF RoutingInv, CallTypes
  <2>4. CallIsRight(c)'
    <3>1. CallAsked(c)'
      BY <1>1, <1>2, <1>3, <1>4, <1>5, <1>8, <2>1, <2>2 DEF CallAsked, Daemons
    <3>2. Unrun(c) /\ reply[c] = None
      BY <1>2, <1>5 DEF CallRan, CallTold
    <3>3. CallRan(c)' /\ CallTold(c)'
      BY <1>2, <1>5, <1>8, <3>2 DEF CallRan, CallTold, Unrun, SaysTrue
    <3> QED
      BY <3>1, <3>3 DEF CallIsRight
  <2>5. \A d \in Calls : d # c => SameCall(d)
    BY <1>2, <1>4, <1>8, <2>1, <2>2 DEF SameCall
  <2>6. SlotsAreHeld'
    <3>1. \A d \in Calls : InFlight(d)' <=> InFlight(d)
      BY <1>2, <1>5, <2>1 DEF InFlight
    <3>2. \A d \in Calls : InFlight(d) => d # c
      BY <1>2 DEF InFlight
    <3> QED
      BY <1>2, <2>2, <3>1, <3>2, SameSlotsAreHeld DEF RoutingInv, worldVars
  <2> QED
    BY <1>2, <2>3, <2>4, <2>5, <2>6, OneCallMoves
<1> QED
  BY <1>1, <1>6, <1>7, <1>8

LEMMA ResolveKeepsInv == ASSUME RoutingInv, NEW c \in Calls, Resolve(c) PROVE RoutingInv'
<1>1. /\ pc[c] = "resolve" /\ known' = [known EXCEPT ![c] = FALSE]
      /\ UNCHANGED <<ask, work, outcome, slots, queue, sent, ran, receipts, worldVars>>
      /\ \/ Refuse(c, "ambiguous") /\ UNCHANGED aim
         \/ /\ Cardinality(Hits) = 1
            /\ pc' = [pc EXCEPT ![c] = "entry"]
            /\ aim' = [aim EXCEPT ![c] = CHOOSE s \in Hits : TRUE]
            /\ UNCHANGED reply
         \/ /\ pc' = [pc EXCEPT ![c] = "here"]
            /\ aim' = [aim EXCEPT ![c] = Home]
            /\ UNCHANGED reply
  BY DEF Resolve
<1>2. /\ CallAsked(c) /\ CallRan(c) /\ CallTold(c) /\ work[c] = "none"
      /\ ask[c].names = None /\ ask[c] \in Asks /\ ask[c].tool \in MayAsk[c] /\ Unrun(c) /\ reply[c] = None
  BY <1>1 DEF RoutingInv, CallIsRight, CallAsked, CallRan, CallTold
<1>3. CASE Refuse(c, "ambiguous") /\ UNCHANGED aim
  <2>1. /\ "ambiguous" \in AnswerKinds /\ ask \in [Calls -> Asks \cup {None}]
        /\ known' \in [Calls -> BOOLEAN]
    BY <1>1 DEF AnswerKinds, Refusals, RoutingInv, CallTypes
  <2> QED
    BY <1>1, <1>2, <1>3, <2>1, EarlyReply
<1>4. ASSUME NEW w \in {"entry", "here"}, NEW d \in Daemons, w = "here" <=> d = Home,
             pc' = [pc EXCEPT ![c] = w], aim' = [aim EXCEPT ![c] = d], reply' = reply
      PROVE  RoutingInv'
  <2>1. /\ pc'[c] = w /\ pc' \in [Calls -> Waits] /\ aim'[c] = d
        /\ \A e \in Calls : e # c => pc'[e] = pc[e] /\ aim'[e] = aim[e]
    BY <1>4 DEF RoutingInv, CallTypes, Waits
  <2>2. CallTypes'
    BY <1>1, <1>4, <2>1 DEF RoutingInv, CallTypes
  <2>3. CallIsRight(c)'
    <3>1. CallAsked(c)'
      BY <1>1, <1>2, <1>4, <2>1 DEF CallAsked, Daemons
    <3>2. CallRan(c)' /\ CallTold(c)'
      BY <1>1, <1>2, <1>4 DEF CallRan, CallTold, Unrun, SaysTrue
    <3> QED
      BY <3>1, <3>2 DEF CallIsRight
  <2>4. \A e \in Calls : e # c => SameCall(e)
    BY <1>1, <1>4, <2>1 DEF SameCall
  <2>5. SlotsAreHeld'
    <3>1. \A e \in Calls : InFlight(e)' <=> InFlight(e)
      BY <1>1, <1>2, <2>1 DEF InFlight
    <3>2. \A e \in Calls : InFlight(e) => e # c
      BY <1>1 DEF InFlight
    <3> QED
      BY <1>1, <2>1, <3>1, <3>2, SameSlotsAreHeld DEF RoutingInv, worldVars
  <2> QED
    BY <1>1, <2>2, <2>3, <2>4, <2>5, OneCallMoves
<1>5. CASE /\ Cardinality(Hits) = 1 /\ pc' = [pc EXCEPT ![c] = "entry"]
           /\ aim' = [aim EXCEPT ![c] = CHOOSE s \in Hits : TRUE] /\ UNCHANGED reply
  <2>1. Hits # {}
    BY <1>5, FS_EmptySet
  <2>2. (CHOOSE s \in Hits : TRUE) \in Slaves
    BY <2>1 DEF Hits
  <2> DEFINE s == CHOOSE s \in Hits : TRUE
  <2> HIDE DEF s
  <2>3. s \in Daemons /\ s # Home
    BY <2>2, RoutingAssumption DEF Daemons, s
  <2>4. aim' = [aim EXCEPT ![c] = s]
    BY <1>5 DEF s
  <2> QED
    BY <1>4, <1>5, <2>3, <2>4
<1>6. CASE pc' = [pc EXCEPT ![c] = "here"] /\ aim' = [aim EXCEPT ![c] = Home] /\ UNCHANGED reply
  BY <1>4, <1>6 DEF Daemons
<1> QED
  BY <1>1, <1>3, <1>5, <1>6

\* A call takes its slot, or is refused.
LEMMA SendToSlaveKeepsInv == ASSUME RoutingInv, NEW c \in Calls, SendToSlave(c) PROVE RoutingInv'
<1>1. /\ pc[c] = "entry"
      /\ UNCHANGED <<ask, known, aim, outcome, queue, sent, ran, receipts, worldVars>>
      /\ \/ \E kind \in {"unreachable", "dialog", "session_busy"} :
              Refuse(c, kind) /\ UNCHANGED <<slots, work>>
         \/ /\ BeginSlot(c)
            /\ pc' = [pc EXCEPT ![c] = "flight"]
            /\ work' \in {work, [work EXCEPT ![c] = "begin"]}
            /\ UNCHANGED reply
  BY DEF SendToSlave
<1>2. /\ CallAsked(c) /\ CallRan(c) /\ CallTold(c) /\ work[c] = "none" /\ aim[c] \in Slaves
      /\ ask[c] \in Asks /\ ask[c].tool \in MayAsk[c] /\ Unrun(c) /\ reply[c] = None
  BY <1>1 DEF RoutingInv, CallIsRight, CallAsked, CallRan, CallTold
<1>3. ASSUME NEW kind \in {"unreachable", "dialog", "session_busy"},
             Refuse(c, kind) /\ UNCHANGED <<slots, work>>
      PROVE  RoutingInv'
  <2>1. /\ kind \in AnswerKinds /\ ask \in [Calls -> Asks \cup {None}]
        /\ known' \in [Calls -> BOOLEAN]
    BY <1>1 DEF AnswerKinds, Refusals, RoutingInv, CallTypes
  <2> QED
    BY <1>1, <1>2, <1>3, <2>1, EarlyReply
<1>4. CASE /\ BeginSlot(c) /\ pc' = [pc EXCEPT ![c] = "flight"]
           /\ work' \in {work, [work EXCEPT ![c] = "begin"]} /\ UNCHANGED reply
  <2>1. /\ pc'[c] = "flight" /\ pc' \in [Calls -> Waits] /\ work' \in [Calls -> Works]
        /\ work'[c] \in {"none", "begin"}
        /\ \A d \in Calls : d # c => pc'[d] = pc[d] /\ work'[d] = work[d]
    BY <1>2, <1>4 DEF RoutingInv, CallTypes, Waits, Works
  <2>2. slots' \subseteq Clients \X Daemons
    <3>1. CallerOf[c] \in Clients /\ aim[c] \in Daemons
      BY <1>2, RoutingAssumption DEF Daemons
    <3>2. Slot(c) \in Clients \X Daemons
      BY ONLY <3>1 DEF Slot
    <3>3. slots' = slots \cup {Slot(c)} /\ slots \subseteq Clients \X Daemons
      BY <1>4 DEF BeginSlot, TakeSlot, RoutingInv, CallTypes
    <3> QED
      BY <3>2, <3>3
  <2>3. CallTypes'
    BY <1>1, <1>4, <2>1, <2>2 DEF RoutingInv, CallTypes
  <2>4. CallIsRight(c)'
    <3>1. CallAsked(c)'
      BY <1>1, <1>2, <2>1 DEF CallAsked, Daemons
    <3>2. CallRan(c)' /\ CallTold(c)'
      BY <1>1, <1>2, <1>4, <2>1 DEF CallRan, CallTold, Unrun, SaysTrue
    <3> QED
      BY <3>1, <3>2 DEF CallIsRight
  <2>5. \A d \in Calls : d # c => SameCall(d)
    BY <1>1, <1>4, <2>1 DEF SameCall
  <2>6. SlotsAreHeld'
    <3>1. ~InFlight(c) /\ InFlight(c)' /\ \A d \in Calls : d # c => (InFlight(d)' <=> InFlight(d))
      BY <1>1, <2>1 DEF InFlight
    <3>2. gone' = gone /\ \A d \in Calls : aim'[d] = aim[d]
      BY <1>1 DEF worldVars
    <3> QED
      BY <1>4, <3>1, <3>2, TakenSlotIsHeld DEF RoutingInv
  <2> QED
    BY <1>1, <2>3, <2>4, <2>5, <2>6, OneCallMoves
<1> QED
  BY <1>1, <1>3, <1>4

LEMMA StartHereKeepsInv == ASSUME RoutingInv, NEW c \in Calls, StartHere(c) PROVE RoutingInv'
<1>1. /\ pc[c] = "here" /\ work[c] = "none"
      /\ UNCHANGED <<ask, known, aim, outcome, queue, sent, ran, receipts, worldVars>>
      /\ \/ \E kind \in {"dialog", "session_busy"} : Refuse(c, kind) /\ UNCHANGED <<slots, work>>
         \/ /\ BeginSlot(c)
            /\ work' = [work EXCEPT ![c] = "enqueue"]
            /\ UNCHANGED <<pc, reply>>
  BY DEF StartHere
<1>2. /\ CallAsked(c) /\ CallRan(c) /\ CallTold(c) /\ aim[c] = Home
      /\ ask[c] \in Asks /\ ask[c].tool \in MayAsk[c] /\ Unrun(c) /\ reply[c] = None
  BY <1>1 DEF RoutingInv, CallIsRight, CallAsked, CallRan, CallTold
<1>3. ASSUME NEW kind \in {"dialog", "session_busy"}, Refuse(c, kind) /\ UNCHANGED <<slots, work>>
      PROVE  RoutingInv'
  <2>1. /\ kind \in AnswerKinds /\ ask \in [Calls -> Asks \cup {None}]
        /\ known' \in [Calls -> BOOLEAN]
    BY <1>1 DEF AnswerKinds, Refusals, RoutingInv, CallTypes
  <2> QED
    BY <1>1, <1>2, <1>3, <2>1, EarlyReply
<1>4. CASE BeginSlot(c) /\ work' = [work EXCEPT ![c] = "enqueue"] /\ UNCHANGED <<pc, reply>>
  <2>1. /\ work' \in [Calls -> Works] /\ work'[c] = "enqueue"
        /\ \A d \in Calls : d # c => work'[d] = work[d]
    BY <1>4 DEF RoutingInv, CallTypes, Works
  <2>2. slots' \subseteq Clients \X Daemons
    <3>1. CallerOf[c] \in Clients /\ aim[c] \in Daemons
      BY <1>2, RoutingAssumption DEF Daemons
    <3>2. Slot(c) \in Clients \X Daemons
      BY ONLY <3>1 DEF Slot
    <3>3. slots' = slots \cup {Slot(c)} /\ slots \subseteq Clients \X Daemons
      BY <1>4 DEF BeginSlot, TakeSlot, RoutingInv, CallTypes
    <3> QED
      BY <3>2, <3>3
  <2>3. CallTypes'
    BY <1>1, <1>4, <2>1, <2>2 DEF RoutingInv, CallTypes
  <2>4. CallIsRight(c)'
    <3>1. CallAsked(c)'
      BY <1>1, <1>2, <1>4, <2>1 DEF CallAsked, Daemons
    <3>2. CallRan(c)' /\ CallTold(c)'
      BY <1>1, <1>2, <1>4, <2>1 DEF CallRan, CallTold, Unrun, SaysTrue
    <3> QED
      BY <3>1, <3>2 DEF CallIsRight
  <2>5. \A d \in Calls : d # c => SameCall(d)
    BY <1>1, <1>4, <2>1 DEF SameCall
  <2>6. SlotsAreHeld'
    <3>1. ~InFlight(c) /\ InFlight(c)' /\ \A d \in Calls : d # c => (InFlight(d)' <=> InFlight(d))
      BY <1>1, <1>4, <2>1 DEF InFlight
    <3>2. gone' = gone /\ \A d \in Calls : aim'[d] = aim[d]
      BY <1>1 DEF worldVars
    <3> QED
      BY <1>4, <3>1, <3>2, TakenSlotIsHeld DEF RoutingInv
  <2> QED
    BY <1>1, <2>3, <2>4, <2>5, <2>6, OneCallMoves
<1> QED
  BY <1>1, <1>3, <1>4

\* The dispatch comes to an answer that is true.
LEMMA WorkAnswers ==
    ASSUME RoutingInv, NEW c \in Calls, work[c] # "none",
           NEW a, SaysTrue(c, a), ~a.routed, Comes(c, a),
           queue' \in [Daemons -> Calls \cup {None}],
           UNCHANGED <<ask, pc, known, aim, slots, sent, ran, receipts, reply, worldVars>>
    PROVE  RoutingInv'
<1>1. /\ work' \in [Calls -> Works] /\ work'[c] = "answer" /\ \A d \in Calls : d # c => work'[d] = work[d]
      /\ outcome' \in [Calls -> AnswerSet \cup {None}] /\ outcome'[c] = a
      /\ \A d \in Calls : d # c => outcome'[d] = outcome[d]
  BY DEF RoutingInv, CallTypes, Comes, SaysTrue, Works
<1>2. CallTypes'
  BY <1>1 DEF RoutingInv, CallTypes
<1>3. \A d \in Calls : d # c => SameCall(d)
  BY <1>1 DEF SameCall
<1>4. CallIsRight(c)'
  <2>1. CallAsked(c) /\ CallRan(c) /\ CallTold(c)
    BY DEF RoutingInv, CallIsRight
  <2>2. CallAsked(c)'
    BY <1>1, <2>1 DEF CallAsked
  <2>3. CallRan(c)'
    BY <1>1, <2>1 DEF CallRan, Unrun
  <2>4. CallTold(c)'
    BY <1>1, <2>1 DEF CallTold, SaysTrue, Unrun
  <2> QED
    BY <2>2, <2>3, <2>4 DEF CallIsRight
<1>5. SlotsAreHeld'
  <2>1. \A d \in Calls : InFlight(d)' <=> InFlight(d)
    BY <1>1 DEF InFlight
  <2> QED
    BY <2>1, SameSlotsAreHeld DEF RoutingInv, worldVars
<1> QED
  BY <1>2, <1>3, <1>4, <1>5, OneCallMoves

LEMMA RefusalIsTrue ==
    ASSUME NEW c, NEW kind \in Refusals, Unrun(c)
    PROVE  SaysTrue(c, Plain(kind)) /\ ~Plain(kind).routed
<1>1. kind \in AnswerKinds /\ kind \notin {"ok", "failed"}
  BY DEF AnswerKinds, Refusals
<1> QED
  BY <1>1, PlainIsAnswer DEF SaysTrue

LEMMA LostIsTrue ==
    ASSUME NEW c, NEW kind \in {"lost", "timeout"}
    PROVE  SaysTrue(c, Plain(kind)) /\ ~Plain(kind).routed
<1>1. kind \in AnswerKinds /\ kind \notin Refusals /\ kind \notin {"ok", "failed"}
  BY DEF AnswerKinds, Refusals
<1> QED
  BY <1>1, PlainIsAnswer DEF SaysTrue

\* The dispatch goes on; TouchDesigner is sent the call at most then.
LEMMA WorkGoesOn ==
    ASSUME RoutingInv, NEW c \in Calls, work[c] \in {"begin", "enqueue"},
           NEW w \in {"enqueue", "call"}, work' = [work EXCEPT ![c] = w],
           sent' = IF w = "call" THEN sent \cup {c} ELSE sent,
           queue' \in [Daemons -> Calls \cup {None}], receipts' \subseteq Calls,
           UNCHANGED <<ask, pc, known, aim, outcome, slots, ran, reply, worldVars>>
    PROVE  RoutingInv'
<1>1. /\ work' \in [Calls -> Works] /\ work'[c] = w /\ \A d \in Calls : d # c => work'[d] = work[d]
      /\ sent' \subseteq Calls
  BY DEF RoutingInv, CallTypes, Works
<1>2. CallTypes'
  BY <1>1 DEF RoutingInv, CallTypes
<1>3. \A d \in Calls : d # c => SameCall(d)
  BY <1>1 DEF SameCall
<1>4. CallIsRight(c)'
  <2>1. CallAsked(c) /\ CallRan(c) /\ CallTold(c) /\ Unrun(c)
    BY DEF RoutingInv, CallIsRight, CallRan
  <2>2. CallAsked(c)'
    BY <1>1, <2>1 DEF CallAsked
  <2>3. CallRan(c)'
    BY <1>1, <2>1 DEF CallRan, CallAsked, Unrun
  <2>4. CallTold(c)'
    BY <1>1, <2>1 DEF CallTold, SaysTrue, Unrun
  <2> QED
    BY <2>2, <2>3, <2>4 DEF CallIsRight
<1>5. SlotsAreHeld'
  <2>1. \A d \in Calls : InFlight(d)' <=> InFlight(d)
    BY <1>1 DEF InFlight
  <2> QED
    BY <2>1, SameSlotsAreHeld DEF RoutingInv, worldVars
<1> QED
  BY <1>2, <1>3, <1>4, <1>5, OneCallMoves

LEMMA StartThereKeepsInv == ASSUME RoutingInv, NEW c \in Calls, StartThere(c) PROVE RoutingInv'
<1>1. /\ work[c] = "begin"
      /\ UNCHANGED <<ask, pc, known, aim, slots, queue, sent, ran, receipts, reply, worldVars>>
      /\ \/ \E kind \in {"palette", "dialog"} : Comes(c, Plain(kind))
         \/ work' = [work EXCEPT ![c] = "enqueue"] /\ UNCHANGED outcome
  BY DEF StartThere
<1>2. Unrun(c) /\ queue \in [Daemons -> Calls \cup {None}] /\ receipts \subseteq Calls
  BY <1>1 DEF RoutingInv, CallIsRight, CallRan, CallTypes
<1>3. ASSUME NEW kind \in {"palette", "dialog"}, Comes(c, Plain(kind)) PROVE RoutingInv'
  <2>1. SaysTrue(c, Plain(kind)) /\ ~Plain(kind).routed
    BY <1>2, RefusalIsTrue DEF Refusals
  <2> QED
    BY <1>1, <1>2, <1>3, <2>1, WorkAnswers
<1>4. CASE work' = [work EXCEPT ![c] = "enqueue"] /\ UNCHANGED outcome
  BY <1>1, <1>2, <1>4, WorkGoesOn
<1> QED
  BY <1>1, <1>3, <1>4

LEMMA EnqueueKeepsInv == ASSUME RoutingInv, NEW c \in Calls, Enqueue(c) PROVE RoutingInv'
<1>1. /\ work[c] = "enqueue"
      /\ UNCHANGED <<ask, pc, known, aim, slots, ran, reply, worldVars>>
      /\ \/ \E kind \in {"lost", "queue_busy", "receipt"} :
              Comes(c, Plain(kind)) /\ UNCHANGED <<queue, sent, receipts>>
         \/ /\ queue' = [queue EXCEPT ![aim[c]] = c]
            /\ sent' = sent \cup {c}
            /\ receipts' = receipts \cup (IF aim[c] = Home THEN {c} ELSE {})
            /\ work' = [work EXCEPT ![c] = "call"] /\ UNCHANGED outcome
  BY DEF Enqueue, RefuseUnrecorded
<1>2. Unrun(c) /\ queue \in [Daemons -> Calls \cup {None}] /\ receipts \subseteq Calls
  BY <1>1 DEF RoutingInv, CallIsRight, CallRan, CallTypes
<1>3. ASSUME NEW kind \in {"lost", "queue_busy", "receipt"},
             Comes(c, Plain(kind)) /\ UNCHANGED <<queue, sent, receipts>>
      PROVE  RoutingInv'
  <2>1. SaysTrue(c, Plain(kind)) /\ ~Plain(kind).routed
    BY <1>2, RefusalIsTrue, LostIsTrue DEF Refusals
  <2> QED
    BY <1>1, <1>2, <1>3, <2>1, WorkAnswers
<1>4. CASE /\ queue' = [queue EXCEPT ![aim[c]] = c]
           /\ sent' = sent \cup {c}
           /\ receipts' = receipts \cup (IF aim[c] = Home THEN {c} ELSE {})
           /\ work' = [work EXCEPT ![c] = "call"] /\ UNCHANGED outcome
  <2>1. queue' \in [Daemons -> Calls \cup {None}] /\ receipts' \subseteq Calls
    BY <1>2, <1>4
  <2> QED
    BY <1>1, <1>4, <2>1, WorkGoesOn
<1> QED
  BY <1>1, <1>3, <1>4

\* It runs at most once, on the daemon the call was aimed at.
LEMMA RunsKeepsInv == ASSUME RoutingInv, NEW c \in Calls, Runs(c) PROVE RoutingInv'
<1> DEFINE r == <<aim[c], bridge[aim[c]].generation>>
<1>1. /\ c \in sent /\ sent' = sent \ {c}
      /\ ran' = [ran EXCEPT ![c] = @ \cup {r}]
      /\ UNCHANGED <<ask, pc, known, aim, work, outcome, slots, queue, receipts, reply, worldVars>>
  BY DEF Runs
<1>2. CallAsked(c) /\ CallRan(c) /\ CallTold(c) /\ ran[c] = {} /\ aim[c] \in Daemons
  BY <1>1 DEF RoutingInv, CallIsRight, CallRan
<1>3. r \in Daemons \X (1 .. MaxUpsets + 1) /\ r[1] = aim[c]
  BY <1>2 DEF RoutingInv, WorldTypes
<1> HIDE DEF r
<1>4. /\ ran' \in [Calls -> SUBSET (Daemons \X (1 .. MaxUpsets + 1))] /\ ran'[c] = {r}
      /\ \A d \in Calls : d # c => ran'[d] = ran[d]
  BY <1>1, <1>2, <1>3 DEF RoutingInv, CallTypes
<1>5. CallTypes'
  BY <1>1, <1>4 DEF RoutingInv, CallTypes
<1>6. \A d \in Calls : d # c => SameCall(d)
  BY <1>1, <1>4 DEF SameCall
<1>7. CallIsRight(c)'
  <2>1. CallAsked(c)'
    BY <1>1, <1>2 DEF CallAsked
  <2>2. ~Unrun(c)
    BY <1>1 DEF Unrun
  <2>3. CallRan(c)'
    BY <1>1, <1>2, <1>3, <1>4, <2>2 DEF CallRan
  <2>4. CallTold(c)'
    BY <1>1, <1>2, <1>4, <2>2 DEF CallTold, SaysTrue
  <2> QED
    BY <2>1, <2>3, <2>4 DEF CallIsRight
<1>8. SlotsAreHeld'
  <2>1. \A d \in Calls : InFlight(d)' <=> InFlight(d)
    BY <1>1 DEF InFlight
  <2> QED
    BY <1>1, <2>1, SameSlotsAreHeld DEF RoutingInv, worldVars
<1> QED
  BY <1>1, <1>5, <1>6, <1>7, <1>8, OneCallMoves

LEMMA AnsweredKeepsInv ==
    ASSUME RoutingInv, NEW c \in Calls, Answered(c) \/ CallFails(c) PROVE RoutingInv'
<1>1. /\ work[c] = "call" /\ queue' = [queue EXCEPT ![aim[c]] = None]
      /\ UNCHANGED <<ask, pc, known, aim, slots, sent, ran, receipts, reply, worldVars>>
  BY DEF Answered, CallFails
<1>2. queue' \in [Daemons -> Calls \cup {None}]
  BY <1>1 DEF RoutingInv, CallTypes
<1>3. CASE Answered(c)
  <2>1. PICK env \in Replies : Comes(c, Mapped(ask[c].tool, env))
    BY <1>3 DEF Answered
  <2>2. ask[c].tool \in BridgedTools
    BY <1>1 DEF RoutingInv, CallIsRight, CallAsked, Asks
  <2>3. env \in Envelopes /\ ran[c] # {}
    BY <1>3, RoutingAssumption DEF Answered
  <2>4. SaysTrue(c, Mapped(ask[c].tool, env)) /\ ~Mapped(ask[c].tool, env).routed
    BY <2>2, <2>3, MappedIsAnswer DEF SaysTrue, Refusals
  <2> QED
    BY <1>1, <1>2, <2>1, <2>4, WorkAnswers
<1>4. CASE CallFails(c)
  <2>1. PICK kind \in {"lost", "timeout"} : Comes(c, Plain(kind))
    BY <1>4 DEF CallFails
  <2>2. SaysTrue(c, Plain(kind)) /\ ~Plain(kind).routed
    BY LostIsTrue
  <2> QED
    BY <1>1, <1>2, <2>1, <2>2, WorkAnswers
<1> QED
  BY <1>3, <1>4

\* A call ends: its slot is free and the client has its answer.
LEMMA CallEnds ==
    ASSUME RoutingInv, NEW c \in Calls, InFlight(c), NEW a, SaysTrue(c, a), GiveReply(c, a), FreeSlot(c),
           work' \in [Calls -> Works], outcome' \in [Calls -> AnswerSet \cup {None}],
           queue' \in [Daemons -> Calls \cup {None}],
           \A d \in Calls : d # c => work'[d] = work[d] /\ outcome'[d] = outcome[d],
           work'[c] = "none" \/ (work'[c] = work[c] /\ outcome'[c] = outcome[c]),
           a.kind \in Refusals => work'[c] = "none",
           a.kind = "ok" => (a.routed <=> aim[c] # Home),
           UNCHANGED <<ask, known, aim, sent, ran, receipts, worldVars>>
    PROVE  RoutingInv'
<1>1. /\ pc' \in [Calls -> Waits] /\ pc'[c] = "end" /\ reply' \in [Calls -> AnswerSet \cup {None}]
      /\ reply'[c] = a /\ \A d \in Calls : d # c => pc'[d] = pc[d] /\ reply'[d] = reply[d]
  BY DEF GiveReply, SaysTrue, RoutingInv, CallTypes, Waits
<1>2. CallTypes'
  BY <1>1 DEF RoutingInv, CallTypes, FreeSlot
<1>3. \A d \in Calls : d # c => SameCall(d)
  BY <1>1 DEF SameCall
<1>4. CallIsRight(c)'
  <2>1. CallAsked(c) /\ CallRan(c) /\ CallTold(c) /\ pc[c] # "new"
    BY DEF RoutingInv, CallIsRight, InFlight
  <2>2. CallAsked(c)'
    BY <1>1, <2>1 DEF CallAsked
  <2>3. CallRan(c)'
    BY <1>1, <2>1 DEF CallRan, Unrun
  <2>4. CallTold(c)'
    BY <1>1, <2>1 DEF CallTold, SaysTrue, Unrun
  <2> QED
    BY <2>2, <2>3, <2>4 DEF CallIsRight
<1>5. SlotsAreHeld'
  <2>1. ~InFlight(c)' /\ \A d \in Calls : d # c => (InFlight(d)' <=> InFlight(d))
    BY <1>1 DEF InFlight
  <2>2. gone' = gone /\ SlotsAreHeld
    BY DEF worldVars, RoutingInv
  <2> QED
    BY <2>1, <2>2, FreedSlotIsFree
<1> QED
  BY <1>2, <1>3, <1>4, <1>5, OneCallMoves

LEMMA DoneClears ==
    ASSUME RoutingInv, NEW c \in Calls, Done(c)
    PROVE  /\ work' \in [Calls -> Works] /\ outcome' \in [Calls -> AnswerSet \cup {None}]
           /\ work'[c] = "none"
           /\ \A d \in Calls : d # c => work'[d] = work[d] /\ outcome'[d] = outcome[d]
BY DEF RoutingInv, CallTypes, Done, Works

LEMMA ReturnKeepsInv ==
    ASSUME RoutingInv, NEW c \in Calls, ReturnHere(c) \/ ReturnRouted(c) PROVE RoutingInv'
<1>1. /\ pc[c] \in {"here", "flight"} /\ work[c] = "answer" /\ FreeSlot(c) /\ Done(c)
      /\ UNCHANGED <<ask, known, aim, queue, sent, ran, receipts, worldVars>>
  BY DEF ReturnHere, ReturnRouted
<1>2. InFlight(c) /\ SaysTrue(c, outcome[c]) /\ outcome[c] \in AnswerSet /\ ~outcome[c].routed
      /\ queue' \in [Daemons -> Calls \cup {None}]
  BY <1>1 DEF InFlight, RoutingInv, CallIsRight, CallTold, SaysTrue, CallTypes
<1>3. ASSUME NEW a, SaysTrue(c, a), GiveReply(c, a), a.kind = "ok" => (a.routed <=> aim[c] # Home)
      PROVE  RoutingInv'
  BY <1>1, <1>2, <1>3, DoneClears, CallEnds
<1>4. CASE ReturnHere(c)
  <2> DEFINE g == IF ask[c].tool = Inspect /\ outcome[c].generation = 0 /\ outcome[c].kind = "ok"
                    THEN bridge[Home].generation ELSE 0
             a == [outcome[c] EXCEPT !.generation = g]
  <2>1. GiveReply(c, a) /\ aim[c] = Home
    BY <1>4 DEF ReturnHere, RoutingInv, CallIsRight, CallAsked
  <2>2. g \in 0 .. MaxUpsets + 1
    <3>1. bridge[Home].generation \in 0 .. MaxUpsets + 1 /\ 0 \in 0 .. MaxUpsets + 1
      BY RoutingAssumption DEF RoutingInv, WorldTypes, Daemons
    <3> QED
      BY <3>1
  <2> HIDE DEF g
  <2>3. a \in AnswerSet /\ a.kind = outcome[c].kind /\ ~a.routed
    BY <1>2, <2>2 DEF AnswerSet
  <2> HIDE DEF a
  <2>4. SaysTrue(c, a)
    BY <1>2, <2>3 DEF SaysTrue
  <2> QED
    BY <1>3, <2>1, <2>3, <2>4
<1>5. CASE ReturnRouted(c)
  <2> DEFINE a == [outcome[c] EXCEPT !.routed = outcome[c].kind = "ok",
                                     !.data = outcome[c].data \/ outcome[c].kind # "ok"]
  <2>1. GiveReply(c, a) /\ aim[c] # Home
    BY <1>5, RoutingAssumption DEF ReturnRouted, RoutingInv, CallIsRight, CallAsked
  <2>2. a \in AnswerSet /\ a.kind = outcome[c].kind /\ (a.routed <=> outcome[c].kind = "ok")
    <3>1. (outcome[c].kind = "ok") \in BOOLEAN /\ (outcome[c].data \/ outcome[c].kind # "ok") \in BOOLEAN
      OBVIOUS
    <3> QED
      BY <1>2, <3>1 DEF AnswerSet
  <2> HIDE DEF a
  <2>3. SaysTrue(c, a)
    BY <1>2, <2>2 DEF SaysTrue
  <2> QED
    BY <1>3, <2>1, <2>2, <2>3
<1> QED
  BY <1>4, <1>5

LEMMA ProxyFailsKeepsInv == ASSUME RoutingInv, NEW c \in Calls, ProxyFails(c) PROVE RoutingInv'
<1>1. /\ pc[c] = "flight" /\ GiveReply(c, Plain("unreachable")) /\ FreeSlot(c)
      /\ UNCHANGED <<ask, known, aim, outcome, sent, ran, receipts, worldVars>>
      /\ \/ UNCHANGED <<work, queue>>
         \/ /\ work' = [work EXCEPT ![c] = "none"]
            /\ queue' = [d \in Daemons |-> IF queue[d] = c THEN None ELSE queue[d]]
  BY DEF ProxyFails, Refuse
<1>2. /\ SaysTrue(c, Plain("unreachable")) /\ Plain("unreachable").kind = "unreachable"
      /\ "unreachable" \notin Refusals
  <2>1. "unreachable" \in AnswerKinds /\ "unreachable" \notin Refusals
    BY DEF AnswerKinds, Refusals
  <2> QED
    BY <2>1, PlainIsAnswer DEF SaysTrue
<1>3. /\ work' \in [Calls -> Works] /\ queue' \in [Daemons -> Calls \cup {None}]
      /\ outcome' \in [Calls -> AnswerSet \cup {None}]
      /\ \A d \in Calls : d # c => work'[d] = work[d] /\ outcome'[d] = outcome[d]
      /\ work'[c] = "none" \/ (work'[c] = work[c] /\ outcome'[c] = outcome[c])
  BY <1>1 DEF RoutingInv, CallTypes, Works
<1>4. InFlight(c)
  BY <1>1 DEF InFlight
<1> HIDE DEF Plain
<1> QED
  BY <1>1, <1>2, <1>3, <1>4, CallEnds

\* What happens around the calls takes slots and sent requests away, and gives none.
LEMMA WorldKeepsInv ==
    ASSUME RoutingInv,
           \/ \E k \in Clients : Release(k)
           \/ \E d \in Daemons : Connect(d) \/ Disconnect(d) \/ Opens(d)
           \/ \E s \in Slaves : Report(s) \/ Expire(s)
    PROVE  RoutingInv'
<1>1. ASSUME NEW k \in Clients, Release(k) PROVE RoutingInv'
  <2>1. /\ gone' = gone \cup {k} /\ slots' = {s \in slots : s[1] # k} /\ upsets' \in 0 .. MaxUpsets
        /\ UNCHANGED <<bridge, table, modal, ask, pc, known, aim, work, outcome, queue, sent, ran,
                       receipts, reply>>
    BY <1>1, RoutingAssumption DEF Release, Upset, RoutingInv, WorldTypes
  <2>2. WorldTypes' /\ CallTypes'
    BY <2>1 DEF RoutingInv, WorldTypes, CallTypes
  <2>3. \A c \in Calls : CallIsRight(c)'
    <3>1. \A c \in Calls : SameCall(c)
      BY <2>1 DEF SameCall
    <3> QED
      BY <3>1, SameCallIsRight DEF RoutingInv
  <2>4. SlotsAreHeld'
    <3>1. \A c \in Calls : (InFlight(c)' <=> InFlight(c)) /\ Slot(c)' = Slot(c) /\ Slot(c)[1] = CallerOf[c]
      BY <2>1 DEF InFlight, Slot
    <3> HIDE DEF InFlight, Slot
    <3>2. ASSUME NEW s \in slots' PROVE \E c \in Calls : InFlight(c)' /\ Slot(c)' = s
      <4>1. PICK c \in Calls : InFlight(c) /\ Slot(c) = s
        BY <2>1 DEF RoutingInv, SlotsAreHeld
      <4> QED
        BY <3>1, <4>1
    <3>3. ASSUME NEW c \in Calls, InFlight(c), CallerOf[c] \notin gone' PROVE Slot(c) \in slots'
      <4>1. CallerOf[c] \notin gone /\ CallerOf[c] # k
        BY <2>1, <3>3
      <4>2. Slot(c) \in slots
        BY <3>3, <4>1 DEF RoutingInv, SlotsAreHeld
      <4> QED
        BY <2>1, <3>1, <4>1, <4>2
    <3>4. ASSUME NEW c \in Calls, NEW d \in Calls, InFlight(c), InFlight(d), Slot(c) = Slot(d),
                 CallerOf[c] \notin gone'
          PROVE  c = d
      BY <2>1, <3>4 DEF RoutingInv, SlotsAreHeld
    <3> QED
      BY <3>1, <3>2, <3>3, <3>4 DEF SlotsAreHeld
  <2> QED
    BY <2>2, <2>3, <2>4 DEF RoutingInv
<1>2. ASSUME WorldTypes', sent' \subseteq sent, gone' = gone,
             UNCHANGED <<ask, pc, known, aim, work, outcome, slots, queue, ran, receipts, reply>>
      PROVE  RoutingInv'
  <2>1. CallTypes'
    BY <1>2 DEF RoutingInv, CallTypes
  <2>2. \A c \in Calls : SameCall(c)
    BY <1>2 DEF SameCall
  <2>3. SlotsAreHeld'
    <3>1. \A d \in Calls : InFlight(d)' <=> InFlight(d)
      BY <1>2 DEF InFlight
    <3> QED
      BY <1>2, <3>1, SameSlotsAreHeld DEF RoutingInv
  <2> QED
    BY <1>2, <2>1, <2>2, <2>3, SameCallIsRight DEF RoutingInv
<1> USE RoutingAssumption
<1>3. ASSUME NEW d \in Daemons, Connect(d) PROVE RoutingInv'
  <2>1. bridge' = [bridge EXCEPT ![d] = [up |-> TRUE, generation |-> bridge[d].generation + 1]]
        /\ bridge[d].generation <= upsets /\ UNCHANGED <<table, modal, gone, upsets, callVars>>
    BY <1>3 DEF Connect
  <2>2. bridge[d].generation + 1 \in 1 .. MaxUpsets + 1
    BY <2>1 DEF RoutingInv, WorldTypes
  <2>3. bridge' \in [Daemons -> [up : BOOLEAN, generation : 1 .. MaxUpsets + 1]]
    BY <2>1, <2>2 DEF RoutingInv, WorldTypes
  <2>4. WorldTypes'
    BY <2>1, <2>3 DEF RoutingInv, WorldTypes
  <2> QED
    BY <1>2, <2>1, <2>4 DEF callVars
<1>4. ASSUME NEW d \in Daemons, Disconnect(d) PROVE RoutingInv'
  <2>1. bridge' = [bridge EXCEPT ![d].up = FALSE] /\ upsets' \in 0 .. MaxUpsets
        /\ sent' \subseteq sent /\ UNCHANGED <<table, modal, gone>>
    BY <1>4 DEF Disconnect, Upset, RoutingInv, WorldTypes
  <2>2. bridge' \in [Daemons -> [up : BOOLEAN, generation : 1 .. MaxUpsets + 1]]
    BY <2>1 DEF RoutingInv, WorldTypes
  <2>3. WorldTypes'
    BY <2>1, <2>2 DEF RoutingInv, WorldTypes
  <2> QED
    BY <1>2, <1>4, <2>1, <2>3 DEF Disconnect
<1>5. ASSUME NEW d \in Daemons, Opens(d) PROVE RoutingInv'
  <2>1. WorldTypes'
    BY <1>5 DEF Opens, Upset, RoutingInv, WorldTypes
  <2> QED
    BY <1>2, <1>5, <2>1 DEF Opens, callVars
<1>6. ASSUME NEW s \in Slaves, Report(s) PROVE RoutingInv'
  <2>1. table' = [table EXCEPT ![s] = [reach |-> TRUE, has |-> bridge[s].up]]
        /\ UNCHANGED <<bridge, modal, gone, upsets, callVars>>
    BY <1>6 DEF Report
  <2>2. [reach |-> TRUE, has |-> bridge[s].up] \in [reach : BOOLEAN, has : BOOLEAN]
    BY DEF RoutingInv, WorldTypes, Daemons
  <2>3. WorldTypes'
    BY <2>1, <2>2 DEF RoutingInv, WorldTypes
  <2> QED
    BY <1>2, <2>1, <2>3 DEF callVars
<1>7. ASSUME NEW s \in Slaves, Expire(s) PROVE RoutingInv'
  <2>1. table' = [table EXCEPT ![s].reach = FALSE] /\ upsets' \in 0 .. MaxUpsets /\ table[s] # None
        /\ UNCHANGED <<bridge, modal, gone, callVars>>
    BY <1>7 DEF Expire, Reachable, Upset, RoutingInv, WorldTypes
  <2>2. table' \in [Slaves -> [reach : BOOLEAN, has : BOOLEAN] \cup {None}]
    BY <2>1 DEF RoutingInv, WorldTypes
  <2>3. WorldTypes'
    BY <2>1, <2>2 DEF RoutingInv, WorldTypes
  <2> QED
    BY <1>2, <2>1, <2>3 DEF callVars
<1> QED
  BY <1>1, <1>3, <1>4, <1>5, <1>6, <1>7

LEMMA RoutingInitInv == RoutingInit => RoutingInv
<1> SUFFICES ASSUME RoutingInit PROVE RoutingInv
  OBVIOUS
<1>1. CallTypes
  BY DEF RoutingInit, CallTypes, Waits, Works
<1>2. WorldTypes
  <2>1. bridge \in [Daemons -> [up : BOOLEAN, generation : 1 .. MaxUpsets + 1]]
    <3>1. 1 \in 1 .. MaxUpsets + 1
      BY RoutingAssumption
    <3>2. [up : BOOLEAN, generation : {1}] \subseteq [up : BOOLEAN, generation : 1 .. MaxUpsets + 1]
      BY <3>1
    <3> QED
      BY <3>2 DEF RoutingInit
  <2>2. table \in [Slaves -> [reach : BOOLEAN, has : BOOLEAN] \cup {None}]
    <3>1. [reach : {TRUE}, has : BOOLEAN] \subseteq [reach : BOOLEAN, has : BOOLEAN]
      OBVIOUS
    <3> QED
      BY <3>1 DEF RoutingInit
  <2> QED
    BY <2>1, <2>2, RoutingAssumption DEF RoutingInit, WorldTypes
<1>3. \A c \in Calls : CallIsRight(c)
  BY DEF RoutingInit, CallIsRight, CallAsked, CallRan, CallTold, Unrun
<1>4. SlotsAreHeld
  BY DEF RoutingInit, SlotsAreHeld, InFlight
<1> QED
  BY <1>1, <1>2, <1>3, <1>4 DEF RoutingInv

LEMMA RoutingStepInv == RoutingInv /\ [RoutingNext]_routeVars => RoutingInv'
<1> SUFFICES ASSUME RoutingInv, [RoutingNext]_routeVars PROVE RoutingInv'
  OBVIOUS
<1>1. CASE UNCHANGED routeVars
  <2>1. CallTypes' /\ WorldTypes'
    BY <1>1 DEF RoutingInv, CallTypes, WorldTypes, routeVars, callVars, worldVars
  <2>2. \A c \in Calls : SameCall(c)
    BY <1>1 DEF SameCall, routeVars, callVars
  <2>3. SlotsAreHeld'
    <3>1. \A d \in Calls : InFlight(d)' <=> InFlight(d)
      BY <1>1 DEF InFlight, routeVars, callVars
    <3> QED
      BY <1>1, <3>1, SameSlotsAreHeld DEF RoutingInv, routeVars, callVars, worldVars
  <2> QED
    BY <2>1, <2>2, <2>3, SameCallIsRight DEF RoutingInv
<1>2. ASSUME NEW c \in Calls,
             \/ Come(c) \/ Resolve(c) \/ SendToSlave(c) \/ StartHere(c)
             \/ StartThere(c) \/ Enqueue(c) \/ Runs(c) \/ Answered(c) \/ CallFails(c)
             \/ ReturnHere(c) \/ ReturnRouted(c) \/ ProxyFails(c)
      PROVE  RoutingInv'
  BY <1>2, ComeKeepsInv, ResolveKeepsInv, SendToSlaveKeepsInv, StartHereKeepsInv, StartThereKeepsInv,
     EnqueueKeepsInv, RunsKeepsInv, AnsweredKeepsInv, ReturnKeepsInv, ProxyFailsKeepsInv
<1> QED
  BY <1>1, <1>2, WorldKeepsInv DEF RoutingNext

\* However many daemons, sessions and calls, and whatever is lost on the way: a session
\* has one call at a time on a process, a call runs at most once and where it was aimed
\* at, and a client who is told of a refusal or a result is told what happened.
THEOREM RoutedCallIsAlwaysTold == RoutingSpec => []RoutedCallIsTold
<1>1. ASSUME RoutingInv PROVE RoutedCallIsTold
  <2>1. RoutingTypeOK
    BY <1>1 DEF RoutingInv, RoutingTypeOK, CallTypes, WorldTypes, Asks, Waits, Works, CallIsRight, CallAsked
  <2>2. OneCallPerSlot
    BY <1>1, <2>1 DEF RoutingInv, SlotsAreHeld, OneCallPerSlot
  <2>3. ASSUME NEW c \in Calls
        PROVE  /\ Cardinality(ran[c]) <= 1
               /\ \A r \in ran[c] : r[1] = aim[c] /\ ask[c].names \in {None, r[1]}
               /\ c \in sent => ran[c] = {}
    <3>1. CallAsked(c) /\ CallRan(c)
      BY <1>1 DEF RoutingInv, CallIsRight
    <3>2. Cardinality(ran[c]) <= 1
      <4>1. CASE ran[c] = {}
        BY <4>1, FS_EmptySet
      <4>2. CASE ran[c] # {}
        <5>1. PICK r \in ran[c] : ran[c] = {r}
          BY <3>1, <4>2 DEF CallRan
        <5>2. Cardinality({r}) = 1
          BY FS_Singleton
        <5> QED
          BY <5>1, <5>2
      <4> QED
        BY <4>1, <4>2
    <3>3. \A r \in ran[c] : aim[c] # None
      BY <3>1, RoutingAssumption DEF CallRan
    <3> QED
      BY <3>1, <3>2, <3>3 DEF CallRan, CallAsked
  <2>4. AnswerIsTrue
    <3>1. \A c \in Calls : reply[c] # None =>
             /\ reply[c].kind \in Refusals => ran[c] = {} /\ c \notin sent
             /\ reply[c].kind \in {"ok", "failed"} => ran[c] # {}
             /\ reply[c].kind = "ok" => (reply[c].routed <=> aim[c] # Home)
      BY <1>1 DEF RoutingInv, CallIsRight, CallTold, SaysTrue, Unrun
    <3> QED
      BY <2>3, <3>1 DEF AnswerIsTrue
  <2> QED
    BY <2>2, <2>4 DEF RoutedCallIsTold
<1> QED
  BY <1>1, RoutingInitInv, RoutingStepInv, PTL DEF RoutingSpec

-----------------------------------------------------------------------------
(* Unpacking a project.                                                    *)

UnpackTypes ==
    /\ overwrite \in Overwrites
    /\ dest \in Slots
    /\ staged \in [Unpacks -> Slots] /\ stash \in [Unpacks -> Slots]
    /\ initial \in [Unpacks -> Slots] /\ moved \in [Unpacks -> Slots]
    /\ published \in [Unpacks -> SUBSET Kinds]
    /\ at \in [Unpacks -> UnpackPhases \X Kinds]
    /\ undoFailed \in [Unpacks -> BOOLEAN]
    /\ verdict \in [Unpacks -> {"none", "ok", "exists", "failed", "restored", "retained",
                                "uncleaned"}]
    /\ deleted \in [Unpacks -> SUBSET Entries]
    /\ meddled \subseteq Written /\ faults \in 0 .. MaxIoFaults

\* An artifact of an unpack lies in slots of its own kind only, and in one of them.
KindsAreKept ==
    \A u, v \in Unpacks, i, j \in Kinds :
        dest[j] = New(u, i) \/ stash[v][j] = New(u, i) \/ staged[v][j] = New(u, i) => i = j

Once(e, k) ==
    \A v, w \in Unpacks :
      /\ dest[k] = e => stash[v][k] # e /\ staged[v][k] # e
      /\ stash[v][k] = e => staged[w][k] # e /\ (stash[w][k] = e => v = w)
      /\ staged[v][k] = e /\ staged[w][k] = e => v = w

Placed == KindsAreKept /\ \A u \in Unpacks, k \in Kinds : Once(New(u, k), k)

\* What u has not published, or has taken back, nobody else has.
Hidden(u, k) ==
    k \notin published[u] /\ ~undoFailed[u] =>
      /\ dest[k] # New(u, k)
      /\ \A v \in Unpacks : stash[v][k] # New(u, k) /\ (v # u => staged[v][k] # New(u, k))

Succeeded(v) == verdict[v] \in {"ok", "uncleaned"}

\* What u has published is at the destination, or somebody moved it aside, or replaced it.
Conserved ==
    meddled = {} /\ (\A v \in Unpacks : ~undoFailed[v]) =>
      \A u \in Unpacks : \A k \in published[u] :
        \/ dest[k] = New(u, k)
        \/ \E v \in Unpacks : stash[v][k] = New(u, k)
        \/ \E v \in Unpacks : Succeeded(v) /\ initial[v][k] = New(u, k)

EntriesMove == Placed /\ (\A u \in Unpacks, k \in Kinds : Hidden(u, k)) /\ Conserved

\* Time only moves on.
Grows ==
    /\ \A v \in Unpacks : undoFailed[v] => undoFailed'[v]
    /\ \A v \in Unpacks : Succeeded(v) => Succeeded(v)' /\ initial'[v] = initial[v]
    /\ meddled' = meddled

LEMMA NewIsOwn ==
    ASSUME NEW u \in Unpacks, NEW v \in Unpacks, NEW i \in Kinds, NEW j \in Kinds
    PROVE  /\ New(u, i) = New(v, j) <=> u = v /\ i = j
           /\ New(u, i) # None /\ New(u, i) \in Entries
BY UnpackAssumption DEF New, Entries

\* A slot of one unpack is changed.
LEMMA SetSlot ==
    ASSUME NEW s \in [Unpacks -> Slots], NEW t, NEW u \in Unpacks, NEW k \in Kinds,
           NEW e \in Entries \cup {None}, t = [s EXCEPT ![u][k] = e]
    PROVE  /\ t \in [Unpacks -> Slots] /\ t[u][k] = e
           /\ \A v \in Unpacks, j \in Kinds : v # u \/ j # k => t[v][j] = s[v][j]
           /\ \A v \in Unpacks : v # u => t[v] = s[v]
BY DEF Slots

LEMMA SetDest ==
    ASSUME NEW s \in Slots, NEW t, NEW k \in Kinds, NEW e \in Entries \cup {None}, t = [s EXCEPT ![k] = e]
    PROVE  t \in Slots /\ t[k] = e /\ \A j \in Kinds : j # k => t[j] = s[j]
BY DEF Slots

LEMMA StillEntries ==
    ASSUME EntriesMove, Grows, UNCHANGED <<dest, stash, staged, published>> PROVE EntriesMove'
<1>1. Placed'
  BY DEF EntriesMove, Placed, KindsAreKept, Once
<1>2. \A u \in Unpacks, k \in Kinds : Hidden(u, k)'
  BY DEF EntriesMove, Hidden, Grows
<1>3. Conserved'
  BY DEF EntriesMove, Conserved, Grows
<1> QED
  BY <1>1, <1>2, <1>3 DEF EntriesMove

\* An entry is moved from the destination into a stage.
LEMMA StashMoves ==
    ASSUME EntriesMove, Grows, UnpackTypes,
           NEW u \in Unpacks, NEW k \in Kinds, stash[u][k] = None, StashIt(u, k), UNCHANGED <<staged, published>>
    PROVE  EntriesMove'
<1>1. /\ stash'[u][k] = dest[k] /\ dest'[k] = None /\ staged' = staged /\ published' = published
      /\ \A v \in Unpacks, j \in Kinds : v # u \/ j # k => stash'[v][j] = stash[v][j]
      /\ \A j \in Kinds : j # k => dest'[j] = dest[j]
  BY SetSlot, SetDest DEF StashIt, Slots, UnpackTypes
<1>2. KindsAreKept'
  BY <1>1, NewIsOwn DEF EntriesMove, Placed, KindsAreKept
<1>3. ASSUME NEW x \in Unpacks, NEW i \in Kinds PROVE Once(New(x, i), i)' /\ Hidden(x, i)'
  <2>1. Once(New(x, i), i) /\ Hidden(x, i) /\ New(x, i) # None
    BY NewIsOwn DEF EntriesMove, Placed
  <2>2. CASE i # k
    BY <1>1, <2>1, <2>2 DEF Once, Hidden, Grows
  <2>3. CASE i = k
    <3> HIDE DEF New
    <3>1. Once(New(x, k), k)'
      BY <1>1, <2>1, <2>3 DEF Once
    <3>2. Hidden(x, k)'
      BY <1>1, <2>1, <2>3 DEF Hidden, Grows
    <3> QED
      BY <2>3, <3>1, <3>2
  <2> QED
    BY <2>2, <2>3
<1>4. Conserved'
  <2> SUFFICES ASSUME meddled' = {}, \A v \in Unpacks : ~undoFailed'[v],
                      NEW x \in Unpacks, NEW i \in published'[x]
               PROVE  \/ dest'[i] = New(x, i)
                      \/ \E v \in Unpacks : stash'[v][i] = New(x, i)
                      \/ \E v \in Unpacks : Succeeded(v)' /\ initial'[v][i] = New(x, i)
    BY DEF Conserved
  <2>1. \/ dest[i] = New(x, i)
        \/ \E v \in Unpacks : stash[v][i] = New(x, i)
        \/ \E v \in Unpacks : Succeeded(v) /\ initial[v][i] = New(x, i)
    BY <1>1 DEF EntriesMove, Conserved, Grows
  <2>2. i \in Kinds /\ New(x, i) # None
    BY <1>1, NewIsOwn DEF UnpackTypes
  <2>3. CASE dest[i] = New(x, i)
    <3>1. CASE i = k
      BY <1>1, <2>3, <3>1
    <3>2. CASE i # k
      BY <1>1, <2>2, <2>3, <3>2
    <3> QED
      BY <3>1, <3>2
  <2>4. CASE \E v \in Unpacks : stash[v][i] = New(x, i)
    <3>1. PICK v \in Unpacks : stash[v][i] = New(x, i)
      BY <2>4
    <3>2. stash'[v][i] = New(x, i)
      BY <1>1, <2>2, <3>1
    <3> QED
      BY <3>2
  <2>5. CASE \E v \in Unpacks : Succeeded(v) /\ initial[v][i] = New(x, i)
    BY <2>5 DEF Grows
  <2> QED
    BY <2>1, <2>3, <2>4, <2>5
<1> QED
  BY <1>2, <1>3, <1>4 DEF EntriesMove, Placed

\* A new artifact is moved out of its stage.
LEMMA PublishMoves ==
    ASSUME EntriesMove, Grows, UnpackTypes,
           NEW u \in Unpacks, NEW k \in Kinds, dest[k] = None, staged[u][k] = New(u, k),
           dest' = [dest EXCEPT ![k] = staged[u][k]], staged' = [staged EXCEPT ![u][k] = None],
           published' = [published EXCEPT ![u] = @ \cup {k}], UNCHANGED stash
    PROVE  EntriesMove'
<1>1. /\ dest'[k] = New(u, k) /\ staged'[u][k] = None /\ stash' = stash
      /\ \A v \in Unpacks, j \in Kinds : v # u \/ j # k => staged'[v][j] = staged[v][j]
      /\ \A j \in Kinds : j # k => dest'[j] = dest[j]
      /\ published'[u] = published[u] \cup {k} /\ \A v \in Unpacks : v # u => published'[v] = published[v]
      /\ published'[u] \subseteq Kinds
  <2>1. dest'[k] = New(u, k) /\ \A j \in Kinds : j # k => dest'[j] = dest[j]
    <3>1. New(u, k) \in Entries \cup {None} /\ dest \in Slots /\ dest' = [dest EXCEPT ![k] = New(u, k)]
      BY NewIsOwn DEF UnpackTypes
    <3> QED
      BY <3>1 DEF Slots
  <2>2. staged'[u][k] = None /\ \A v \in Unpacks, j \in Kinds : v # u \/ j # k => staged'[v][j] = staged[v][j]
    BY SetSlot DEF UnpackTypes, Slots
  <2> QED
    BY <2>1, <2>2 DEF UnpackTypes
<1>2. KindsAreKept'
  BY <1>1, NewIsOwn DEF EntriesMove, Placed, KindsAreKept
<1>3. ASSUME NEW x \in Unpacks, NEW i \in Kinds PROVE Once(New(x, i), i)' /\ Hidden(x, i)'
  <2>1. /\ Once(New(x, i), i) /\ Hidden(x, i) /\ Once(New(u, k), k) /\ New(x, i) # None
        /\ (New(x, i) = New(u, k) <=> x = u /\ i = k)
    BY NewIsOwn DEF EntriesMove, Placed
  <2>2. CASE i # k
    BY <1>1, <2>1, <2>2 DEF Once, Hidden, Grows
  <2>3. CASE i = k
    <3> HIDE DEF New
    <3>1. Once(New(x, k), k)'
      BY <1>1, <2>1, <2>3 DEF Once
    <3>2. Hidden(x, k)'
      BY <1>1, <2>1, <2>3 DEF Hidden, Grows
    <3> QED
      BY <2>3, <3>1, <3>2
  <2> QED
    BY <2>2, <2>3
<1>4. Conserved'
  <2> SUFFICES ASSUME meddled' = {}, \A v \in Unpacks : ~undoFailed'[v],
                      NEW x \in Unpacks, NEW i \in published'[x]
               PROVE  \/ dest'[i] = New(x, i)
                      \/ \E v \in Unpacks : stash'[v][i] = New(x, i)
                      \/ \E v \in Unpacks : Succeeded(v)' /\ initial'[v][i] = New(x, i)
    BY DEF Conserved
  <2>1. CASE x = u /\ i = k
    BY <1>1, <2>1
  <2>2. CASE x # u \/ i # k
    <3>1. i \in published[x] /\ i \in Kinds /\ New(x, i) # None
      BY <1>1, <2>2, NewIsOwn DEF UnpackTypes
    <3>2. \/ dest[i] = New(x, i)
          \/ \E v \in Unpacks : stash[v][i] = New(x, i)
          \/ \E v \in Unpacks : Succeeded(v) /\ initial[v][i] = New(x, i)
      BY <3>1 DEF EntriesMove, Conserved, Grows
    <3>3. CASE dest[i] = New(x, i)
      BY <1>1, <3>1, <3>3
    <3>4. CASE \E v \in Unpacks : stash[v][i] = New(x, i)
      BY <1>1, <3>4
    <3>5. CASE \E v \in Unpacks : Succeeded(v) /\ initial[v][i] = New(x, i)
      BY <3>5 DEF Grows
    <3> QED
      BY <3>2, <3>3, <3>4, <3>5
  <2> QED
    BY <2>1, <2>2
<1> QED
  BY <1>2, <1>3, <1>4 DEF EntriesMove, Placed

\* What is at the destination is taken back; if it is not the new artifact, that is told.
LEMMA UnpublishMoves ==
    ASSUME EntriesMove, Grows, UnpackTypes,
           NEW u \in Unpacks, NEW k \in Kinds, dest[k] # None,
           staged' = [staged EXCEPT ![u][k] = dest[k]], dest' = [dest EXCEPT ![k] = None],
           published' = [published EXCEPT ![u] = @ \ {k}], UNCHANGED stash,
           dest[k] = New(u, k) \/ undoFailed'[u]
    PROVE  EntriesMove'
<1>1. /\ dest'[k] = None /\ staged'[u][k] = dest[k] /\ stash' = stash
      /\ \A v \in Unpacks, j \in Kinds : v # u \/ j # k => staged'[v][j] = staged[v][j]
      /\ \A j \in Kinds : j # k => dest'[j] = dest[j]
      /\ published'[u] = published[u] \ {k} /\ \A v \in Unpacks : v # u => published'[v] = published[v]
      /\ published[u] \subseteq Kinds
  BY SetSlot, SetDest, NewIsOwn DEF UnpackTypes, Slots
<1>2. KindsAreKept'
  BY <1>1, NewIsOwn DEF EntriesMove, Placed, KindsAreKept
<1>3. ASSUME NEW x \in Unpacks, NEW i \in Kinds PROVE Once(New(x, i), i)' /\ Hidden(x, i)'
  <2>1. /\ Once(New(x, i), i) /\ Hidden(x, i) /\ Once(New(u, k), k) /\ New(x, i) # None
        /\ (New(x, i) = New(u, k) <=> x = u /\ i = k)
    BY NewIsOwn DEF EntriesMove, Placed
  <2>2. CASE i # k
    BY <1>1, <2>1, <2>2 DEF Once, Hidden, Grows
  <2>3. CASE i = k
    <3> HIDE DEF New
    <3>1. Once(New(x, k), k)'
      BY <1>1, <2>1, <2>3 DEF Once
    <3>2. ASSUME x = u PROVE Hidden(x, k)'
      <4>1. CASE undoFailed'[u]
        BY <4>1, <3>2 DEF Hidden
      <4>2. CASE dest[k] = New(u, k)
        <5>1. Once(New(u, k), k) /\ New(u, k) # None
          BY <2>1, <2>3, <3>2
        <5>2. dest'[k] # New(u, k)
              /\ \A v \in Unpacks : stash'[v][k] # New(u, k) /\ (v # u => staged'[v][k] # New(u, k))
          BY <1>1, <4>2, <5>1 DEF Once
        <5> QED
          BY <3>2, <5>2 DEF Hidden
      <4> QED
        BY <4>1, <4>2
    <3>3. ASSUME x # u PROVE Hidden(x, k)'
      BY <1>1, <2>1, <2>3, <3>3 DEF Hidden, Grows
    <3> QED
      BY <2>3, <3>1, <3>2, <3>3
  <2> QED
    BY <2>2, <2>3
<1>4. Conserved'
  <2> SUFFICES ASSUME meddled' = {}, \A v \in Unpacks : ~undoFailed'[v],
                      NEW x \in Unpacks, NEW i \in published'[x]
               PROVE  \/ dest'[i] = New(x, i)
                      \/ \E v \in Unpacks : stash'[v][i] = New(x, i)
                      \/ \E v \in Unpacks : Succeeded(v)' /\ initial'[v][i] = New(x, i)
    BY DEF Conserved
  <2>1. i \in published[x] /\ i \in Kinds /\ New(x, i) # None /\ (x # u \/ i # k) /\ dest[k] = New(u, k)
    BY <1>1, NewIsOwn DEF UnpackTypes
  <2>2. \/ dest[i] = New(x, i)
        \/ \E v \in Unpacks : stash[v][i] = New(x, i)
        \/ \E v \in Unpacks : Succeeded(v) /\ initial[v][i] = New(x, i)
    BY <2>1 DEF EntriesMove, Conserved, Grows
  <2>3. CASE dest[i] = New(x, i)
    BY <1>1, <2>1, <2>3, NewIsOwn
  <2>4. CASE \E v \in Unpacks : stash[v][i] = New(x, i)
    BY <1>1, <2>4
  <2>5. CASE \E v \in Unpacks : Succeeded(v) /\ initial[v][i] = New(x, i)
    BY <2>5 DEF Grows
  <2> QED
    BY <2>2, <2>3, <2>4, <2>5
<1> QED
  BY <1>2, <1>3, <1>4 DEF EntriesMove, Placed

LEMMA RestoreMoves ==
    ASSUME EntriesMove, Grows, UnpackTypes,
           NEW u \in Unpacks, NEW k \in Kinds, dest[k] = None,
           dest' = [dest EXCEPT ![k] = stash[u][k]], stash' = [stash EXCEPT ![u][k] = None],
           UNCHANGED <<staged, published>>
    PROVE  EntriesMove'
<1>1. /\ dest'[k] = stash[u][k] /\ stash'[u][k] = None /\ staged' = staged /\ published' = published
      /\ \A v \in Unpacks, j \in Kinds : v # u \/ j # k => stash'[v][j] = stash[v][j]
      /\ \A j \in Kinds : j # k => dest'[j] = dest[j]
  BY SetSlot, SetDest DEF UnpackTypes, Slots
<1>2. KindsAreKept'
  BY <1>1, NewIsOwn DEF EntriesMove, Placed, KindsAreKept
<1>3. ASSUME NEW x \in Unpacks, NEW i \in Kinds PROVE Once(New(x, i), i)' /\ Hidden(x, i)'
  <2>1. Once(New(x, i), i) /\ Hidden(x, i) /\ New(x, i) # None
    BY NewIsOwn DEF EntriesMove, Placed
  <2>2. CASE i # k
    BY <1>1, <2>1, <2>2 DEF Once, Hidden, Grows
  <2>3. CASE i = k
    <3> HIDE DEF New
    <3>1. Once(New(x, k), k)'
      BY <1>1, <2>1, <2>3 DEF Once
    <3>2. Hidden(x, k)'
      BY <1>1, <2>1, <2>3 DEF Hidden, Grows
    <3> QED
      BY <2>3, <3>1, <3>2
  <2> QED
    BY <2>2, <2>3
<1>4. Conserved'
  <2> SUFFICES ASSUME meddled' = {}, \A v \in Unpacks : ~undoFailed'[v],
                      NEW x \in Unpacks, NEW i \in published'[x]
               PROVE  \/ dest'[i] = New(x, i)
                      \/ \E v \in Unpacks : stash'[v][i] = New(x, i)
                      \/ \E v \in Unpacks : Succeeded(v)' /\ initial'[v][i] = New(x, i)
    BY DEF Conserved
  <2>1. i \in published[x] /\ i \in Kinds /\ New(x, i) # None
    BY <1>1, NewIsOwn DEF UnpackTypes
  <2>2. \/ dest[i] = New(x, i)
        \/ \E v \in Unpacks : stash[v][i] = New(x, i)
        \/ \E v \in Unpacks : Succeeded(v) /\ initial[v][i] = New(x, i)
    BY <2>1 DEF EntriesMove, Conserved, Grows
  <2>3. CASE dest[i] = New(x, i)
    BY <1>1, <2>1, <2>3
  <2>4. CASE \E v \in Unpacks : stash[v][i] = New(x, i)
    <3>1. PICK v \in Unpacks : stash[v][i] = New(x, i)
      BY <2>4
    <3>2. CASE v = u /\ i = k
      BY <1>1, <3>1, <3>2
    <3>3. CASE v # u \/ i # k
      BY <1>1, <2>1, <3>1, <3>3
    <3> QED
      BY <3>2, <3>3
  <2>5. CASE \E v \in Unpacks : Succeeded(v) /\ initial[v][i] = New(x, i)
    BY <2>5 DEF Grows
  <2> QED
    BY <2>2, <2>3, <2>4, <2>5
<1> QED
  BY <1>2, <1>3, <1>4 DEF EntriesMove, Placed

\* The artifacts appear in the stage.
LEMMA ExpandMoves ==
    ASSUME EntriesMove, Grows, UnpackTypes, NEW u \in Unpacks, published[u] = {}, ~undoFailed[u],
           staged' = [staged EXCEPT ![u] = [k \in Kinds |-> New(u, k)]],
           UNCHANGED <<dest, stash, published>>
    PROVE  EntriesMove'
<1>1. /\ \A j \in Kinds : staged'[u][j] = New(u, j)
      /\ \A v \in Unpacks : v # u => staged'[v] = staged[v]
  BY DEF UnpackTypes
<1>2. KindsAreKept'
  BY <1>1, NewIsOwn DEF EntriesMove, Placed, KindsAreKept
<1>3. ASSUME NEW x \in Unpacks, NEW i \in Kinds PROVE Once(New(x, i), i)' /\ Hidden(x, i)'
  <2>1. /\ Once(New(x, i), i) /\ Hidden(x, i) /\ New(x, i) # None
        /\ (New(x, i) = New(u, i) <=> x = u)
    BY NewIsOwn DEF EntriesMove, Placed
  <2> HIDE DEF New
  <2>2. Once(New(x, i), i)'
    <3>1. CASE x = u
      <4>1. /\ dest[i] # New(u, i)
            /\ \A v \in Unpacks : stash[v][i] # New(u, i) /\ (v # u => staged[v][i] # New(u, i))
        BY <2>1, <3>1 DEF Hidden
      <4> QED
        BY <1>1, <3>1, <4>1 DEF Once
    <3>2. CASE x # u
      BY <1>1, <2>1, <3>2 DEF Once
    <3> QED
      BY <3>1, <3>2
  <2>3. Hidden(x, i)'
    BY <1>1, <2>1 DEF Hidden, Grows
  <2> QED
    BY <2>2, <2>3
<1>4. Conserved'
  BY DEF EntriesMove, Conserved, Grows
<1> QED
  BY <1>2, <1>3, <1>4 DEF EntriesMove, Placed

\* With a stage go artifacts of its own, and what was replaced.
LEMMA CleanMoves ==
    ASSUME EntriesMove, Grows, UnpackTypes, UNCHANGED <<dest, published>>,
           \A v \in Unpacks, k \in Kinds :
             /\ staged'[v][k] \in {staged[v][k], None}
             /\ \/ stash'[v][k] = stash[v][k]
                \/ stash'[v][k] = None /\ Succeeded(v)' /\ initial'[v][k] = stash[v][k]
    PROVE  EntriesMove'
<1>1. \A v \in Unpacks, k \in Kinds :
         staged'[v][k] \in {staged[v][k], None} /\ stash'[v][k] \in {stash[v][k], None}
  OBVIOUS
<1>2. KindsAreKept'
  BY <1>1, NewIsOwn DEF EntriesMove, Placed, KindsAreKept
<1>3. ASSUME NEW x \in Unpacks, NEW i \in Kinds PROVE Once(New(x, i), i)' /\ Hidden(x, i)'
  <2>1. Once(New(x, i), i) /\ Hidden(x, i) /\ New(x, i) # None
    BY NewIsOwn DEF EntriesMove, Placed
  <2> HIDE DEF New
  <2>2. Once(New(x, i), i)'
    BY <1>1, <2>1 DEF Once
  <2>3. Hidden(x, i)'
    BY <1>1, <2>1 DEF Hidden, Grows
  <2> QED
    BY <2>2, <2>3
<1>4. Conserved'
  <2> SUFFICES ASSUME meddled' = {}, \A v \in Unpacks : ~undoFailed'[v],
                      NEW x \in Unpacks, NEW i \in published'[x]
               PROVE  \/ dest'[i] = New(x, i)
                      \/ \E v \in Unpacks : stash'[v][i] = New(x, i)
                      \/ \E v \in Unpacks : Succeeded(v)' /\ initial'[v][i] = New(x, i)
    BY DEF Conserved
  <2>1. i \in published[x] /\ i \in Kinds
    BY DEF UnpackTypes
  <2>2. \/ dest[i] = New(x, i)
        \/ \E v \in Unpacks : stash[v][i] = New(x, i)
        \/ \E v \in Unpacks : Succeeded(v) /\ initial[v][i] = New(x, i)
    BY <2>1 DEF EntriesMove, Conserved, Grows
  <2>3. CASE \E v \in Unpacks : stash[v][i] = New(x, i)
    <3>1. PICK v \in Unpacks : stash[v][i] = New(x, i)
      BY <2>3
    <3>2. stash'[v][i] = New(x, i) \/ (Succeeded(v)' /\ initial'[v][i] = New(x, i))
      BY <2>1, <3>1
    <3> QED
      BY <3>2
  <2>4. CASE \E v \in Unpacks : Succeeded(v) /\ initial[v][i] = New(x, i)
    BY <2>4 DEF Grows
  <2> QED
    BY <2>2, <2>3, <2>4
<1> QED
  BY <1>2, <1>3, <1>4 DEF EntriesMove, Placed

LEMMA MeddleMoves ==
    ASSUME EntriesMove, UnpackTypes, NEW e \in Written, NEW k \in Kinds, Meddle(e, k)
    PROVE  EntriesMove'
<1>1. /\ dest' \in {[dest EXCEPT ![k] = e], [dest EXCEPT ![k] = None]} /\ meddled' # {}
      /\ UNCHANGED <<staged, stash, published, undoFailed>>
  BY DEF Meddle
<1>2. \A u \in Unpacks, i \in Kinds : e # New(u, i) /\ None # New(u, i)
  BY UnpackAssumption DEF New
<1>3. \A u \in Unpacks, i, j \in Kinds : dest'[j] = New(u, i) => dest[j] = New(u, i)
  BY <1>1, <1>2 DEF UnpackTypes, Slots
<1> HIDE DEF New
<1>4. KindsAreKept'
  BY <1>1, <1>3 DEF EntriesMove, Placed, KindsAreKept
<1>5. ASSUME NEW x \in Unpacks, NEW i \in Kinds PROVE Once(New(x, i), i)' /\ Hidden(x, i)'
  <2>1. Once(New(x, i), i) /\ Hidden(x, i)
    BY DEF EntriesMove, Placed
  <2> QED
    BY <1>1, <1>3, <2>1 DEF Once, Hidden
<1>6. Conserved'
  BY <1>1 DEF Conserved
<1> QED
  BY <1>4, <1>5, <1>6 DEF EntriesMove, Placed

\* What an unpack has done by the time it is at a step.
Preparing == {"probe", "expand", "check"}
Forward == Preparing \cup {"look", "stash", "publish", "confirm"}
PhaseOf(u) == at[u][1]
NoStash(u) == \A k \in Kinds : stash[u][k] = None

PublishedSoFar(u) ==
    /\ PhaseOf(u) \in Preparing \cup {"look", "stash"} \/ UnpackAt(u, "publish", "dir") =>
         published[u] = {}
    /\ UnpackAt(u, "confirm", "dir") \/ UnpackAt(u, "publish", "toc") => published[u] = {"dir"}
    /\ UnpackAt(u, "confirm", "toc") \/ Succeeded(u) => published[u] = Kinds
    /\ verdict[u] \in {"failed", "exists", "restored"} => published[u] = {}
    /\ ~undoFailed[u] =>
         /\ UnpackAt(u, "find", "dir") \/ UnpackAt(u, "unpublish", "dir") => "toc" \notin published[u]
         /\ PhaseOf(u) \in {"restore", "verify", "undone"} => published[u] = {}

StashedSoFar(u) ==
    /\ PhaseOf(u) \in Preparing \/ verdict[u] \in {"failed", "exists", "restored"}
         \/ UnpackAt(u, "look", "dir") \/ UnpackAt(u, "stash", "dir") => NoStash(u)
    /\ UnpackAt(u, "look", "toc") \/ UnpackAt(u, "stash", "toc") => stash[u]["toc"] = None
    /\ PhaseOf(u) \in {"look", "stash", "publish", "confirm"} \/ Succeeded(u) =>
         \A k \in Kinds : stash[u][k] \in {None, initial[u][k]}
    /\ ~undoFailed[u] =>
         /\ UnpackAt(u, "restore", "dir") \/ UnpackAt(u, "verify", "dir") => stash[u]["toc"] = None
         /\ \A k \in Kinds : UnpackAt(u, "verify", k) => stash[u][k] = None
         /\ PhaseOf(u) = "undone" => NoStash(u)

StagedSoFar(u) ==
    /\ PhaseOf(u) \in {"check", "look", "stash"} \/ UnpackAt(u, "publish", "dir") =>
         \A k \in Kinds : staged[u][k] = New(u, k)
    /\ UnpackAt(u, "confirm", "dir") \/ UnpackAt(u, "publish", "toc") => staged[u]["toc"] = New(u, "toc")
    /\ ~undoFailed[u] => \A k \in Kinds : staged[u][k] \in {None, New(u, k)}

ToldSoFar(u) ==
    /\ verdict[u] # "none" <=> PhaseOf(u) \in {"clean", "end"}
    /\ PhaseOf(u) \in Forward \/ PhaseOf(u) = "clean" => ~undoFailed[u]
    /\ verdict[u] # "none" => (undoFailed[u] <=> verdict[u] = "retained")
    /\ PhaseOf(u) # "end" => deleted[u] = {} /\ verdict[u] # "uncleaned"
    /\ \A e \in deleted[u] : \/ \E k \in Kinds : e = New(u, k)
                             \/ published[u] = Kinds /\ \E k \in Kinds : e = initial[u][k]

OwnUnpack(u) == PublishedSoFar(u) /\ StashedSoFar(u) /\ StagedSoFar(u) /\ ToldSoFar(u)

\* Who was found at a destination had been there before: unpacks that replace each other
\* are in an order.
Seen ==
    \A v, w \in Unpacks, i, j \in Kinds : initial[w][j] = New(v, i) => PhaseOf(v) # "probe"

Ranked ==
    \E N \in Nat : \E rank \in [Unpacks -> 0 .. N] :
        \A v, w \in Unpacks, i, j \in Kinds : initial[w][j] = New(v, i) => rank[v] < rank[w]

UnpackInv ==
    /\ UnpackTypes /\ EntriesMove /\ Seen /\ Ranked
    /\ \A u \in Unpacks : OwnUnpack(u)

\* An unpack nothing happens to.
SameUnpack(u) ==
    /\ at'[u] = at[u] /\ published'[u] = published[u] /\ initial'[u] = initial[u]
    /\ undoFailed'[u] = undoFailed[u] /\ verdict'[u] = verdict[u] /\ deleted'[u] = deleted[u]
    /\ \A k \in Kinds : stash'[u][k] = stash[u][k] /\ staged'[u][k] = staged[u][k]

LEMMA SameUnpackIsOwn ==
    ASSUME NEW u, OwnUnpack(u), SameUnpack(u) PROVE OwnUnpack(u)'
<1>1. PublishedSoFar(u)'
  BY DEF OwnUnpack, PublishedSoFar, SameUnpack, UnpackAt, PhaseOf, Succeeded
<1>2. StashedSoFar(u)'
  BY DEF OwnUnpack, StashedSoFar, SameUnpack, UnpackAt, PhaseOf, Succeeded, NoStash, Kinds
<1>3. StagedSoFar(u)'
  BY DEF OwnUnpack, StagedSoFar, SameUnpack, UnpackAt, PhaseOf, Kinds
<1>4. ToldSoFar(u)'
  BY DEF OwnUnpack, ToldSoFar, SameUnpack, PhaseOf
<1> QED
  BY <1>1, <1>2, <1>3, <1>4 DEF OwnUnpack

LEMMA StillOrder ==
    ASSUME Seen, Ranked, initial' = initial,
           \A v \in Unpacks : PhaseOf(v)' = "probe" => PhaseOf(v) = "probe"
    PROVE  Seen' /\ Ranked'
<1>1. Seen'
  BY DEF Seen
<1>2. Ranked'
  BY DEF Ranked
<1> QED
  BY <1>1, <1>2

\* Step u of an unpack, once it is known what it does to the entries and to u itself.
LEMMA OneUnpackMoves ==
    ASSUME UnpackInv, UnpackTypes', EntriesMove', Seen', Ranked',
           NEW u \in Unpacks, OwnUnpack(u)', \A v \in Unpacks : v # u => SameUnpack(v)
    PROVE  UnpackInv'
BY SameUnpackIsOwn DEF UnpackInv

\* Where u goes: at and verdict of u alone change.
Moves(u, phase, k, v) ==
    /\ at' \in [Unpacks -> UnpackPhases \X Kinds] /\ at'[u] = <<phase, k>>
    /\ verdict' \in [Unpacks -> {"none", "ok", "exists", "failed", "restored", "retained", "uncleaned"}]
    /\ verdict'[u] = v
    /\ \A w \in Unpacks : w # u => at'[w] = at[w] /\ verdict'[w] = verdict[w]

LEMMA GoesMoves ==
    ASSUME UnpackTypes, NEW u \in Unpacks, NEW p \in UnpackPhases, NEW k \in Kinds, UnpackGoes(u, p, k)
    PROVE  Moves(u, p, k, verdict[u])
BY DEF UnpackTypes, UnpackGoes, Moves

LEMMA TellMoves ==
    ASSUME UnpackTypes, NEW u \in Unpacks, NEW p \in UnpackPhases,
           NEW v \in {"ok", "exists", "failed", "restored", "retained", "uncleaned"}, Tell(u, p, v)
    PROVE  Moves(u, p, "dir", v)
<1>1. "dir" \in Kinds
  BY DEF Kinds
<1> QED
  BY <1>1 DEF UnpackTypes, Tell, Moves

\* A step that changes nothing but where u is, and perhaps the count of faults.
LEMMA StillGrows ==
    ASSUME UnpackInv, NEW u \in Unpacks, NEW p, NEW k, NEW v, Moves(u, p, k, v), v = verdict[u] \/ verdict[u] = "none",
           initial' = initial, meddled' = meddled,
           \A w \in Unpacks : undoFailed[w] => undoFailed'[w]
    PROVE  Grows
BY DEF Grows, Moves, Succeeded

\* A step that moves no entry.
LEMMA QuietStep ==
    ASSUME UnpackInv, NEW u \in Unpacks, NEW p \in UnpackPhases, NEW k, NEW v, Moves(u, p, k, v),
           v = verdict[u] \/ verdict[u] = "none", p # "probe",
           UNCHANGED <<overwrite, dest, staged, stash, initial, moved, published, deleted, meddled>>,
           faults' \in 0 .. MaxIoFaults, undoFailed' \in [Unpacks -> BOOLEAN],
           \A w \in Unpacks : w # u => undoFailed'[w] = undoFailed[w],
           undoFailed[u] => undoFailed'[u], OwnUnpack(u)'
    PROVE  UnpackInv'
<1>1. Grows
  <2>1. \A w \in Unpacks : undoFailed[w] => undoFailed'[w]
    OBVIOUS
  <2> QED
    BY <2>1, StillGrows
<1>2. EntriesMove'
  BY <1>1, StillEntries DEF UnpackInv
<1>3. Seen' /\ Ranked'
  BY StillOrder DEF UnpackInv, Moves, PhaseOf
<1>4. UnpackTypes'
  BY DEF UnpackInv, UnpackTypes, Moves
<1>5. \A w \in Unpacks : w # u => SameUnpack(w)
  BY DEF SameUnpack, Moves
<1> QED
  BY <1>2, <1>3, <1>4, <1>5, OneUnpackMoves

LEMMA FaultCounts ==
    ASSUME UnpackTypes PROVE (Fault \/ faults' = faults) => faults' \in 0 .. MaxIoFaults
BY UnpackAssumption DEF UnpackTypes, Fault

LEMMA FailedIsKept ==
    ASSUME UnpackTypes, NEW u \in Unpacks, UndoFails(u) \/ undoFailed' = undoFailed
    PROVE  /\ undoFailed' \in [Unpacks -> BOOLEAN]
           /\ \A w \in Unpacks : w # u => undoFailed'[w] = undoFailed[w]
           /\ undoFailed[u] => undoFailed'[u]
           /\ UndoFails(u) => undoFailed'[u]
BY DEF UnpackTypes, UndoFails

LEMMA CheckFreeKeepsInv ==
    ASSUME UnpackInv, overwrite' = overwrite, NEW u \in Unpacks, NEW k \in Kinds, CheckFree(u, k)
    PROVE  UnpackInv'
<1>1. /\ at[u] = <<"check", k>> /\ UnpackTypes /\ OwnUnpack(u)
      /\ UNCHANGED <<dest, staged, stash, initial, moved, published, undoFailed, deleted, meddled>>
      /\ Fault \/ faults' = faults
  BY DEF CheckFree, UnpackAt, UnpackInv
<1>2. /\ published[u] = {} /\ NoStash(u) /\ (\A j \in Kinds : staged[u][j] = New(u, j)) /\ ~undoFailed[u]
      /\ deleted[u] = {} /\ verdict[u] = "none"
  BY <1>1 DEF OwnUnpack, PublishedSoFar, StashedSoFar, StagedSoFar, ToldSoFar, PhaseOf, Preparing, Forward
<1>3. \/ Moves(u, "check", "toc", "none") \/ Moves(u, "look", "dir", "none")
      \/ Moves(u, "clean", "dir", "exists") \/ Moves(u, "clean", "dir", "failed")
  <2>1. {"check", "look", "clean"} \subseteq UnpackPhases /\ {"dir", "toc"} \subseteq Kinds
    BY DEF UnpackPhases, Kinds
  <2>2. \/ UnpackGoes(u, "check", "toc") \/ UnpackGoes(u, "look", "dir")
        \/ Tell(u, "clean", "exists") \/ Tell(u, "clean", "failed")
    BY DEF CheckFree, Forth
  <2> QED
    BY <1>1, <1>2, <2>1, <2>2, GoesMoves, TellMoves
<1>4. ASSUME NEW p \in {"check", "look", "clean"}, NEW j \in Kinds, NEW v \in {"none", "exists", "failed"},
             Moves(u, p, j, v), v = "none" <=> p # "clean", p = "look" => j = "dir"
      PROVE  UnpackInv'
  <2>1. OwnUnpack(u)'
    <3>1. at'[u] = <<p, j>> /\ verdict'[u] = v
      BY <1>4 DEF Moves
    <3>2. PublishedSoFar(u)' /\ ToldSoFar(u)'
      BY <1>1, <1>2, <1>4, <3>1 DEF PublishedSoFar, ToldSoFar, PhaseOf, UnpackAt, Succeeded, Preparing, Forward
    <3>3. StashedSoFar(u)'
      BY <1>1, <1>2, <1>4, <3>1 DEF StashedSoFar, PhaseOf, UnpackAt, Succeeded, NoStash, Preparing, Kinds
    <3>4. StagedSoFar(u)'
      BY <1>1, <1>2, <1>4, <3>1 DEF StagedSoFar, PhaseOf, UnpackAt, Kinds
    <3> QED
      BY <3>2, <3>3, <3>4 DEF OwnUnpack
  <2>2. p \in UnpackPhases /\ p # "probe"
    BY DEF UnpackPhases
  <2>3. faults' \in 0 .. MaxIoFaults
    BY <1>1, FaultCounts
  <2>4. undoFailed' = undoFailed /\ undoFailed \in [Unpacks -> BOOLEAN]
    BY <1>1 DEF UnpackTypes
  <2> QED
    BY <1>1, <1>2, <1>4, <2>1, <2>2, <2>3, <2>4, QuietStep
<1> QED
  BY <1>3, <1>4 DEF Kinds

\* Where undoing begins, nothing has to hold but what holds of any unpack.
LEMMA UndoIsOwn ==
    ASSUME NEW u \in Unpacks, at'[u] = <<"find", "toc">>, verdict'[u] = "none", deleted'[u] = {},
           ~undoFailed'[u] => \A k \in Kinds : staged'[u][k] \in {None, New(u, k)}
    PROVE  OwnUnpack(u)'
<1>1. PublishedSoFar(u)' /\ ToldSoFar(u)'
  BY DEF PublishedSoFar, ToldSoFar, PhaseOf, UnpackAt, Succeeded, Preparing, Forward
<1>2. StashedSoFar(u)'
  BY DEF StashedSoFar, PhaseOf, UnpackAt, Succeeded, Preparing
<1>3. StagedSoFar(u)'
  BY DEF StagedSoFar, PhaseOf, UnpackAt
<1> QED
  BY <1>1, <1>2, <1>3 DEF OwnUnpack

LEMMA LookKeepsInv ==
    ASSUME UnpackInv, overwrite' = overwrite, NEW u \in Unpacks, NEW k \in Kinds, Look(u, k)
    PROVE  UnpackInv'
<1>1. /\ at[u] = <<"look", k>> /\ UnpackTypes /\ OwnUnpack(u)
      /\ UNCHANGED <<dest, staged, stash, initial, moved, published, undoFailed, deleted, meddled>>
      /\ Fault \/ faults' = faults
  BY DEF Look, UnpackAt, UnpackInv
<1>2. /\ published[u] = {} /\ stash[u][k] = None /\ (\A j \in Kinds : staged[u][j] = New(u, j)) /\ ~undoFailed[u]
      /\ deleted[u] = {} /\ verdict[u] = "none" /\ (\A j \in Kinds : stash[u][j] \in {None, initial[u][j]})
      /\ k = "dir" => NoStash(u)
  <2>1. published[u] = {} /\ (\A j \in Kinds : staged[u][j] = New(u, j)) /\ ~undoFailed[u]
        /\ deleted[u] = {} /\ verdict[u] = "none"
    BY <1>1 DEF OwnUnpack, PublishedSoFar, StagedSoFar, ToldSoFar, PhaseOf, Forward
  <2>2. (\A j \in Kinds : stash[u][j] \in {None, initial[u][j]}) /\ (k = "dir" => NoStash(u))
        /\ (k = "toc" => stash[u]["toc"] = None)
    BY <1>1 DEF OwnUnpack, StashedSoFar, PhaseOf, UnpackAt
  <2> QED
    BY <2>1, <2>2 DEF Kinds, NoStash
<1>3. \/ k = "dir" /\ Moves(u, "look", "toc", "none")
      \/ k = "toc" /\ Moves(u, "publish", "dir", "none")
      \/ Moves(u, "stash", k, "none") \/ Moves(u, "find", "toc", "none")
  <2>1. {"look", "publish", "stash", "find"} \subseteq UnpackPhases /\ {"dir", "toc"} \subseteq Kinds
    BY DEF UnpackPhases, Kinds
  <2>2. \/ k = "dir" /\ UnpackGoes(u, "look", "toc")
        \/ k = "toc" /\ UnpackGoes(u, "publish", "dir")
        \/ UnpackGoes(u, "stash", k) \/ UnpackGoes(u, "find", "toc")
    <3>1. Forth(u, k, "look", "publish") \/ UnpackGoes(u, "stash", k) \/ Undo(u)
      BY DEF Look
    <3>2. Undo(u) => UnpackGoes(u, "find", "toc")
      BY DEF Undo
    <3>3. CASE k = "dir"
      <4>1. Forth(u, k, "look", "publish") => UnpackGoes(u, "look", "toc")
        BY <3>3 DEF Forth
      <4> QED
        BY <3>1, <3>2, <3>3, <4>1
    <3>4. CASE k = "toc"
      <4>1. Forth(u, k, "look", "publish") => UnpackGoes(u, "publish", "dir")
        BY <3>4 DEF Forth
      <4> QED
        BY <3>1, <3>2, <3>4, <4>1
    <3> QED
      BY <3>3, <3>4 DEF Kinds
  <2> QED
    BY <1>1, <1>2, <2>1, <2>2, GoesMoves
<1>4. ASSUME NEW p \in {"look", "publish", "stash"}, NEW j \in Kinds, Moves(u, p, j, "none"),
             p = "look" => j = "toc" /\ k = "dir", p = "publish" => j = "dir", p = "stash" => j = k
      PROVE  OwnUnpack(u)'
  <2>1. at'[u] = <<p, j>> /\ verdict'[u] = "none"
    BY <1>4 DEF Moves
  <2>2. PublishedSoFar(u)' /\ ToldSoFar(u)'
    BY <1>1, <1>2, <1>4, <2>1 DEF PublishedSoFar, ToldSoFar, PhaseOf, UnpackAt, Succeeded, Preparing, Forward
  <2>3. StashedSoFar(u)'
    BY <1>1, <1>2, <1>4, <2>1 DEF StashedSoFar, PhaseOf, UnpackAt, Succeeded, NoStash, Preparing, Kinds
  <2>4. StagedSoFar(u)'
    BY <1>1, <1>2, <1>4, <2>1 DEF StagedSoFar, PhaseOf, UnpackAt, Kinds
  <2> QED
    BY <2>2, <2>3, <2>4 DEF OwnUnpack
<1>5. ASSUME NEW p \in {"look", "publish", "stash", "find"}, NEW j \in Kinds, Moves(u, p, j, "none"),
             OwnUnpack(u)'
      PROVE  UnpackInv'
  <2>1. p \in UnpackPhases /\ p # "probe"
    BY DEF UnpackPhases
  <2>2. faults' \in 0 .. MaxIoFaults
    BY <1>1, FaultCounts
  <2>3. undoFailed' = undoFailed /\ undoFailed \in [Unpacks -> BOOLEAN]
    BY <1>1 DEF UnpackTypes
  <2> QED
    BY <1>1, <1>2, <1>5, <2>1, <2>2, <2>3, QuietStep
<1>6. CASE Moves(u, "find", "toc", "none")
  <2>1. OwnUnpack(u)'
    BY <1>1, <1>2, <1>6, UndoIsOwn DEF Moves
  <2> QED
    BY <1>5, <1>6, <2>1 DEF Kinds
<1>7. "dir" \in Kinds /\ "toc" \in Kinds
  BY DEF Kinds
<1> QED
  BY <1>3, <1>4, <1>5, <1>6, <1>7

\* Nothing of an unpack is at a destination while it probes.
LEMMA NotYetThere ==
    ASSUME UnpackInv, NEW v \in Unpacks, PhaseOf(v) = "probe", NEW i \in Kinds, NEW j \in Kinds
    PROVE  dest[j] # New(v, i)
<1>1. published[v] = {} /\ ~undoFailed[v]
  BY DEF UnpackInv, OwnUnpack, PublishedSoFar, ToldSoFar, Preparing, Forward
<1>2. Hidden(v, i)
  BY DEF UnpackInv, EntriesMove
<1>3. dest[j] = New(v, i) => i = j
  BY DEF UnpackInv, EntriesMove, Placed, KindsAreKept
<1> QED
  BY <1>1, <1>2, <1>3 DEF Hidden

\* Whoever is found is ranked below the finder.
LEMMA FindingIsOrderly ==
    ASSUME UnpackInv, NEW u \in Unpacks, NEW k \in Kinds, PhaseOf(u) = "probe",
           initial' = [initial EXCEPT ![u][k] = dest[k]],
           \A w \in Unpacks : w # u => at'[w] = at[w]
    PROVE  Seen' /\ Ranked'
<1>1. /\ initial'[u][k] = dest[k]
      /\ \A w \in Unpacks, j \in Kinds : w # u \/ j # k => initial'[w][j] = initial[w][j]
  BY SetSlot DEF UnpackInv, UnpackTypes, Slots
<1> HIDE DEF New
<1>2. ASSUME NEW v \in Unpacks, NEW w \in Unpacks, NEW i \in Kinds, NEW j \in Kinds,
             initial'[w][j] = New(v, i)
      PROVE  v # u /\ PhaseOf(v) # "probe" /\ (w # u => initial[w][j] = New(v, i))
  <2>1. CASE w = u /\ j = k
    BY <1>1, <1>2, <2>1, NotYetThere
  <2>2. CASE ~(w = u /\ j = k)
    BY <1>1, <1>2, <2>2 DEF UnpackInv, Seen
  <2> QED
    BY <2>1, <2>2
<1>3. Seen'
  BY <1>2 DEF Seen, PhaseOf
<1>4. Ranked'
  <2>1. PICK N \in Nat : \E rank \in [Unpacks -> 0 .. N] :
          \A v, w \in Unpacks, i, j \in Kinds : initial[w][j] = New(v, i) => rank[v] < rank[w]
    BY DEF UnpackInv, Ranked
  <2>2. PICK rank \in [Unpacks -> 0 .. N] :
          \A v, w \in Unpacks, i, j \in Kinds : initial[w][j] = New(v, i) => rank[v] < rank[w]
    BY <2>1
  <2> DEFINE r == [rank EXCEPT ![u] = N + 1]
  <2>3. r \in [Unpacks -> 0 .. N + 1]
    BY <2>1, <2>2
  <2>4. r[u] = N + 1 /\ \A v \in Unpacks : v # u => r[v] = rank[v] /\ rank[v] \in 0 .. N
    BY <2>2
  <2> HIDE DEF r
  <2>5. ASSUME NEW v \in Unpacks, NEW w \in Unpacks, NEW i \in Kinds, NEW j \in Kinds,
               initial'[w][j] = New(v, i)
        PROVE  r[v] < r[w]
    <3>1. v # u /\ (w # u => initial[w][j] = New(v, i))
      BY <1>2, <2>5
    <3>2. w # u => rank[v] < rank[w]
      BY <2>2, <3>1
    <3> QED
      BY <2>1, <2>4, <3>1, <3>2
  <2>6. N + 1 \in Nat
    BY <2>1
  <2>7. \A v, w \in Unpacks, i, j \in Kinds : initial'[w][j] = New(v, i) => r[v] < r[w]
    BY <2>5
  <2> QED
    BY <2>3, <2>6, <2>7 DEF Ranked
<1> QED
  BY <1>3, <1>4

LEMMA ProbeKeepsInv ==
    ASSUME UnpackInv, overwrite' = overwrite, NEW u \in Unpacks, NEW k \in Kinds, Probe(u, k)
    PROVE  UnpackInv'
<1>1. /\ at[u] = <<"probe", k>> /\ UnpackTypes /\ OwnUnpack(u)
      /\ UNCHANGED <<dest, staged, stash, moved, published, undoFailed, deleted, meddled>>
      /\ Fault \/ faults' = faults
      /\ initial' = [initial EXCEPT ![u][k] = dest[k]] \/ initial' = initial
  BY DEF Probe, UnpackAt, UnpackInv
<1>2. /\ published[u] = {} /\ NoStash(u) /\ (\A j \in Kinds : staged[u][j] \in {None, New(u, j)})
      /\ ~undoFailed[u] /\ deleted[u] = {} /\ verdict[u] = "none"
  BY <1>1 DEF OwnUnpack, PublishedSoFar, StashedSoFar, StagedSoFar, ToldSoFar, PhaseOf, Preparing, Forward
<1>3. \/ Moves(u, "probe", "toc", "none")
      \/ Moves(u, "expand", "dir", "none")
      \/ Moves(u, "end", "dir", "exists")
      \/ Moves(u, "end", "dir", "failed")
  <2>1. {"probe", "expand", "end"} \subseteq UnpackPhases /\ {"dir", "toc"} \subseteq Kinds
    BY DEF UnpackPhases, Kinds
  <2>2. \/ UnpackGoes(u, "probe", "toc")
        \/ UnpackGoes(u, "expand", "dir")
        \/ Tell(u, "end", "exists")
        \/ Tell(u, "end", "failed")
    BY DEF Probe, Forth
  <2> QED
    BY <1>1, <1>2, <2>1, <2>2, GoesMoves, TellMoves
<1>4. ASSUME NEW p \in {"probe", "expand", "end"}, NEW j \in Kinds, NEW v \in {"none", "exists", "failed"},
             Moves(u, p, j, v), v = "none" <=> p # "end"
      PROVE  UnpackInv'
  <2>1. OwnUnpack(u)'
    <3>1. at'[u] = <<p, j>> /\ verdict'[u] = v
      BY <1>4 DEF Moves
    <3>2. PublishedSoFar(u)' /\ ToldSoFar(u)'
      BY <1>1, <1>2, <1>4, <3>1 DEF PublishedSoFar, ToldSoFar, PhaseOf, UnpackAt, Succeeded, Preparing, Forward
    <3>3. StashedSoFar(u)'
      BY <1>1, <1>2, <1>4, <3>1 DEF StashedSoFar, PhaseOf, UnpackAt, Succeeded, NoStash, Preparing, Kinds
    <3>4. StagedSoFar(u)'
      BY <1>1, <1>2, <1>4, <3>1 DEF StagedSoFar, PhaseOf, UnpackAt, Kinds
    <3> QED
      BY <3>2, <3>3, <3>4 DEF OwnUnpack
  <2>2. \A w \in Unpacks : w # u => at'[w] = at[w] /\ verdict'[w] = verdict[w]
    BY <1>4 DEF Moves
  <2>3. \A w \in Unpacks : w # u => initial'[w] = initial[w]
    BY <1>1, SetSlot DEF UnpackTypes, Slots
  <2>4. Seen' /\ Ranked'
    <3>1. CASE initial' = [initial EXCEPT ![u][k] = dest[k]]
      <4>1. PhaseOf(u) = "probe" /\ \A w \in Unpacks : w # u => at'[w] = at[w]
        BY <1>1, <2>2 DEF PhaseOf
      <4> QED
        BY <3>1, <4>1, FindingIsOrderly
    <3>2. CASE initial' = initial
      <4>1. \A w \in Unpacks : PhaseOf(w)' = "probe" => PhaseOf(w) = "probe"
        BY <1>1, <2>2 DEF PhaseOf
      <4> QED
        BY <3>2, <4>1, StillOrder DEF UnpackInv
    <3> QED
      BY <1>1, <3>1, <3>2
  <2>5. Grows
    BY <1>1, <1>2, <2>2, <2>3 DEF Grows, Succeeded
  <2>6. EntriesMove'
    BY <1>1, <2>5, StillEntries DEF UnpackInv
  <2>7. UnpackTypes'
    <3>1. initial' \in [Unpacks -> Slots]
      <4>1. initial \in [Unpacks -> Slots] /\ dest[k] \in Entries \cup {None}
        BY <1>1 DEF UnpackTypes, Slots
      <4>2. initial' = [initial EXCEPT ![u][k] = dest[k]] => initial' \in [Unpacks -> Slots]
        BY <4>1 DEF Slots
      <4> QED
        BY <1>1, <4>1, <4>2
    <3>2. faults' \in 0 .. MaxIoFaults
      BY <1>1, FaultCounts
    <3> QED
      BY <1>1, <1>4, <3>1, <3>2 DEF UnpackTypes, Moves
  <2>8. \A w \in Unpacks : w # u => SameUnpack(w)
    BY <1>1, <2>2, <2>3 DEF SameUnpack
  <2> QED
    BY <2>1, <2>4, <2>6, <2>7, <2>8, OneUnpackMoves
<1> QED
  BY <1>3, <1>4 DEF Kinds

\* A step that moves entries.
LEMMA LoudStep ==
    ASSUME UnpackInv, UnpackTypes', EntriesMove', NEW u \in Unpacks, NEW p, NEW k, NEW v,
           Moves(u, p, k, v), p # "probe", initial' = initial, OwnUnpack(u)',
           \A w \in Unpacks : w # u =>
             /\ published'[w] = published[w] /\ undoFailed'[w] = undoFailed[w] /\ deleted'[w] = deleted[w]
             /\ \A j \in Kinds : stash'[w][j] = stash[w][j] /\ staged'[w][j] = staged[w][j]
    PROVE  UnpackInv'
<1>1. Seen' /\ Ranked'
  BY StillOrder DEF UnpackInv, Moves, PhaseOf
<1>2. \A w \in Unpacks : w # u => SameUnpack(w)
  BY DEF SameUnpack, Moves
<1> QED
  BY <1>1, <1>2, OneUnpackMoves

LEMMA ExpandKeepsInv ==
    ASSUME UnpackInv, overwrite' = overwrite, NEW u \in Unpacks, Expand(u)
    PROVE  UnpackInv'
<1>1. /\ at[u] = <<"expand", "dir">> /\ UnpackTypes /\ OwnUnpack(u)
      /\ UNCHANGED <<dest, stash, initial, moved, published, undoFailed, deleted, meddled, faults>>
      /\ staged' = [staged EXCEPT ![u] = [k \in Kinds |-> New(u, k)]]
  BY DEF Expand, UnpackAt, UnpackInv
<1>2. published[u] = {} /\ NoStash(u) /\ ~undoFailed[u] /\ deleted[u] = {} /\ verdict[u] = "none"
  BY <1>1 DEF OwnUnpack, PublishedSoFar, StashedSoFar, ToldSoFar, PhaseOf, Preparing, Forward
<1>3. \/ Moves(u, "check", "dir", "none")
      \/ Moves(u, "look", "dir", "none")
      \/ Moves(u, "clean", "dir", "failed")
  <2>1. {"check", "look", "clean"} \subseteq UnpackPhases /\ "dir" \in Kinds
    BY DEF UnpackPhases, Kinds
  <2>2. UnpackGoes(u, "check", "dir") \/ UnpackGoes(u, "look", "dir") \/ Tell(u, "clean", "failed")
    BY DEF Expand
  <2> QED
    BY <1>1, <1>2, <2>1, <2>2, GoesMoves, TellMoves
<1>4. /\ staged' \in [Unpacks -> Slots] /\ (\A j \in Kinds : staged'[u][j] = New(u, j))
      /\ \A w \in Unpacks : w # u => staged'[w] = staged[w]
  <2>1. [k \in Kinds |-> New(u, k)] \in Slots
    BY NewIsOwn DEF Slots
  <2> QED
    BY <1>1, <2>1 DEF UnpackTypes
<1>5. ASSUME NEW p \in {"check", "look", "clean"}, NEW v \in {"none", "failed"},
             Moves(u, p, "dir", v), v = "none" <=> p # "clean"
      PROVE  UnpackInv'
  <2>1. OwnUnpack(u)'
    <3>1. at'[u] = <<p, "dir">> /\ verdict'[u] = v
      BY <1>5 DEF Moves
    <3>2. PublishedSoFar(u)' /\ ToldSoFar(u)'
      BY <1>1, <1>2, <1>5, <3>1 DEF PublishedSoFar, ToldSoFar, PhaseOf, UnpackAt, Succeeded, Preparing, Forward
    <3>3. StashedSoFar(u)'
      BY <1>1, <1>2, <1>5, <3>1 DEF StashedSoFar, PhaseOf, UnpackAt, Succeeded, NoStash, Preparing, Kinds
    <3>4. StagedSoFar(u)'
      BY <1>1, <1>4, <1>5, <3>1 DEF StagedSoFar, PhaseOf, UnpackAt, Kinds
    <3> QED
      BY <3>2, <3>3, <3>4 DEF OwnUnpack
  <2>2. EntriesMove'
    <3>1. \A w \in Unpacks : undoFailed[w] => undoFailed'[w]
      BY <1>1
    <3>2. Grows
      BY <1>1, <1>2, <1>5, <3>1, StillGrows
    <3> QED
      BY <1>1, <1>2, <3>2, ExpandMoves DEF UnpackInv
  <2>3. UnpackTypes'
    BY <1>1, <1>4, <1>5 DEF UnpackTypes, Moves
  <2> QED
    BY <1>1, <1>4, <1>5, <2>1, <2>2, <2>3, LoudStep
<1> QED
  BY <1>3, <1>5

LEMMA StashKeepsInv ==
    ASSUME UnpackInv, overwrite' = overwrite, NEW u \in Unpacks, NEW k \in Kinds, Stash(u, k)
    PROVE  UnpackInv'
<1>1. /\ at[u] = <<"stash", k>> /\ UnpackTypes /\ OwnUnpack(u)
      /\ UNCHANGED <<staged, initial, published, undoFailed, deleted, meddled>>
      /\ Fault \/ faults' = faults
  BY DEF Stash, UnpackAt, UnpackInv
<1>2. /\ published[u] = {} /\ stash[u][k] = None /\ (\A j \in Kinds : staged[u][j] = New(u, j)) /\ ~undoFailed[u]
      /\ deleted[u] = {} /\ verdict[u] = "none" /\ (\A j \in Kinds : stash[u][j] \in {None, initial[u][j]})
      /\ k = "dir" => NoStash(u)
  <2>1. published[u] = {} /\ (\A j \in Kinds : staged[u][j] = New(u, j)) /\ ~undoFailed[u]
        /\ deleted[u] = {} /\ verdict[u] = "none"
    BY <1>1 DEF OwnUnpack, PublishedSoFar, StagedSoFar, ToldSoFar, PhaseOf, Forward
  <2>2. (\A j \in Kinds : stash[u][j] \in {None, initial[u][j]}) /\ (k = "dir" => NoStash(u))
        /\ (k = "toc" => stash[u]["toc"] = None)
    BY <1>1 DEF OwnUnpack, StashedSoFar, PhaseOf, UnpackAt
  <2> QED
    BY <2>1, <2>2 DEF Kinds, NoStash
<1>3. {"look", "publish", "find"} \subseteq UnpackPhases /\ {"dir", "toc"} \subseteq Kinds
  BY DEF UnpackPhases, Kinds
<1>4. faults' \in 0 .. MaxIoFaults /\ undoFailed' = undoFailed /\ undoFailed \in [Unpacks -> BOOLEAN]
  BY <1>1, FaultCounts DEF UnpackTypes
<1>5. CASE Undo(u) /\ UNCHANGED <<dest, stash, moved>>
  <2>1. Moves(u, "find", "toc", "none")
    BY <1>1, <1>2, <1>3, <1>5, GoesMoves DEF Undo
  <2>2. OwnUnpack(u)'
    BY <1>1, <1>2, <2>1, UndoIsOwn DEF Moves
  <2> QED
    BY <1>1, <1>2, <1>3, <1>4, <1>5, <2>1, <2>2, QuietStep
<1>6. ASSUME StashIt(u, k), moved' = moved \/ moved' = [moved EXCEPT ![u][k] = dest[k]],
             NEW p \in {"look", "publish", "find"}, NEW j \in Kinds, Moves(u, p, j, "none"), OwnUnpack(u)'
      PROVE  UnpackInv'
  <2>1. Grows
    <3>1. \A w \in Unpacks : undoFailed[w] => undoFailed'[w]
      BY <1>1
    <3> QED
      BY <1>1, <1>2, <1>6, <3>1, StillGrows
  <2>2. EntriesMove'
    BY <1>1, <1>2, <1>6, <2>1, StashMoves DEF UnpackInv
  <2>3. dest[k] \in Entries \cup {None} /\ None \in Entries \cup {None}
    BY <1>1 DEF UnpackTypes, Slots
  <2>4. stash' \in [Unpacks -> Slots] /\ dest' \in Slots /\ moved' \in [Unpacks -> Slots]
        /\ \A w \in Unpacks : w # u => stash'[w] = stash[w]
    <3>1. stash \in [Unpacks -> Slots] /\ moved \in [Unpacks -> Slots] /\ dest \in Slots
          /\ stash' = [stash EXCEPT ![u][k] = dest[k]] /\ dest' = [dest EXCEPT ![k] = None]
      BY <1>1, <1>6 DEF StashIt, UnpackTypes
    <3>2. stash' \in [Unpacks -> Slots] /\ \A w \in Unpacks : w # u => stash'[w] = stash[w]
      BY <2>3, <3>1 DEF Slots
    <3>3. dest' \in Slots
      BY <2>3, <3>1 DEF Slots
    <3>4. moved' \in [Unpacks -> Slots]
      BY <1>6, <2>3, <3>1 DEF Slots
    <3> QED
      BY <3>2, <3>3, <3>4
  <2>5. UnpackTypes'
    BY <1>1, <1>4, <1>6, <2>4 DEF UnpackTypes, Moves
  <2> QED
    BY <1>1, <1>6, <2>2, <2>4, <2>5, LoudStep
<1>7. CASE /\ StashIt(u, k) /\ Undo(u)
           /\ moved' = moved \/ moved' = [moved EXCEPT ![u][k] = dest[k]]
  <2>1. Moves(u, "find", "toc", "none")
    BY <1>1, <1>2, <1>3, <1>7, GoesMoves DEF Undo
  <2>2. OwnUnpack(u)'
    BY <1>1, <1>2, <2>1, UndoIsOwn DEF Moves
  <2> QED
    BY <1>3, <1>6, <1>7, <2>1, <2>2
<1>8. CASE /\ StashIt(u, k) /\ dest[k] = initial[u][k] /\ Forth(u, k, "look", "publish")
           /\ moved' = [moved EXCEPT ![u][k] = dest[k]]
  <2>1. stash'[u][k] = initial[u][k] /\ \A j \in Kinds : j # k => stash'[u][j] = stash[u][j]
    BY <1>1, <1>8 DEF StashIt, UnpackTypes, Slots
  <2>2. \/ k = "dir" /\ Moves(u, "look", "toc", "none")
        \/ k = "toc" /\ Moves(u, "publish", "dir", "none")
    <3>1. k = "dir" \/ k = "toc"
      BY DEF Kinds
    <3>2. CASE k = "dir"
      <4>1. UnpackGoes(u, "look", "toc")
        BY <1>8, <3>2 DEF Forth
      <4> QED
        BY <1>1, <1>2, <1>3, <3>2, <4>1, GoesMoves
    <3>3. CASE k = "toc"
      <4>1. UnpackGoes(u, "publish", "dir")
        BY <1>8, <3>3 DEF Forth
      <4> QED
        BY <1>1, <1>2, <1>3, <3>3, <4>1, GoesMoves
    <3> QED
      BY <3>1, <3>2, <3>3
  <2>3. ASSUME NEW p \in {"look", "publish"}, NEW j \in Kinds, Moves(u, p, j, "none"),
               p = "look" => j = "toc" /\ k = "dir", p = "publish" => j = "dir"
        PROVE  OwnUnpack(u)'
    <3>1. at'[u] = <<p, j>> /\ verdict'[u] = "none"
      BY <2>3 DEF Moves
    <3>2. PublishedSoFar(u)' /\ ToldSoFar(u)'
      BY <1>1, <1>2, <2>3, <3>1 DEF PublishedSoFar, ToldSoFar, PhaseOf, UnpackAt, Succeeded, Preparing, Forward
    <3>3. StashedSoFar(u)'
      BY <1>1, <1>2, <2>1, <2>3, <3>1 DEF StashedSoFar, PhaseOf, UnpackAt, Succeeded, NoStash, Preparing, Kinds
    <3>4. StagedSoFar(u)'
      BY <1>1, <1>2, <2>3, <3>1 DEF StagedSoFar, PhaseOf, UnpackAt, Kinds
    <3> QED
      BY <3>2, <3>3, <3>4 DEF OwnUnpack
  <2>4. "dir" \in Kinds /\ "toc" \in Kinds
    BY DEF Kinds
  <2> QED
    BY <1>6, <1>8, <2>2, <2>3, <2>4
<1> QED
  BY <1>5, <1>7, <1>8 DEF Stash

LEMMA PutInPlaceKeepsInv ==
    ASSUME UnpackInv, overwrite' = overwrite, NEW u \in Unpacks, NEW k \in Kinds, Publish(u, k)
    PROVE  UnpackInv'
<1>1. /\ at[u] = <<"publish", k>> /\ UnpackTypes /\ OwnUnpack(u)
      /\ UNCHANGED <<stash, initial, moved, undoFailed, deleted, meddled>>
      /\ Fault \/ faults' = faults
  BY DEF Publish, UnpackAt, UnpackInv
<1>2. /\ ~undoFailed[u] /\ deleted[u] = {} /\ verdict[u] = "none" /\ staged[u][k] = New(u, k)
      /\ \A j \in Kinds : stash[u][j] \in {None, initial[u][j]} /\ staged[u][j] \in {None, New(u, j)}
  <2>1. ~undoFailed[u] /\ deleted[u] = {} /\ verdict[u] = "none"
    BY <1>1 DEF OwnUnpack, ToldSoFar, PhaseOf, Forward
  <2>2. \A j \in Kinds : stash[u][j] \in {None, initial[u][j]}
    BY <1>1 DEF OwnUnpack, StashedSoFar, PhaseOf, UnpackAt
  <2>3. k = "dir" \/ k = "toc"
    BY DEF Kinds
  <2>4. staged[u][k] = New(u, k) /\ \A j \in Kinds : staged[u][j] \in {None, New(u, j)}
    BY <1>1, <2>1, <2>3 DEF OwnUnpack, StagedSoFar, PhaseOf, UnpackAt
  <2> QED
    BY <2>1, <2>2, <2>4
<1>3. /\ k = "dir" => published[u] = {} /\ staged[u]["toc"] = New(u, "toc")
      /\ k = "toc" => published[u] = {"dir"}
  <2>1. CASE k = "dir"
    BY <1>1, <2>1 DEF OwnUnpack, PublishedSoFar, StagedSoFar, UnpackAt, Kinds
  <2>2. CASE k = "toc"
    BY <1>1, <2>2 DEF OwnUnpack, PublishedSoFar, UnpackAt, Kinds
  <2> QED
    BY <2>1, <2>2 DEF Kinds
<1>4. {"confirm", "find"} \subseteq UnpackPhases /\ {"dir", "toc"} \subseteq Kinds
  BY DEF UnpackPhases, Kinds
<1>5. faults' \in 0 .. MaxIoFaults /\ undoFailed' = undoFailed /\ undoFailed \in [Unpacks -> BOOLEAN]
  BY <1>1, FaultCounts DEF UnpackTypes
<1>6. CASE Undo(u) /\ UNCHANGED <<dest, staged, published>>
  <2>1. Moves(u, "find", "toc", "none")
    BY <1>1, <1>2, <1>4, <1>6, GoesMoves DEF Undo
  <2>2. OwnUnpack(u)'
    BY <1>1, <1>2, <1>6, <2>1, UndoIsOwn DEF Moves
  <2> QED
    BY <1>1, <1>2, <1>4, <1>5, <1>6, <2>1, <2>2, QuietStep
<1>7. CASE /\ dest[k] = None /\ dest' = [dest EXCEPT ![k] = staged[u][k]]
           /\ staged' = [staged EXCEPT ![u][k] = None]
           /\ published' = [published EXCEPT ![u] = @ \cup {k}]
           /\ UnpackGoes(u, "confirm", k)
  <2>1. Moves(u, "confirm", k, "none")
    BY <1>1, <1>2, <1>4, <1>7, GoesMoves
  <2>2. /\ published' \in [Unpacks -> SUBSET Kinds] /\ published'[u] = published[u] \cup {k}
        /\ \A w \in Unpacks : w # u => published'[w] = published[w]
    BY <1>1, <1>7 DEF UnpackTypes
  <2>3. /\ staged' \in [Unpacks -> Slots] /\ staged'[u][k] = None
        /\ \A w \in Unpacks : w # u => staged'[w] = staged[w]
        /\ \A j \in Kinds : j # k => staged'[u][j] = staged[u][j]
    <3>1. staged \in [Unpacks -> Slots] /\ None \in Entries \cup {None}
      BY <1>1 DEF UnpackTypes
    <3> QED
      BY <1>7, <3>1, SetSlot DEF Slots
  <2>4. dest' \in Slots
    <3>1. staged[u][k] \in Entries \cup {None} /\ dest \in Slots
      BY <1>1 DEF UnpackTypes, Slots
    <3> QED
      BY <1>7, <3>1 DEF Slots
  <2>5. UnpackTypes'
    BY <1>1, <1>5, <2>1, <2>2, <2>3, <2>4 DEF UnpackTypes, Moves
  <2>6. EntriesMove'
    <3>1. \A w \in Unpacks : undoFailed[w] => undoFailed'[w]
      BY <1>1
    <3>2. Grows
      BY <1>1, <1>2, <2>1, <3>1, StillGrows
    <3> QED
      BY <1>1, <1>2, <1>7, <3>2, PublishMoves DEF UnpackInv
  <2>7. OwnUnpack(u)'
    <3>1. at'[u] = <<"confirm", k>> /\ verdict'[u] = "none"
      BY <2>1 DEF Moves
    <3>2. (k = "dir" => published'[u] = {"dir"}) /\ (k = "toc" => published'[u] = Kinds)
      BY <1>3, <2>2 DEF Kinds
    <3>3. PublishedSoFar(u)' /\ ToldSoFar(u)'
      BY <1>1, <1>2, <3>1, <3>2 DEF PublishedSoFar, ToldSoFar, PhaseOf, UnpackAt, Succeeded, Preparing, Forward
    <3>4. StashedSoFar(u)'
      BY <1>1, <1>2, <3>1 DEF StashedSoFar, PhaseOf, UnpackAt, Succeeded, NoStash, Preparing, Kinds
    <3>5. StagedSoFar(u)'
      <4>1. k = "dir" => staged'[u]["toc"] = New(u, "toc")
        BY <1>3, <1>4, <2>3
      <4>2. \A j \in Kinds : staged'[u][j] \in {None, New(u, j)}
        BY <1>2, <2>3
      <4> QED
        BY <3>1, <4>1, <4>2 DEF StagedSoFar, PhaseOf, UnpackAt
    <3> QED
      BY <3>3, <3>4, <3>5 DEF OwnUnpack
  <2>8. \A w \in Unpacks : w # u =>
          /\ published'[w] = published[w] /\ undoFailed'[w] = undoFailed[w] /\ deleted'[w] = deleted[w]
          /\ \A j \in Kinds : stash'[w][j] = stash[w][j] /\ staged'[w][j] = staged[w][j]
    BY <1>1, <2>2, <2>3
  <2> QED
    BY <1>1, <2>1, <2>5, <2>6, <2>7, <2>8, LoudStep
<1> QED
  BY <1>6, <1>7 DEF Publish

LEMMA ConfirmKeepsInv ==
    ASSUME UnpackInv, overwrite' = overwrite, NEW u \in Unpacks, NEW k \in Kinds, Confirm(u, k)
    PROVE  UnpackInv'
<1>1. /\ at[u] = <<"confirm", k>> /\ UnpackTypes /\ OwnUnpack(u)
      /\ UNCHANGED <<dest, staged, stash, initial, moved, published, deleted, meddled>>
      /\ Fault \/ faults' = faults
      /\ UndoFails(u) \/ undoFailed' = undoFailed
  BY DEF Confirm, UnpackAt, UnpackInv
<1>2. /\ ~undoFailed[u] /\ deleted[u] = {} /\ verdict[u] = "none"
      /\ \A j \in Kinds : stash[u][j] \in {None, initial[u][j]} /\ staged[u][j] \in {None, New(u, j)}
  <2>1. ~undoFailed[u] /\ deleted[u] = {} /\ verdict[u] = "none"
    BY <1>1 DEF OwnUnpack, ToldSoFar, PhaseOf, Forward
  <2>2. \A j \in Kinds : stash[u][j] \in {None, initial[u][j]}
    BY <1>1 DEF OwnUnpack, StashedSoFar, PhaseOf, UnpackAt
  <2>3. \A j \in Kinds : staged[u][j] \in {None, New(u, j)}
    BY <1>1, <2>1 DEF OwnUnpack, StagedSoFar
  <2> QED
    BY <2>1, <2>2, <2>3
<1>3. /\ k = "dir" => published[u] = {"dir"} /\ staged[u]["toc"] = New(u, "toc")
      /\ k = "toc" => published[u] = Kinds
  <2>1. CASE k = "dir"
    BY <1>1, <2>1 DEF OwnUnpack, PublishedSoFar, StagedSoFar, UnpackAt
  <2>2. CASE k = "toc"
    BY <1>1, <2>2 DEF OwnUnpack, PublishedSoFar, UnpackAt
  <2> QED
    BY <2>1, <2>2 DEF Kinds
<1>4. {"publish", "clean", "find"} \subseteq UnpackPhases /\ {"dir", "toc"} \subseteq Kinds
  BY DEF UnpackPhases, Kinds
<1>5. /\ faults' \in 0 .. MaxIoFaults /\ undoFailed' \in [Unpacks -> BOOLEAN]
      /\ \A w \in Unpacks : w # u => undoFailed'[w] = undoFailed[w]
      /\ undoFailed[u] => undoFailed'[u]
  BY <1>1, FaultCounts, FailedIsKept
<1>6. ASSUME NEW p \in {"publish", "clean", "find"}, NEW j \in Kinds, NEW v \in {"none", "ok"}, Moves(u, p, j, v),
             OwnUnpack(u)'
      PROVE  UnpackInv'
  <2>1. p \in UnpackPhases /\ p # "probe"
    BY <1>4
  <2> QED
    BY <1>1, <1>2, <1>5, <1>6, <2>1, QuietStep
<1>7. CASE Undo(u)
  <2>1. Moves(u, "find", "toc", "none")
    BY <1>1, <1>2, <1>4, <1>7, GoesMoves DEF Undo
  <2>2. OwnUnpack(u)'
    BY <1>1, <1>2, <2>1, UndoIsOwn DEF Moves
  <2> QED
    BY <1>4, <1>6, <2>1, <2>2
<1>8. CASE k = "dir" /\ UnpackGoes(u, "publish", "toc") /\ undoFailed' = undoFailed
  <2>1. Moves(u, "publish", "toc", "none")
    BY <1>1, <1>2, <1>4, <1>8, GoesMoves
  <2>2. at'[u] = <<"publish", "toc">> /\ verdict'[u] = "none"
    BY <2>1 DEF Moves
  <2>3. OwnUnpack(u)'
    <3>1. PublishedSoFar(u)' /\ ToldSoFar(u)'
      BY <1>1, <1>2, <1>3, <1>8, <2>2 DEF PublishedSoFar, ToldSoFar, PhaseOf, UnpackAt, Succeeded, Preparing, Forward
    <3>2. StashedSoFar(u)'
      BY <1>1, <1>2, <2>2 DEF StashedSoFar, PhaseOf, UnpackAt, Succeeded, NoStash, Preparing, Kinds
    <3>3. StagedSoFar(u)'
      BY <1>1, <1>2, <1>3, <1>8, <2>2 DEF StagedSoFar, PhaseOf, UnpackAt
    <3> QED
      BY <3>1, <3>2, <3>3 DEF OwnUnpack
  <2> QED
    BY <1>4, <1>6, <2>1, <2>3
<1>9. CASE k = "toc" /\ Tell(u, "clean", "ok") /\ undoFailed' = undoFailed
  <2>1. Moves(u, "clean", "dir", "ok")
    BY <1>1, <1>2, <1>4, <1>9, TellMoves
  <2>2. at'[u] = <<"clean", "dir">> /\ verdict'[u] = "ok"
    BY <2>1 DEF Moves
  <2>3. OwnUnpack(u)'
    <3>1. PublishedSoFar(u)' /\ ToldSoFar(u)'
      BY <1>1, <1>2, <1>3, <1>9, <2>2 DEF PublishedSoFar, ToldSoFar, PhaseOf, UnpackAt, Succeeded, Preparing, Forward
    <3>2. StashedSoFar(u)'
      BY <1>1, <1>2, <2>2 DEF StashedSoFar, PhaseOf, UnpackAt, Succeeded, NoStash, Preparing, Kinds
    <3>3. StagedSoFar(u)'
      BY <1>1, <1>2, <2>2 DEF StagedSoFar, PhaseOf, UnpackAt
    <3> QED
      BY <3>1, <3>2, <3>3 DEF OwnUnpack
  <2> QED
    BY <1>4, <1>6, <2>1, <2>3
<1>10. \/ Undo(u)
       \/ k = "dir" /\ UnpackGoes(u, "publish", "toc") /\ undoFailed' = undoFailed
       \/ k # "dir" /\ Tell(u, "clean", "ok") /\ undoFailed' = undoFailed
  BY DEF Confirm
<1>11. k # "dir" => k = "toc"
  BY DEF Kinds
<1> QED
  BY <1>7, <1>8, <1>9, <1>10, <1>11

\* Undoing: what has been undone so far, unless something failed.
LEMMA UndoingIsOwn ==
    ASSUME NEW u \in Unpacks, NEW p \in {"find", "unpublish", "restore", "verify", "undone"}, NEW j \in Kinds,
           at'[u] = <<p, j>>, verdict'[u] = "none", deleted'[u] = {},
           ~undoFailed'[u] =>
             /\ \A k \in Kinds : staged'[u][k] \in {None, New(u, k)}
             /\ p \in {"find", "unpublish"} /\ j = "dir" => "toc" \notin published'[u]
             /\ p \in {"restore", "verify", "undone"} => published'[u] = {}
             /\ p \in {"restore", "verify"} /\ j = "dir" => stash'[u]["toc"] = None
             /\ p = "verify" => stash'[u][j] = None
             /\ p = "undone" => NoStash(u)'
    PROVE  OwnUnpack(u)'
<1>1. PublishedSoFar(u)' /\ ToldSoFar(u)'
  BY DEF PublishedSoFar, ToldSoFar, PhaseOf, UnpackAt, Succeeded, Preparing, Forward
<1>2. StashedSoFar(u)'
  BY DEF StashedSoFar, PhaseOf, UnpackAt, Succeeded, Preparing
<1>3. StagedSoFar(u)'
  BY DEF StagedSoFar, PhaseOf, UnpackAt
<1> QED
  BY <1>1, <1>2, <1>3 DEF OwnUnpack

LEMMA BackMoves ==
    ASSUME UnpackTypes, NEW u \in Unpacks, NEW k \in Kinds, NEW p \in UnpackPhases, NEW q \in UnpackPhases,
           Back(u, k, p, q)
    PROVE  \/ k = "toc" /\ Moves(u, p, "dir", verdict[u])
           \/ k = "dir" /\ Moves(u, q, "toc", verdict[u])
<1>1. "dir" \in Kinds /\ "toc" \in Kinds /\ (k = "dir" \/ k = "toc")
  BY DEF Kinds
<1>2. CASE k = "dir"
  <2>1. UnpackGoes(u, q, "toc")
    BY <1>2 DEF Back
  <2> QED
    BY <1>1, <1>2, <2>1, GoesMoves
<1>3. CASE k = "toc"
  <2>1. UnpackGoes(u, p, "dir")
    BY <1>3 DEF Back
  <2> QED
    BY <1>1, <1>3, <2>1, GoesMoves
<1> QED
  BY <1>1, <1>2, <1>3

\* What holds of an unpack that is being undone.
LEMMA UndoingKnows ==
    ASSUME UnpackInv, NEW u \in Unpacks, NEW p \in {"find", "unpublish", "restore", "verify", "undone"},
           NEW k \in Kinds, at[u] = <<p, k>>
    PROVE  /\ UnpackTypes /\ deleted[u] = {} /\ verdict[u] = "none"
           /\ ~undoFailed[u] =>
                /\ \A j \in Kinds : staged[u][j] \in {None, New(u, j)}
                /\ p \in {"find", "unpublish"} /\ k = "dir" => "toc" \notin published[u]
                /\ p \in {"restore", "verify", "undone"} => published[u] = {}
                /\ p \in {"restore", "verify"} /\ k = "dir" => stash[u]["toc"] = None
                /\ p = "verify" => stash[u][k] = None
                /\ p = "undone" => NoStash(u)
<1>1. UnpackTypes /\ OwnUnpack(u)
  BY DEF UnpackInv
<1>2. deleted[u] = {} /\ verdict[u] = "none"
  BY <1>1 DEF OwnUnpack, ToldSoFar, PhaseOf
<1>3. ~undoFailed[u] => \A j \in Kinds : staged[u][j] \in {None, New(u, j)}
  BY <1>1 DEF OwnUnpack, StagedSoFar
<1>4. ~undoFailed[u] =>
        /\ p \in {"find", "unpublish"} /\ k = "dir" => "toc" \notin published[u]
        /\ p \in {"restore", "verify", "undone"} => published[u] = {}
  BY <1>1 DEF OwnUnpack, PublishedSoFar, PhaseOf, UnpackAt
<1>5. ~undoFailed[u] =>
        /\ p \in {"restore", "verify"} /\ k = "dir" => stash[u]["toc"] = None
        /\ p = "verify" => stash[u][k] = None
        /\ p = "undone" => NoStash(u)
  BY <1>1 DEF OwnUnpack, StashedSoFar, PhaseOf, UnpackAt
<1> QED
  BY <1>1, <1>2, <1>3, <1>4, <1>5

LEMMA FindKeepsInv ==
    ASSUME UnpackInv, overwrite' = overwrite, NEW u \in Unpacks, NEW k \in Kinds, Find(u, k)
    PROVE  UnpackInv'
<1>1. /\ at[u] = <<"find", k>>
      /\ UNCHANGED <<dest, staged, stash, initial, moved, published, deleted, meddled>>
      /\ Fault \/ faults' = faults
      /\ UndoFails(u) \/ undoFailed' = undoFailed
  BY DEF Find, UnpackAt
<1>2. /\ UnpackTypes /\ deleted[u] = {} /\ verdict[u] = "none"
      /\ ~undoFailed[u] =>
           /\ \A j \in Kinds : staged[u][j] \in {None, New(u, j)}
           /\ k = "dir" => "toc" \notin published[u]
  BY <1>1, UndoingKnows
<1>3. {"find", "unpublish", "restore"} \subseteq UnpackPhases /\ Kinds = {"dir", "toc"}
  BY DEF UnpackPhases, Kinds
<1>4. /\ faults' \in 0 .. MaxIoFaults /\ undoFailed' \in [Unpacks -> BOOLEAN]
      /\ \A w \in Unpacks : w # u => undoFailed'[w] = undoFailed[w]
      /\ undoFailed[u] => undoFailed'[u]
      /\ UndoFails(u) => undoFailed'[u]
  BY <1>1, <1>2, FaultCounts, FailedIsKept
<1>5. ASSUME NEW p \in {"find", "unpublish", "restore"}, NEW j \in Kinds, Moves(u, p, j, "none"),
             ~undoFailed'[u] =>
               /\ p \in {"find", "unpublish"} /\ j = "dir" => "toc" \notin published[u]
               /\ p = "restore" => published[u] = {} /\ j = "toc"
      PROVE  UnpackInv'
  <2>1. OwnUnpack(u)'
    BY <1>1, <1>2, <1>4, <1>5, UndoingIsOwn DEF Moves
  <2>2. p \in UnpackPhases /\ p # "probe"
    BY <1>3
  <2> QED
    BY <1>1, <1>2, <1>4, <1>5, <2>1, <2>2, QuietStep
<1>6. CASE Back(u, k, "find", "restore") /\ (k \notin published[u] \/ UndoFails(u))
  <2>1. \/ k = "toc" /\ Moves(u, "find", "dir", "none")
        \/ k = "dir" /\ Moves(u, "restore", "toc", "none")
    BY <1>2, <1>3, <1>6, BackMoves
  <2>2. published[u] \subseteq Kinds
    BY <1>2 DEF UnpackTypes
  <2>3. ASSUME k = "toc", Moves(u, "find", "dir", "none") PROVE UnpackInv'
    BY <1>3, <1>4, <1>5, <1>6, <2>3
  <2>4. ASSUME k = "dir", Moves(u, "restore", "toc", "none") PROVE UnpackInv'
    <3>1. ~undoFailed'[u] => published[u] = {}
      BY <1>2, <1>3, <1>4, <1>6, <2>2, <2>4
    <3> QED
      BY <1>3, <1>5, <2>4, <3>1
  <2> QED
    BY <2>1, <2>3, <2>4
<1>7. CASE UnpackGoes(u, "unpublish", k) /\ undoFailed' = undoFailed
  <2>1. Moves(u, "unpublish", k, "none")
    BY <1>2, <1>3, <1>7, GoesMoves
  <2> QED
    BY <1>2, <1>5, <1>7, <2>1
<1> QED
  BY <1>6, <1>7 DEF Find

LEMMA VerifyKeepsInv ==
    ASSUME UnpackInv, overwrite' = overwrite, NEW u \in Unpacks, NEW k \in Kinds, VerifyRestored(u, k)
    PROVE  UnpackInv'
<1>1. /\ at[u] = <<"verify", k>> /\ Back(u, k, "restore", "undone")
      /\ UNCHANGED <<dest, staged, stash, initial, moved, published, deleted, meddled>>
      /\ Fault \/ faults' = faults
      /\ UndoFails(u) \/ undoFailed' = undoFailed
  BY DEF VerifyRestored, UnpackAt
<1>2. /\ UnpackTypes /\ deleted[u] = {} /\ verdict[u] = "none"
      /\ ~undoFailed[u] =>
           /\ \A j \in Kinds : staged[u][j] \in {None, New(u, j)}
           /\ published[u] = {} /\ stash[u][k] = None
           /\ k = "dir" => stash[u]["toc"] = None
  BY <1>1, UndoingKnows
<1>3. {"restore", "undone"} \subseteq UnpackPhases /\ Kinds = {"dir", "toc"}
  BY DEF UnpackPhases, Kinds
<1>4. /\ faults' \in 0 .. MaxIoFaults /\ undoFailed' \in [Unpacks -> BOOLEAN]
      /\ \A w \in Unpacks : w # u => undoFailed'[w] = undoFailed[w]
      /\ undoFailed[u] => undoFailed'[u]
  BY <1>1, <1>2, FaultCounts, FailedIsKept
<1>5. ASSUME NEW p \in {"restore", "undone"}, NEW j \in Kinds, Moves(u, p, j, "none"),
             p = "restore" => k = "toc", p = "undone" => k = "dir"
      PROVE  UnpackInv'
  <2>1. OwnUnpack(u)'
    <3>1. ~undoFailed'[u] => (p = "undone" => NoStash(u)')
      BY <1>1, <1>2, <1>3, <1>4, <1>5 DEF NoStash
    <3>2. ~undoFailed'[u] => (p = "restore" => stash'[u]["toc"] = None)
      BY <1>1, <1>2, <1>4, <1>5
    <3>3. at'[u] = <<p, j>> /\ verdict'[u] = "none" /\ deleted'[u] = {}
      BY <1>1, <1>2, <1>5 DEF Moves
    <3>4. ~undoFailed'[u] => published'[u] = {} /\ \A i \in Kinds : staged'[u][i] \in {None, New(u, i)}
      BY <1>1, <1>2, <1>4
    <3> QED
      BY <3>1, <3>2, <3>3, <3>4, UndoingIsOwn
  <2>2. p \in UnpackPhases /\ p # "probe"
    BY <1>3
  <2> QED
    BY <1>1, <1>2, <1>4, <1>5, <2>1, <2>2, QuietStep
<1>6. \/ k = "toc" /\ Moves(u, "restore", "dir", "none")
      \/ k = "dir" /\ Moves(u, "undone", "toc", "none")
  BY <1>1, <1>2, <1>3, BackMoves
<1> QED
  BY <1>3, <1>5, <1>6

LEMMA UndoneKeepsInv ==
    ASSUME UnpackInv, overwrite' = overwrite, NEW u \in Unpacks, Undone(u)
    PROVE  UnpackInv'
<1>1. /\ at[u] = <<"undone", "toc">>
      /\ UNCHANGED <<dest, staged, stash, initial, moved, published, undoFailed, deleted, meddled, faults>>
  BY DEF Undone, UnpackAt
<1>2. "toc" \in Kinds /\ "dir" \in Kinds /\ {"end", "clean"} \subseteq UnpackPhases
  BY DEF Kinds, UnpackPhases
<1>3. /\ UnpackTypes /\ deleted[u] = {} /\ verdict[u] = "none"
      /\ ~undoFailed[u] =>
           /\ \A j \in Kinds : staged[u][j] \in {None, New(u, j)}
           /\ published[u] = {} /\ NoStash(u)
  BY <1>1, <1>2, UndoingKnows
<1>4. \/ undoFailed[u] /\ Moves(u, "end", "dir", "retained")
      \/ ~undoFailed[u] /\ Moves(u, "clean", "dir", "restored")
  BY <1>2, <1>3, TellMoves DEF Undone
<1>5. ASSUME NEW p \in {"end", "clean"}, NEW v \in {"retained", "restored"}, Moves(u, p, "dir", v),
             p = "end" <=> undoFailed[u], v = "retained" <=> undoFailed[u]
      PROVE  UnpackInv'
  <2>1. OwnUnpack(u)'
    <3>1. at'[u] = <<p, "dir">> /\ verdict'[u] = v
      BY <1>5 DEF Moves
    <3>2. PublishedSoFar(u)' /\ ToldSoFar(u)'
      BY <1>1, <1>3, <1>5, <3>1 DEF PublishedSoFar, ToldSoFar, PhaseOf, UnpackAt, Succeeded, Preparing, Forward
    <3>3. StashedSoFar(u)'
      BY <1>1, <1>3, <1>5, <3>1 DEF StashedSoFar, PhaseOf, UnpackAt, Succeeded, NoStash, Preparing
    <3>4. StagedSoFar(u)'
      BY <1>1, <1>3, <1>5, <3>1 DEF StagedSoFar, PhaseOf, UnpackAt
    <3> QED
      BY <3>2, <3>3, <3>4 DEF OwnUnpack
  <2>2. p \in UnpackPhases /\ p # "probe"
    BY <1>2
  <2>3. faults' \in 0 .. MaxIoFaults /\ undoFailed' \in [Unpacks -> BOOLEAN]
    BY <1>1, <1>3 DEF UnpackTypes
  <2> QED
    BY <1>1, <1>3, <1>5, <2>1, <2>2, <2>3, QuietStep
<1> QED
  BY <1>4, <1>5

LEMMA UnpublishKeepsInv ==
    ASSUME UnpackInv, overwrite' = overwrite, NEW u \in Unpacks, NEW k \in Kinds, Unpublish(u, k)
    PROVE  UnpackInv'
<1>1. /\ at[u] = <<"unpublish", k>> /\ Back(u, k, "find", "restore")
      /\ UNCHANGED <<stash, initial, moved, deleted, meddled>>
      /\ Fault \/ faults' = faults
      /\ UndoFails(u) \/ undoFailed' = undoFailed
  BY DEF Unpublish, UnpackAt
<1>2. /\ UnpackTypes /\ deleted[u] = {} /\ verdict[u] = "none"
      /\ ~undoFailed[u] =>
           /\ \A j \in Kinds : staged[u][j] \in {None, New(u, j)}
           /\ k = "dir" => "toc" \notin published[u]
  BY <1>1, UndoingKnows
<1>3. {"find", "restore"} \subseteq UnpackPhases /\ Kinds = {"dir", "toc"}
  BY DEF UnpackPhases, Kinds
<1>4. /\ faults' \in 0 .. MaxIoFaults /\ undoFailed' \in [Unpacks -> BOOLEAN]
      /\ \A w \in Unpacks : w # u => undoFailed'[w] = undoFailed[w]
      /\ undoFailed[u] => undoFailed'[u]
      /\ UndoFails(u) => undoFailed'[u]
  BY <1>1, <1>2, FaultCounts, FailedIsKept
<1>5. \/ k = "toc" /\ Moves(u, "find", "dir", "none")
      \/ k = "dir" /\ Moves(u, "restore", "toc", "none")
  BY <1>1, <1>2, <1>3, BackMoves
<1>6. PICK p \in {"find", "restore"}, j \in Kinds :
        Moves(u, p, j, "none") /\ (p = "find" => k = "toc") /\ (p = "restore" => k = "dir" /\ j = "toc")
  BY <1>3, <1>5
<1>7. p \in UnpackPhases /\ p # "probe" /\ at'[u] = <<p, j>> /\ verdict'[u] = "none" /\ deleted'[u] = {}
  BY <1>1, <1>2, <1>3, <1>6 DEF Moves
<1>8. CASE UndoFails(u) /\ UNCHANGED <<dest, staged, published>>
  <2>1. OwnUnpack(u)'
    BY <1>4, <1>7, <1>8, UndoingIsOwn
  <2> QED
    BY <1>1, <1>2, <1>4, <1>6, <1>7, <1>8, <2>1, QuietStep
<1>9. CASE /\ dest[k] # None
           /\ staged' = [staged EXCEPT ![u][k] = dest[k]]
           /\ dest' = [dest EXCEPT ![k] = None]
           /\ published' = [published EXCEPT ![u] = @ \ {k}]
           /\ dest[k] = New(u, k) \/ UndoFails(u)
  <2>1. /\ published' \in [Unpacks -> SUBSET Kinds] /\ published'[u] = published[u] \ {k}
        /\ \A w \in Unpacks : w # u => published'[w] = published[w]
    BY <1>2, <1>9 DEF UnpackTypes
  <2>2. /\ staged' \in [Unpacks -> Slots] /\ staged'[u][k] = dest[k]
        /\ \A w \in Unpacks : w # u => staged'[w] = staged[w]
        /\ \A i \in Kinds : i # k => staged'[u][i] = staged[u][i]
    <3>1. staged \in [Unpacks -> Slots] /\ dest[k] \in Entries \cup {None}
      BY <1>2 DEF UnpackTypes, Slots
    <3> QED
      BY <1>9, <3>1, SetSlot DEF Slots
  <2>3. dest' \in Slots
    BY <1>2, <1>9 DEF UnpackTypes, Slots
  <2>4. UnpackTypes'
    BY <1>1, <1>2, <1>4, <1>6, <2>1, <2>2, <2>3 DEF UnpackTypes, Moves
  <2>5. EntriesMove'
    <3>1. \A w \in Unpacks : undoFailed[w] => undoFailed'[w]
      BY <1>4
    <3>2. Grows
      BY <1>1, <1>2, <1>6, <3>1, StillGrows
    <3> QED
      BY <1>1, <1>2, <1>4, <1>9, <3>2, UnpublishMoves DEF UnpackInv
  <2>6. OwnUnpack(u)'
    <3>1. ~undoFailed'[u] => \A i \in Kinds : staged'[u][i] \in {None, New(u, i)}
      BY <1>2, <1>4, <1>9, <2>2
    <3>2. ~undoFailed'[u] => (p = "find" => "toc" \notin published'[u])
      BY <1>6, <2>1
    <3>3. ~undoFailed'[u] => (p = "restore" => published'[u] = {} /\ j = "toc")
      <4>1. published[u] \subseteq {"dir", "toc"}
        BY <1>2, <1>3 DEF UnpackTypes
      <4> QED
        BY <1>2, <1>4, <1>6, <2>1, <4>1
    <3> QED
      BY <1>7, <3>1, <3>2, <3>3, UndoingIsOwn
  <2>7. \A w \in Unpacks : w # u =>
          /\ published'[w] = published[w] /\ undoFailed'[w] = undoFailed[w] /\ deleted'[w] = deleted[w]
          /\ \A i \in Kinds : stash'[w][i] = stash[w][i] /\ staged'[w][i] = staged[w][i]
    BY <1>1, <1>4, <2>1, <2>2
  <2> QED
    BY <1>1, <1>6, <1>7, <2>4, <2>5, <2>6, <2>7, LoudStep
<1> QED
  BY <1>8, <1>9 DEF Unpublish

LEMMA RestoreKeepsInv ==
    ASSUME UnpackInv, overwrite' = overwrite, NEW u \in Unpacks, NEW k \in Kinds, Restore(u, k)
    PROVE  UnpackInv'
<1>1. /\ at[u] = <<"restore", k>>
      /\ UNCHANGED <<staged, initial, moved, published, deleted, meddled>>
      /\ Fault \/ faults' = faults
      /\ UndoFails(u) \/ undoFailed' = undoFailed
  BY DEF Restore, UnpackAt
<1>2. /\ UnpackTypes /\ deleted[u] = {} /\ verdict[u] = "none"
      /\ ~undoFailed[u] =>
           /\ \A j \in Kinds : staged[u][j] \in {None, New(u, j)}
           /\ published[u] = {}
           /\ k = "dir" => stash[u]["toc"] = None
  BY <1>1, UndoingKnows
<1>3. {"restore", "verify", "undone"} \subseteq UnpackPhases /\ Kinds = {"dir", "toc"}
  BY DEF UnpackPhases, Kinds
<1>4. /\ faults' \in 0 .. MaxIoFaults /\ undoFailed' \in [Unpacks -> BOOLEAN]
      /\ \A w \in Unpacks : w # u => undoFailed'[w] = undoFailed[w]
      /\ undoFailed[u] => undoFailed'[u]
      /\ UndoFails(u) => undoFailed'[u]
  BY <1>1, <1>2, FaultCounts, FailedIsKept
<1>5. CASE /\ Back(u, k, "restore", "undone") /\ UNCHANGED <<dest, stash>>
           /\ stash[u][k] = None \/ UndoFails(u)
  <2>1. \/ k = "toc" /\ Moves(u, "restore", "dir", "none")
        \/ k = "dir" /\ Moves(u, "undone", "toc", "none")
    BY <1>2, <1>3, <1>5, BackMoves
  <2>2. PICK p \in {"restore", "undone"}, j \in Kinds :
          Moves(u, p, j, "none") /\ (p = "restore" => k = "toc") /\ (p = "undone" => k = "dir" /\ j = "toc")
    BY <1>3, <2>1
  <2>3. p \in UnpackPhases /\ p # "probe" /\ at'[u] = <<p, j>> /\ verdict'[u] = "none" /\ deleted'[u] = {}
    BY <1>1, <1>2, <1>3, <2>2 DEF Moves
  <2>4. OwnUnpack(u)'
    <3>1. ~undoFailed'[u] => (p = "undone" => NoStash(u)')
      BY <1>2, <1>3, <1>4, <1>5, <2>2 DEF NoStash
    <3>2. ~undoFailed'[u] => (p = "restore" => stash'[u]["toc"] = None)
      BY <1>2, <1>4, <1>5, <2>2
    <3>3. ~undoFailed'[u] => published'[u] = {} /\ \A i \in Kinds : staged'[u][i] \in {None, New(u, i)}
      BY <1>1, <1>2, <1>4
    <3> QED
      BY <2>3, <3>1, <3>2, <3>3, UndoingIsOwn
  <2> QED
    BY <1>1, <1>2, <1>4, <1>5, <2>2, <2>3, <2>4, QuietStep
<1>6. CASE /\ dest[k] = None
           /\ dest' = [dest EXCEPT ![k] = stash[u][k]]
           /\ stash' = [stash EXCEPT ![u][k] = None]
           /\ UnpackGoes(u, "verify", k) /\ undoFailed' = undoFailed
  <2>1. Moves(u, "verify", k, "none")
    BY <1>2, <1>3, <1>6, GoesMoves
  <2>2. /\ stash' \in [Unpacks -> Slots] /\ stash'[u][k] = None
        /\ \A w \in Unpacks : w # u => stash'[w] = stash[w]
        /\ \A i \in Kinds : i # k => stash'[u][i] = stash[u][i]
    <3>1. stash \in [Unpacks -> Slots] /\ None \in Entries \cup {None}
      BY <1>2 DEF UnpackTypes
    <3> QED
      BY <1>6, <3>1, SetSlot DEF Slots
  <2>3. dest' \in Slots
    <3>1. stash[u][k] \in Entries \cup {None} /\ dest \in Slots
      BY <1>2 DEF UnpackTypes, Slots
    <3> QED
      BY <1>6, <3>1 DEF Slots
  <2>4. UnpackTypes'
    BY <1>1, <1>2, <1>4, <2>1, <2>2, <2>3 DEF UnpackTypes, Moves
  <2>5. EntriesMove'
    <3>1. \A w \in Unpacks : undoFailed[w] => undoFailed'[w]
      BY <1>4
    <3>2. Grows
      BY <1>1, <1>2, <2>1, <3>1, StillGrows
    <3> QED
      BY <1>1, <1>2, <1>6, <3>2, RestoreMoves DEF UnpackInv
  <2>6. OwnUnpack(u)'
    <3>1. at'[u] = <<"verify", k>> /\ verdict'[u] = "none" /\ deleted'[u] = {}
      BY <1>1, <1>2, <2>1 DEF Moves
    <3>2. ~undoFailed'[u] => (k = "dir" => stash'[u]["toc"] = None)
      BY <1>2, <1>3, <1>4, <2>2
    <3>3. ~undoFailed'[u] => published'[u] = {} /\ \A i \in Kinds : staged'[u][i] \in {None, New(u, i)}
      BY <1>1, <1>2, <1>4
    <3> QED
      BY <2>2, <3>1, <3>2, <3>3, UndoingIsOwn
  <2>7. \A w \in Unpacks : w # u =>
          /\ published'[w] = published[w] /\ undoFailed'[w] = undoFailed[w] /\ deleted'[w] = deleted[w]
          /\ \A i \in Kinds : stash'[w][i] = stash[w][i] /\ staged'[w][i] = staged[w][i]
    BY <1>1, <1>4, <2>2
  <2> QED
    BY <1>1, <2>1, <2>4, <2>5, <2>6, <2>7, LoudStep
<1> QED
  BY <1>5, <1>6 DEF Restore

LEMMA CleanKeepsInv ==
    ASSUME UnpackInv, overwrite' = overwrite, NEW u \in Unpacks, CleanStage(u)
    PROVE  UnpackInv'
<1>1. /\ at[u] = <<"clean", "dir">> /\ UnpackTypes /\ OwnUnpack(u)
      /\ UNCHANGED <<dest, initial, moved, published, undoFailed, meddled>>
      /\ Fault \/ faults' = faults
  BY DEF CleanStage, UnpackAt, UnpackInv
<1>2. /\ ~undoFailed[u] /\ deleted[u] = {} /\ verdict[u] \in {"ok", "exists", "failed", "restored"}
      /\ \A j \in Kinds : staged[u][j] \in {None, New(u, j)}
  <2>1. ~undoFailed[u] /\ deleted[u] = {} /\ verdict[u] # "uncleaned" /\ verdict[u] # "retained" /\ verdict[u] # "none"
    BY <1>1 DEF OwnUnpack, ToldSoFar, PhaseOf
  <2>2. \A j \in Kinds : staged[u][j] \in {None, New(u, j)}
    BY <1>1, <2>1 DEF OwnUnpack, StagedSoFar
  <2>3. verdict[u] \in {"ok", "exists", "failed", "restored"}
    BY <1>1, <2>1 DEF UnpackTypes
  <2> QED
    BY <2>1, <2>2, <2>3
<1>3. /\ verdict[u] = "ok" => published[u] = Kinds /\ \A j \in Kinds : stash[u][j] \in {None, initial[u][j]}
      /\ verdict[u] # "ok" => published[u] = {} /\ NoStash(u)
  <2>1. CASE verdict[u] = "ok"
    BY <1>1, <2>1 DEF OwnUnpack, PublishedSoFar, StashedSoFar, Succeeded
  <2>2. CASE verdict[u] \in {"exists", "failed", "restored"}
    BY <1>1, <2>2 DEF OwnUnpack, PublishedSoFar, StashedSoFar
  <2> QED
    BY <1>2, <2>1, <2>2
<1>4. PICK v \in {"ok", "exists", "failed", "restored", "uncleaned"} :
        Tell(u, "end", v) /\ (v = verdict[u] \/ (verdict[u] = "ok" /\ v = "uncleaned"))
  BY <1>2 DEF CleanStage
<1>5. Moves(u, "end", "dir", v)
  BY <1>1, <1>4, TellMoves DEF UnpackPhases
<1>6. /\ deleted' \in [Unpacks -> SUBSET Entries] /\ deleted'[u] \subseteq InStage(u) \ {None}
      /\ \A w \in Unpacks : w # u => deleted'[w] = deleted[w]
  <2>1. PICK erased \in SUBSET (InStage(u) \ {None}) : deleted' = [deleted EXCEPT ![u] = erased]
    BY DEF CleanStage
  <2>2. InStage(u) \ {None} \subseteq Entries
    BY <1>1 DEF InStage, UnpackTypes, Slots
  <2> QED
    BY <1>1, <2>1, <2>2 DEF UnpackTypes
<1>7. /\ staged' = [staged EXCEPT ![u] =
             [k \in Kinds |-> IF staged[u][k] \in deleted'[u] THEN None ELSE staged[u][k]]]
      /\ stash' = [stash EXCEPT ![u] =
             [k \in Kinds |-> IF stash[u][k] \in deleted'[u] THEN None ELSE stash[u][k]]]
  BY DEF CleanStage
<1>8. /\ \A w \in Unpacks : w # u => staged'[w] = staged[w] /\ stash'[w] = stash[w]
      /\ \A j \in Kinds : staged'[u][j] \in {staged[u][j], None} /\ stash'[u][j] \in {stash[u][j], None}
      /\ staged' \in [Unpacks -> Slots] /\ stash' \in [Unpacks -> Slots]
  <2> DEFINE a == [k \in Kinds |-> IF staged[u][k] \in deleted'[u] THEN None ELSE staged[u][k]]
             b == [k \in Kinds |-> IF stash[u][k] \in deleted'[u] THEN None ELSE stash[u][k]]
  <2>1. a \in Slots /\ b \in Slots
    BY <1>1 DEF UnpackTypes, Slots
  <2>2. \A j \in Kinds : a[j] \in {staged[u][j], None} /\ b[j] \in {stash[u][j], None}
    OBVIOUS
  <2>3. staged' = [staged EXCEPT ![u] = a] /\ stash' = [stash EXCEPT ![u] = b]
    BY <1>7
  <2> HIDE DEF a, b
  <2> QED
    BY <1>1, <2>1, <2>2, <2>3 DEF UnpackTypes
<1>9. UnpackTypes'
  <2>1. faults' \in 0 .. MaxIoFaults
    BY <1>1, FaultCounts
  <2> QED
    BY <1>1, <1>5, <1>6, <1>8, <2>1 DEF UnpackTypes, Moves
<1>10. EntriesMove'
  <2>1. Succeeded(u) => Succeeded(u)'
    BY <1>2, <1>4, <1>5 DEF Succeeded, Moves
  <2>2. Grows
    BY <1>1, <1>5, <2>1 DEF Grows, Moves, Succeeded
  <2>3. ASSUME NEW w \in Unpacks, NEW j \in Kinds
        PROVE  /\ staged'[w][j] \in {staged[w][j], None}
               /\ \/ stash'[w][j] = stash[w][j]
                  \/ stash'[w][j] = None /\ Succeeded(w)' /\ initial'[w][j] = stash[w][j]
    <3>1. CASE w # u
      BY <1>8, <3>1
    <3>2. CASE w = u /\ stash[u][j] # None
      <4>1. verdict[u] = "ok" /\ stash[u][j] = initial[u][j]
        BY <1>3, <3>2 DEF NoStash
      <4>2. Succeeded(u)'
        BY <2>1, <4>1 DEF Succeeded
      <4> QED
        BY <1>1, <1>8, <3>2, <4>1, <4>2
    <3>3. CASE w = u /\ stash[u][j] = None
      BY <1>8, <3>3
    <3> QED
      BY <3>1, <3>2, <3>3
  <2> QED
    BY <1>1, <2>2, <2>3, CleanMoves DEF UnpackInv
<1>11. OwnUnpack(u)'
  <2>1. at'[u] = <<"end", "dir">> /\ verdict'[u] = v
    BY <1>5 DEF Moves
  <2>2. PublishedSoFar(u)'
    BY <1>1, <1>2, <1>3, <1>4, <2>1 DEF PublishedSoFar, PhaseOf, UnpackAt, Succeeded, Preparing
  <2>3. StashedSoFar(u)'
    <3>1. v \in {"failed", "exists", "restored"} => NoStash(u)'
      BY <1>3, <1>4, <1>8 DEF NoStash
    <3>2. v \in {"ok", "uncleaned"} => \A j \in Kinds : stash'[u][j] \in {None, initial'[u][j]}
      <4>1. v \in {"ok", "uncleaned"} => verdict[u] = "ok"
        BY <1>2, <1>4
      <4> QED
        BY <1>1, <1>3, <1>8, <4>1
    <3> QED
      BY <2>1, <3>1, <3>2 DEF StashedSoFar, PhaseOf, UnpackAt, Succeeded, Preparing
  <2>4. StagedSoFar(u)'
    BY <1>2, <1>8, <2>1 DEF StagedSoFar, PhaseOf, UnpackAt
  <2>5. ToldSoFar(u)'
    <3>1. ASSUME NEW e \in deleted'[u]
          PROVE  \/ \E k \in Kinds : e = New(u, k)
                 \/ published'[u] = Kinds /\ \E k \in Kinds : e = initial'[u][k]
      <4>1. e # None /\ \E k \in Kinds : e = staged[u][k] \/ e = stash[u][k]
        BY <1>6, <3>1 DEF InStage
      <4>2. PICK k \in Kinds : e = staged[u][k] \/ e = stash[u][k]
        BY <4>1
      <4>3. CASE e = staged[u][k]
        BY <1>2, <4>1, <4>3
      <4>4. CASE e = stash[u][k]
        <5>1. verdict[u] = "ok"
          BY <1>3, <4>1, <4>4 DEF NoStash
        <5> QED
          BY <1>1, <1>3, <4>1, <4>4, <5>1
      <4> QED
        BY <4>2, <4>3, <4>4
    <3>2. v # "retained" /\ v # "none" /\ ~undoFailed'[u]
      BY <1>1, <1>2
    <3> QED
      BY <2>1, <3>1, <3>2 DEF ToldSoFar, PhaseOf, Forward, Preparing
  <2> QED
    BY <2>2, <2>3, <2>4, <2>5 DEF OwnUnpack
<1>12. \A w \in Unpacks : w # u =>
         /\ published'[w] = published[w] /\ undoFailed'[w] = undoFailed[w] /\ deleted'[w] = deleted[w]
         /\ \A i \in Kinds : stash'[w][i] = stash[w][i] /\ staged'[w][i] = staged[w][i]
  BY <1>1, <1>6, <1>8
<1> QED
  BY <1>1, <1>5, <1>9, <1>10, <1>11, <1>12, LoudStep

LEMMA MeddleKeepsInv ==
    ASSUME UnpackInv, overwrite' = overwrite, NEW e \in Written, NEW k \in Kinds, Meddle(e, k)
    PROVE  UnpackInv'
<1>1. UNCHANGED <<staged, stash, initial, moved, published, at, undoFailed, verdict, deleted, faults>>
  BY DEF Meddle
<1>2. EntriesMove'
  BY MeddleMoves DEF UnpackInv
<1>3. UnpackTypes'
  <2>1. dest' \in Slots /\ meddled' \subseteq Written
    <3>1. e \in Entries /\ dest \in Slots /\ meddled \subseteq Written
      BY DEF Entries, UnpackInv, UnpackTypes
    <3> QED
      BY <3>1 DEF Meddle, Slots
  <2> QED
    BY <1>1, <2>1 DEF UnpackInv, UnpackTypes
<1>4. Seen' /\ Ranked'
  BY <1>1, StillOrder DEF UnpackInv, PhaseOf
<1>5. \A u \in Unpacks : OwnUnpack(u)'
  BY <1>1, SameUnpackIsOwn DEF UnpackInv, SameUnpack
<1> QED
  BY <1>2, <1>3, <1>4, <1>5 DEF UnpackInv

LEMMA UnpackStarts == UnpackInit => UnpackInv
<1> SUFFICES ASSUME UnpackInit PROVE UnpackInv
  OBVIOUS
<1>1. /\ Nothing \in Slots /\ (\A k \in Kinds : Nothing[k] = None) /\ "dir" \in Kinds
      /\ "probe" \in UnpackPhases /\ MaxIoFaults \in Nat
  BY UnpackAssumption DEF Nothing, Slots, Kinds, UnpackPhases
<1>2. /\ \A u \in Unpacks : /\ at[u] = <<"probe", "dir">> /\ published[u] = {} /\ ~undoFailed[u]
                            /\ verdict[u] = "none" /\ deleted[u] = {}
      /\ \A u \in Unpacks, k \in Kinds : staged[u][k] = None /\ stash[u][k] = None /\ initial[u][k] = None
  BY <1>1 DEF UnpackInit
<1>3. UnpackTypes
  BY <1>1 DEF UnpackInit, UnpackTypes
<1>4. ASSUME NEW u \in Unpacks, NEW i \in Kinds, NEW j \in Kinds PROVE dest[j] # New(u, i)
  <2>1. New(u, i) \in Unpacks \X Kinds
    BY DEF New
  <2>2. dest[j] = Priors[j] \/ dest[j] = None
    BY DEF UnpackInit
  <2> QED
    BY <2>1, <2>2, UnpackAssumption
<1>5. EntriesMove
  <2>1. \A u \in Unpacks, k \in Kinds : New(u, k) # None
    BY NewIsOwn
  <2> HIDE DEF New
  <2> QED
    BY <1>2, <1>4, <2>1 DEF EntriesMove, Placed, KindsAreKept, Once, Hidden, Conserved
<1>6. Seen /\ Ranked
  <2>1. \A v, w \in Unpacks, i, j \in Kinds : initial[w][j] # New(v, i)
    BY <1>2, NewIsOwn
  <2>2. [v \in Unpacks |-> 0] \in [Unpacks -> 0 .. 0] /\ 0 \in Nat
    OBVIOUS
  <2> QED
    BY <2>1, <2>2 DEF Seen, Ranked
<1>7. \A u \in Unpacks : OwnUnpack(u)
  BY <1>2 DEF OwnUnpack, PublishedSoFar, StashedSoFar, StagedSoFar, ToldSoFar, PhaseOf, UnpackAt, Succeeded, NoStash,
              Preparing, Forward
<1> QED
  BY <1>3, <1>5, <1>6, <1>7 DEF UnpackInv

LEMMA UnpackSteps == UnpackInv /\ [UnpackNext]_unpackVars => UnpackInv'
<1> SUFFICES ASSUME UnpackInv, [UnpackNext]_unpackVars PROVE UnpackInv'
  OBVIOUS
<1>1. CASE UnpackNext
  <2>1. overwrite' = overwrite
    BY <1>1 DEF UnpackNext
  <2>2. ASSUME NEW u \in Unpacks, UnpackStep(u) PROVE UnpackInv'
    <3>1. CASE Expand(u) \/ Undone(u) \/ CleanStage(u)
      BY <2>1, <3>1, ExpandKeepsInv, UndoneKeepsInv, CleanKeepsInv
    <3>2. ASSUME NEW k \in Kinds, Probe(u, k) \/ CheckFree(u, k) \/ Look(u, k) \/ Stash(u, k)
          PROVE  UnpackInv'
      BY <2>1, <3>2, ProbeKeepsInv, CheckFreeKeepsInv, LookKeepsInv, StashKeepsInv
    <3>3. ASSUME NEW k \in Kinds, Publish(u, k) \/ Confirm(u, k) \/ Find(u, k)
          PROVE  UnpackInv'
      BY <2>1, <3>3, PutInPlaceKeepsInv, ConfirmKeepsInv, FindKeepsInv
    <3>4. ASSUME NEW k \in Kinds, Unpublish(u, k) \/ Restore(u, k) \/ VerifyRestored(u, k)
          PROVE  UnpackInv'
      BY <2>1, <3>4, UnpublishKeepsInv, RestoreKeepsInv, VerifyKeepsInv
    <3> QED
      BY <2>2, <3>1, <3>2, <3>3, <3>4 DEF UnpackStep
  <2>3. ASSUME NEW e \in Written, NEW k \in Kinds, Meddle(e, k) PROVE UnpackInv'
    BY <2>1, <2>3, MeddleKeepsInv
  <2> QED
    BY <1>1, <2>2, <2>3 DEF UnpackNext
<1>2. CASE UNCHANGED unpackVars
  <2>1. /\ UNCHANGED <<overwrite, dest, staged, stash, initial, moved, published, at, undoFailed>>
        /\ UNCHANGED <<verdict, deleted, meddled, faults>>
    BY <1>2 DEF unpackVars
  <2>2. UnpackTypes'
    BY <2>1 DEF UnpackInv, UnpackTypes
  <2>3. Grows
    BY <2>1 DEF Grows, Succeeded
  <2>4. EntriesMove'
    BY <2>1, <2>3, StillEntries DEF UnpackInv
  <2>5. Seen' /\ Ranked'
    BY <2>1, StillOrder DEF UnpackInv, PhaseOf
  <2>6. \A u \in Unpacks : OwnUnpack(u)'
    BY <2>1, SameUnpackIsOwn DEF UnpackInv, SameUnpack
  <2> QED
    BY <2>2, <2>4, <2>5, <2>6 DEF UnpackInv
<1> QED
  BY <1>1, <1>2

\* A nonempty set of ranked unpacks has one of the highest rank.
LEMMA SomeoneIsLast ==
    ASSUME NEW N \in Nat, NEW rank \in [Unpacks -> 0 .. N], NEW D \in SUBSET Unpacks, D # {}
    PROVE  \E m \in D : \A v \in D : rank[v] <= rank[m]
<1> DEFINE S == {N - rank[v] : v \in D}
<1>1. \A v \in D : rank[v] \in 0 .. N /\ N - rank[v] \in Nat
  OBVIOUS
<1>2. S \subseteq Nat /\ S # {}
  BY <1>1
<1>3. \E x \in S : \A y \in S : x <= y
  <2> HIDE DEF S
  <2> QED
    BY <1>2, SomeNumberIsLeast
<1>4. PICK m \in D : \A v \in D : N - rank[m] <= N - rank[v]
  BY <1>3
<1> QED
  BY <1>1, <1>4

LEMMA UnpackInvIsEnough == UnpackInv => UnpackIsAllOrNothing
<1> SUFFICES ASSUME UnpackInv PROVE UnpackIsAllOrNothing
  OBVIOUS
<1>1. UnpackTypes /\ \A u \in Unpacks : OwnUnpack(u)
  BY DEF UnpackInv
<1>2. UnpackTypeOK
  <2>1. \A u \in Unpacks : (verdict[u] # "none") <=> (at[u][1] \in {"clean", "end"})
    BY <1>1 DEF OwnUnpack, ToldSoFar, PhaseOf
  <2> QED
    BY <1>1, <2>1 DEF UnpackTypes, UnpackTypeOK
<1>3. ForeignEntriesAreKept
  BY <1>1 DEF ForeignEntriesAreKept, OwnUnpack, ToldSoFar
<1>4. RestoredIsRestored
  <2> SUFFICES ASSUME NEW u \in Unpacks, verdict[u] = "restored"
               PROVE  (\A k \in Kinds : dest[k] # New(u, k)) /\ stash[u] = Nothing
    BY DEF RestoredIsRestored
  <2>1. published[u] = {} /\ NoStash(u) /\ ~undoFailed[u]
    BY <1>1 DEF OwnUnpack, PublishedSoFar, StashedSoFar, ToldSoFar
  <2>2. \A k \in Kinds : dest[k] # New(u, k)
    BY <2>1 DEF UnpackInv, EntriesMove, Hidden
  <2>3. stash[u] \in [Kinds -> Entries \cup {None}]
    BY <1>1 DEF UnpackTypes, Slots
  <2>4. stash[u] = Nothing
    BY <2>1, <2>3 DEF Nothing, NoStash
  <2> QED
    BY <2>2, <2>4
<1>5. PairStaysTogether
  <2> SUFFICES ASSUME \A u \in Unpacks : at[u][1] = "end" /\ verdict[u] # "retained",
                      meddled = {},
                      \E u \in Unpacks : verdict[u] \in {"ok", "uncleaned"}
               PROVE  \E u \in Unpacks : \A k \in Kinds : dest[k] = New(u, k)
    BY DEF PairStaysTogether
  <2>1. \A u \in Unpacks : verdict[u] # "none" /\ ~undoFailed[u]
    BY <1>1 DEF OwnUnpack, ToldSoFar, PhaseOf
  <2> DEFINE D == {v \in Unpacks : Succeeded(v)}
  <2>2. D \in SUBSET Unpacks /\ D # {}
    BY DEF Succeeded
  <2>3. PICK N \in Nat : \E rank \in [Unpacks -> 0 .. N] :
          \A v, w \in Unpacks, i, j \in Kinds : initial[w][j] = New(v, i) => rank[v] < rank[w]
    BY DEF UnpackInv, Ranked
  <2>4. PICK rank \in [Unpacks -> 0 .. N] :
          \A v, w \in Unpacks, i, j \in Kinds : initial[w][j] = New(v, i) => rank[v] < rank[w]
    BY <2>3
  <2>5. PICK m \in D : \A v \in D : rank[v] <= rank[m]
    BY <2>2, <2>3, <2>4, SomeoneIsLast
  <2>6. m \in Unpacks /\ Succeeded(m) /\ \A v \in Unpacks : Succeeded(v) => rank[v] <= rank[m]
    BY <2>5
  <2>7. ASSUME NEW v \in Unpacks, NEW k \in Kinds, Succeeded(v) PROVE initial[v][k] # New(m, k)
    <3>1. rank[v] \in 0 .. N /\ rank[m] \in 0 .. N /\ rank[v] <= rank[m]
      BY <2>4, <2>6, <2>7
    <3>2. ~(rank[m] < rank[v])
      BY <2>3, <3>1
    <3> QED
      BY <2>4, <2>6, <3>2
  <2>8. published[m] = Kinds
    BY <1>1, <2>6 DEF OwnUnpack, PublishedSoFar
  <2>9. ASSUME NEW k \in Kinds PROVE dest[k] = New(m, k)
    <3>1. \/ dest[k] = New(m, k)
          \/ \E v \in Unpacks : stash[v][k] = New(m, k)
          \/ \E v \in Unpacks : Succeeded(v) /\ initial[v][k] = New(m, k)
      BY <2>1, <2>6, <2>8 DEF UnpackInv, EntriesMove, Conserved
    <3>2. ASSUME NEW v \in Unpacks PROVE stash[v][k] # New(m, k)
      <4>1. New(m, k) # None
        BY <2>6, NewIsOwn
      <4>2. CASE Succeeded(v)
        <5>1. stash[v][k] \in {None, initial[v][k]}
          BY <1>1, <4>2 DEF OwnUnpack, StashedSoFar
        <5> QED
          BY <2>7, <4>1, <4>2, <5>1
      <4>3. CASE verdict[v] \in {"failed", "exists", "restored"}
        <5>1. stash[v][k] = None
          BY <1>1, <4>3 DEF OwnUnpack, StashedSoFar, NoStash
        <5> QED
          BY <4>1, <5>1
      <4>4. Succeeded(v) \/ verdict[v] \in {"failed", "exists", "restored"}
        BY <1>1, <2>1 DEF UnpackTypes, Succeeded
      <4> QED
        BY <4>2, <4>3, <4>4
    <3> QED
      BY <2>7, <3>1, <3>2
  <2> QED
    BY <2>6, <2>9
<1> QED
  BY <1>2, <1>3, <1>4, <1>5 DEF UnpackIsAllOrNothing

\* Of any number of unpacks onto one destination, with any failures and other programs at
\* work there, none deletes what is not its own to delete, "restored" is true, and when
\* all have ended undisturbed the directory and the toc are of one expansion.
THEOREM UnpackIsAlwaysAllOrNothing == UnpackSpec => []UnpackIsAllOrNothing
<1>1. UnpackInit => UnpackInv
  BY UnpackStarts
<1>2. UnpackInv /\ [UnpackNext]_unpackVars => UnpackInv'
  BY UnpackSteps
<1>3. UnpackInv => UnpackIsAllOrNothing
  BY UnpackInvIsEnough
<1> QED
  BY <1>1, <1>2, <1>3, PTL DEF UnpackSpec
=============================================================================
