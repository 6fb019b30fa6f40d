-------------------------- MODULE ArtifactBuildProofs --------------------------
(***************************************************************************)
(* What the contract build scripts leave behind and report, for any        *)
(* sources, interfaces, tool versions and number of changes.               *)
(*                                                                         *)
(* hashes is the script's only lasting record of what it built, so every   *)
(* file is compared with it: ScriptIsHonest relates the record to the      *)
(* sources as long as nobody disturbs the script, FilesFollowHashes the    *)
(* files to the record, even if the sources change, and StaleIsStale what  *)
(* a check has found to the files.                                         *)
(***************************************************************************)
EXTENDS ArtifactBuild, TLAPS

Loop == {"compile", "extract", "compareWasm", "compareSpec", "writeWasm",
         "writeSpec", "manifest"}

Builds == [code : Codes, cli : Clis]

\* Types: of what the developer also changes, of the script and its locals.
WorldOK ==
  /\ project \in {"webauth", "delegated"}
  /\ code \in [contracts -> Codes] /\ cli \in Clis
  /\ wasm = [c \in contracts |-> wasm[c]]
  /\ spec = [c \in contracts |-> spec[c]]
  /\ disturbed \in {"no", "sources", "artifacts"} /\ whole \in BOOLEAN

ScriptOK ==
  /\ pc \in {"idle", "finally"} \cup BeforeTry \cup Loop
  /\ mode \in {"build", "check"}
  /\ outcome \in {"none", "ok", "failed", "killed"}
  /\ next \in contracts

LocalsOK == built \in Builds /\ hashes \in Seq(Builds)

TypeOK == WorldOK /\ ScriptOK /\ LocalsOK

\* The contracts whose Wasm this script has built and hashed, and those it is
\* done with.
Hashed(c) == c < next \/ (c = next /\ pc \notin {"compile", "extract"})
Finished(c) == c < next \/ pc = "manifest"

\* How far the script is.
Position ==
  /\ pc \in BeforeTry => next = 1 /\ hashes = <<>> /\ stale = {} /\ ~temp
  /\ pc \in Loop =>
       Len(hashes) = IF pc \in {"compile", "extract"} THEN next - 1 ELSE next
  /\ pc \in {"writeWasm", "writeSpec"}
       => mode = "build" /\ built = hashes[next]
  /\ pc \in {"compareWasm", "compareSpec"}
       => mode = "check" /\ built = hashes[next]
  /\ pc = "manifest" => next = 2
  /\ pc \in BeforeTry \cup Loop => outcome = "none"
  /\ outcome = "ok" => pc \in {"idle", "finally"}
  /\ pc \in Loop /\ mode = "build" => stale = {}

\* A build that has written anything has not ended yet.
WholeIsOld ==
  /\ mode = "build"
  /\ pc \in {"writeSpec", "manifest"} \/ (pc \in Loop /\ next = 2)
  => ~whole

\* While nobody interferes, what was hashed is what the sources give.
ScriptIsHonest ==
  disturbed = "no" =>
    /\ pc \in {"tempdir"} \cup Loop /\ project = "webauth" => version = cli
    /\ pc = "extract" => built = Wasm(next)
    /\ pc \in Loop => \A c \in contracts : Hashed(c) => hashes[c] = Wasm(c)

\* What a build has written is what it has hashed.
FilesFollowHashes ==
  mode = "build" /\ disturbed # "artifacts" =>
    /\ pc = "writeSpec" => wasm[next] = File(hashes[next])
    /\ pc \in Loop => \A c \in contracts :
         Finished(c) => /\ wasm[c] = File(hashes[c])
                        /\ spec[c] = File(ExportedBy(hashes[c]))

\* What a check has noted differs, and what it has passed does not.
Noted(name, fresh) == (name \in stale) = ~fresh
StaleIsStale ==
  mode = "check" /\ disturbed = "no" =>
    /\ stale \subseteq {"wasm", "spec"} \X contracts \cup {<<"manifest", 0>>}
    /\ pc \in Loop => \A c \in contracts :
         /\ IF Finished(c) \/ (c = next /\ pc = "compareSpec")
            THEN Noted(<<"wasm", c>>, wasm[c] = File(Wasm(c)))
            ELSE <<"wasm", c>> \notin stale
         /\ IF Finished(c)
            THEN Noted(<<"spec", c>>, spec[c] = File(ExportedBy(Wasm(c))))
            ELSE <<"spec", c>> \notin stale
    /\ pc \in Loop => <<"manifest", 0>> \notin stale

IInv ==
  /\ TypeOK /\ Position /\ WholeIsOld
  /\ ScriptIsHonest /\ FilesFollowHashes /\ StaleIsStale
  /\ VerdictIsTrue /\ LeavesInOrder

-----------------------------------------------------------------------------
(* Types.                                                                  *)

LEMMA Initially == Init => IInv
<1> SUFFICES ASSUME Init PROVE IInv
  OBVIOUS
<1> USE DEF Init, contracts
<1>1. TypeOK
  <2>1. WorldOK
    BY DEF Fixtures, WorldOK
  <2>2. ScriptOK
    BY DEF ScriptOK
  <2>3. Wasm(1) \in Builds
    BY DEF Wasm, Builds
  <2>4. hashes \in Seq(Builds)
    OBVIOUS
  <2> QED  BY <2>1, <2>2, <2>3, <2>4 DEF TypeOK, LocalsOK
<1>2. /\ Position /\ WholeIsOld
      /\ ScriptIsHonest /\ FilesFollowHashes /\ StaleIsStale
  BY DEF Position, WholeIsOld, ScriptIsHonest, FilesFollowHashes,
     StaleIsStale, BeforeTry, Loop
<1>3. VerdictIsTrue /\ TempIsRemoved
  BY DEF VerdictIsTrue, SuccessMeansFresh, NoFalseAlarm, TempIsRemoved
<1>4. ArtifactsAgree
  BY DEF ArtifactsAgree, Fixtures, File, ManifestOf
<1> QED  BY <1>1, <1>2, <1>3, <1>4 DEF IInv, LeavesInOrder

LEMMA WorldStep == WorldOK /\ [Next]_vars => WorldOK'
<1> SUFFICES ASSUME WorldOK, [Next]_vars PROVE WorldOK'
  OBVIOUS
<1> USE DEF WorldOK
<1>1. CASE UNCHANGED <<project, world, files, disturbed, whole>>
  BY <1>1 DEF world, files
<1>2. CASE Start
  BY <1>2 DEF Start, world, files
<1>3. CASE writeWasm \/ writeSpec \/ writeManifest
  BY <1>3 DEF writeWasm, writeSpec, writeManifest, world, history
<1>4. CASE Throw \/ Kill
  BY <1>4 DEF Throw, Kill, Torn, world, files
<1>5. CASE Change
  <2>1. code' \in [contracts -> Codes] /\ cli' \in Clis
    BY <1>5 DEF Change, world
  <2>2. /\ wasm' = [c \in contracts |-> wasm'[c]]
        /\ spec' = [c \in contracts |-> spec'[c]]
    BY <1>5 DEF Change, files
  <2> QED  BY <1>5, <2>1, <2>2 DEF Change, files
<1> QED
  BY <1>1, <1>2, <1>3, <1>4, <1>5
  DEF Next, assertToolchain, stellarCliVersion, makeTempDir, contractBuild,
      extractSpec,
      compareWasm, compareSpec, compareManifest, removeTempDir, calm, vars,
      history

LEMMA ScriptStep == ScriptOK /\ [Next]_vars => ScriptOK'
<1> SUFFICES ASSUME ScriptOK, [Next]_vars PROVE ScriptOK'
  OBVIOUS
<1> USE DEF ScriptOK, BeforeTry, Loop, contracts
<1>1. CASE UNCHANGED vars
  BY <1>1 DEF vars, locals
<1>2. CASE \/ Start \/ assertToolchain \/ stellarCliVersion
           \/ makeTempDir \/ removeTempDir
  BY <1>2
  DEF Start, assertToolchain, stellarCliVersion, makeTempDir, removeTempDir,
      Goto, calm, locals
<1>3. CASE \/ contractBuild \/ extractSpec
           \/ compareWasm \/ compareSpec \/ compareManifest
  BY <1>3
  DEF contractBuild, extractSpec, compareWasm, compareSpec, compareManifest,
      Goto, End,
     NextContract, AfterContract, calm
<1>4. CASE writeWasm \/ writeSpec \/ writeManifest
  BY <1>4
  DEF writeWasm, writeSpec, writeManifest, Goto, End, NextContract,
      AfterContract, locals
<1>5. CASE Throw \/ Kill \/ Change
  BY <1>5 DEF Throw, Kill, Change, End, locals
<1> QED  BY <1>1, <1>2, <1>3, <1>4, <1>5 DEF Next

LEMMA LocalsStep == TypeOK /\ [Next]_vars => LocalsOK'
<1> SUFFICES ASSUME TypeOK, [Next]_vars PROVE LocalsOK'
  OBVIOUS
<1> USE DEF TypeOK, LocalsOK
<1>1. CASE UNCHANGED <<built, hashes>>
  BY <1>1
<1>2. CASE Start
  <2>1. hashes' \in Seq(Builds)
    BY <1>2 DEF Start
  <2> QED  BY <1>2, <2>1 DEF Start
<1>3. CASE contractBuild
  BY <1>3 DEF contractBuild, Wasm, WorldOK, ScriptOK, Builds
<1>4. CASE extractSpec
  BY <1>4 DEF extractSpec
<1> QED
  BY <1>1, <1>2, <1>3, <1>4
  DEF Next, assertToolchain, stellarCliVersion, makeTempDir, compareWasm,
      compareSpec, writeWasm,
      writeSpec, compareManifest, writeManifest, removeTempDir, Throw, Kill,
      Change, vars, locals

LEMMA TypeStep == TypeOK /\ [Next]_vars => TypeOK'
  BY WorldStep, ScriptStep, LocalsStep DEF TypeOK

\* Each step moves the script on, and hashes keep pace with it.
LEMMA PositionStep == TypeOK /\ Position /\ [Next]_vars => Position'
<1> SUFFICES ASSUME TypeOK, Position, [Next]_vars PROVE Position'
  OBVIOUS
<1> USE DEF TypeOK, WorldOK, ScriptOK, LocalsOK, Position, BeforeTry, Loop,
            contracts
<1>1. CASE UNCHANGED vars
  BY <1>1 DEF vars, locals
<1>2. CASE Start
  BY <1>2 DEF Start, Goto
<1>3. CASE assertToolchain \/ stellarCliVersion \/ removeTempDir
  BY <1>3
  DEF assertToolchain, stellarCliVersion, removeTempDir, Goto, calm, locals
<1>9. CASE makeTempDir
  <2>1. Len(hashes') = 0
    BY <1>9 DEF makeTempDir, Goto, locals
  <2>2. pc' = "compile" /\ next' = 1 /\ stale' = {} /\ outcome' = "none"
    BY <1>9 DEF makeTempDir, Goto, locals
  <2> QED  BY <2>1, <2>2
<1>4. CASE contractBuild
  BY <1>4 DEF contractBuild, Goto, calm
<1>5. CASE extractSpec
  BY <1>5 DEF extractSpec, Goto, calm
<1>6. CASE compareWasm \/ compareSpec \/ compareManifest
  BY <1>6
  DEF compareWasm, compareSpec, compareManifest, Goto, End, NextContract,
      AfterContract,
     calm
<1>7. CASE writeWasm
  BY <1>7 DEF writeWasm, Goto, locals
<1>13. CASE writeSpec
  BY <1>13 DEF writeSpec, Goto, NextContract, AfterContract
<1>12. CASE writeManifest
  BY <1>12 DEF writeManifest, End, locals
<1>8. CASE Throw
  BY <1>8 DEF Throw, End, locals
<1>10. CASE Kill
  BY <1>10 DEF Kill, locals
<1>11. CASE Change
  BY <1>11 DEF Change, locals
<1> QED  BY <1>1, <1>2, <1>3, <1>4, <1>5, <1>6, <1>7, <1>8, <1>9, <1>10, <1>11,
  <1>12, <1>13 DEF Next

-----------------------------------------------------------------------------
(* What a build leaves.                                                    *)

\* extractSpec adds the hash of the contract at hand.
LEMMA HashAdded ==
  ASSUME TypeOK, Position, extractSpec
  PROVE  /\ hashes'[next] = built
         /\ \A c \in contracts : c < next => hashes'[c] = hashes[c]
<1>1. Len(hashes) = next - 1 /\ next \in 1 .. 2 /\ hashes \in Seq(Builds)
  BY DEF TypeOK, ScriptOK, LocalsOK, Position, Loop, extractSpec, Goto,
     contracts
<1>2. hashes' = Append(hashes, built)
  BY DEF extractSpec
<1>3. \A i \in 1 .. Len(hashes) : hashes'[i] = hashes[i]
  BY <1>1, <1>2
<1>4. hashes'[Len(hashes) + 1] = built
  BY <1>1, <1>2
<1> QED  BY <1>1, <1>3, <1>4 DEF contracts

\* A build writes what it hashed, whatever happens to the sources.
LEMMA FilesStep ==
  TypeOK /\ Position /\ FilesFollowHashes /\ [Next]_vars => FilesFollowHashes'
<1> SUFFICES ASSUME TypeOK, Position, FilesFollowHashes, [Next]_vars,
                    mode' = "build", disturbed' # "artifacts"
             PROVE  /\ pc' = "writeSpec" => wasm'[next'] = File(hashes'[next'])
                    /\ pc' \in Loop => \A c \in contracts :
                         Finished(c)' =>
                           /\ wasm'[c] = File(hashes'[c])
                           /\ spec'[c] = File(ExportedBy(hashes'[c]))
  BY DEF FilesFollowHashes
<1> USE DEF Loop, Finished, BeforeTry
<1>n. next \in {1, 2}
  BY DEF TypeOK, ScriptOK, contracts
<1>1. CASE UNCHANGED vars
  BY <1>1 DEF vars, files, locals, history, FilesFollowHashes
<1>2. CASE Start \/ assertToolchain \/ stellarCliVersion \/ removeTempDir
  BY <1>2 DEF Start, assertToolchain, stellarCliVersion, removeTempDir, Goto
<1>3. CASE makeTempDir
  BY <1>3 DEF makeTempDir, Goto, Position, locals, contracts
<1>4. CASE contractBuild
  BY <1>4 DEF contractBuild, Goto, calm, files, history, FilesFollowHashes
<1>5. CASE extractSpec
  BY <1>5, <1>n, HashAdded
  DEF extractSpec, Goto, calm, files, history, FilesFollowHashes, contracts
<1>6. CASE compareWasm \/ compareSpec \/ compareManifest
  BY <1>6
  DEF compareWasm, compareSpec, compareManifest, Goto, End, calm, Position
<1>7. CASE writeWasm
  BY <1>7, <1>n
  DEF writeWasm, Goto, locals, FilesFollowHashes, Position, TypeOK, WorldOK,
      contracts
<1>8. CASE writeSpec
  <2>1. /\ wasm[next] = File(hashes[next])
        /\ spec'[next] = File(ExportedBy(hashes[next]))
    BY <1>8
    DEF writeSpec, Goto, FilesFollowHashes, Position, TypeOK, WorldOK,
        ScriptOK, SpecOfBuilt, history
  <2>2. /\ \A c \in contracts : c # next => spec'[c] = spec[c]
        /\ UNCHANGED <<wasm, hashes, mode, disturbed>>
        /\ pc = "writeSpec" /\ pc' # "writeSpec"
        /\ next' = (IF next < 2 THEN next + 1 ELSE next)
        /\ pc' = (IF next < 2 THEN "compile" ELSE "manifest")
    BY <1>8
    DEF writeSpec, Goto, NextContract, AfterContract, TypeOK, WorldOK, history
  <2>3. \A c \in contracts :
          c < next => /\ wasm[c] = File(hashes[c])
                      /\ spec[c] = File(ExportedBy(hashes[c]))
    BY <2>2 DEF FilesFollowHashes
  <2> QED  BY <2>1, <2>2, <2>3, <1>n DEF contracts
<1>9. CASE writeManifest
  BY <1>9 DEF writeManifest, End
<1>10. CASE Throw \/ Kill
  BY <1>10 DEF Throw, Kill, End
<1>11. CASE Change
  BY <1>11 DEF Change, files, locals, FilesFollowHashes
<1> QED  BY <1>1, <1>2, <1>3, <1>4, <1>5, <1>6, <1>7, <1>8, <1>9, <1>10, <1>11
         DEF Next

\* Writing the first file ends the validity of the artifacts as a whole.
LEMMA WholeStep ==
  TypeOK /\ Position /\ WholeIsOld /\ [Next]_vars => WholeIsOld'
<1> SUFFICES ASSUME TypeOK, Position, WholeIsOld, [Next]_vars PROVE WholeIsOld'
  OBVIOUS
<1> USE DEF Loop, WholeIsOld, BeforeTry
<1>n. next \in {1, 2}
  BY DEF TypeOK, ScriptOK, contracts
<1>1. CASE UNCHANGED vars
  BY <1>1 DEF vars, locals, history
<1>2. CASE Start \/ assertToolchain \/ stellarCliVersion \/ removeTempDir
  BY <1>2 DEF Start, assertToolchain, stellarCliVersion, removeTempDir, Goto
<1>3. CASE makeTempDir
  BY <1>3 DEF makeTempDir, Goto, Position, locals
<1>4. CASE contractBuild \/ extractSpec
  BY <1>4 DEF contractBuild, extractSpec, Goto, calm, history
<1>5. CASE compareWasm \/ compareSpec \/ compareManifest
  BY <1>5
  DEF compareWasm, compareSpec, compareManifest, Goto, End, calm, Position
<1>6. CASE writeWasm
  BY <1>6 DEF writeWasm
<1>7. CASE writeSpec
  BY <1>7 DEF writeSpec, Goto, history, Position
<1>8. CASE writeManifest \/ Throw \/ Kill
  BY <1>8 DEF writeManifest, End, Throw, Kill
<1>9. CASE Change
  BY <1>9 DEF Change, locals
<1> QED  BY <1>1, <1>2, <1>3, <1>4, <1>5, <1>6, <1>7, <1>8, <1>9 DEF Next

\* Only a build that nobody's edit of an artifact disturbed declares them whole.
LEMMA AgreeStep ==
  ASSUME TypeOK, Position, WholeIsOld, FilesFollowHashes, ArtifactsAgree,
         [Next]_vars
  PROVE  ArtifactsAgree'
<1>1. CASE UNCHANGED <<files, whole>>
  BY <1>1 DEF files, ArtifactsAgree
<1>2. CASE writeWasm
  BY <1>2 DEF writeWasm, ArtifactsAgree
<1>3. CASE ~whole /\ ~whole'
  BY <1>3 DEF ArtifactsAgree
<1>4. CASE writeManifest
  <2> SUFFICES ASSUME disturbed # "artifacts", NEW c \in contracts
               PROVE  /\ wasm'[c].kind = "file"
                      /\ spec'[c] = File(ExportedBy(wasm'[c].content))
                      /\ manifest'.content.artifacts[c] = wasm'[c].content
    BY <1>4 DEF writeManifest, ArtifactsAgree
  <2>1. /\ wasm[c] = File(hashes[c]) /\ spec[c] = File(ExportedBy(hashes[c]))
    BY <1>4 DEF writeManifest, FilesFollowHashes, Finished, Loop
  <2>2. manifest' = File([tools |-> Tools(version), artifacts |-> hashes])
    BY <1>4 DEF writeManifest, ManifestOf
  <2> QED  BY <1>4, <2>1, <2>2 DEF writeManifest, File
<1>5. CASE writeSpec
  BY <1>5, <1>3 DEF writeSpec, WholeIsOld, Position, Goto, history
<1>6. CASE Throw \/ Kill
  <2>1. CASE UNCHANGED <<files, whole>>
    BY <2>1, <1>1
  <2>2. CASE pc = "writeWasm" /\ ~whole'
    BY <2>2 DEF ArtifactsAgree
  <2>3. CASE pc \in {"writeSpec", "manifest"} /\ mode = "build" /\ UNCHANGED whole
    BY <2>3, <1>3 DEF WholeIsOld
  <2> QED  BY <1>6, <2>1, <2>2, <2>3 DEF Throw, Kill, Torn, Position
<1>7. CASE Change
  <2>1. UNCHANGED <<files, whole>> \/ ~whole'
    BY <1>7 DEF Change
  <2> QED  BY <2>1, <1>1 DEF ArtifactsAgree
<1> QED
  BY <1>1, <1>2, <1>4, <1>5, <1>6, <1>7
  DEF Next, Start, assertToolchain, stellarCliVersion, makeTempDir,
      contractBuild, extractSpec,
      compareWasm, compareSpec, compareManifest, removeTempDir, calm, vars,
      history

\* Before the try block there is no build directory, after it finally removes it.
LEMMA TempStep ==
  TypeOK /\ Position /\ TempIsRemoved /\ [Next]_vars => TempIsRemoved'
<1> SUFFICES ASSUME TypeOK, Position, TempIsRemoved, [Next]_vars
             PROVE  TempIsRemoved'
  OBVIOUS
<1> USE DEF TempIsRemoved
<1>1. CASE UNCHANGED <<pc, outcome, temp>>
  BY <1>1
<1>2. CASE Kill
  BY <1>2 DEF Kill
<1>3. CASE Throw
  BY <1>3 DEF Throw, End, Position
<1>4. CASE pc' # "idle"
  BY <1>4
<1>5. CASE removeTempDir
  BY <1>5 DEF removeTempDir
<1> QED
  BY <1>1, <1>2, <1>3, <1>4, <1>5
  DEF Next, Start, assertToolchain, stellarCliVersion, makeTempDir,
      contractBuild, extractSpec,
      compareWasm, compareSpec, writeWasm, writeSpec, compareManifest,
      writeManifest, Change, Goto,
      End, AfterContract, vars

-----------------------------------------------------------------------------
(* What a script that is not disturbed says.                               *)

\* While nobody interferes, sources and tools stay as they were hashed.
LEMMA HonestStep ==
  TypeOK /\ Position /\ ScriptIsHonest /\ [Next]_vars => ScriptIsHonest'
<1> SUFFICES ASSUME TypeOK, Position, ScriptIsHonest, [Next]_vars, disturbed' = "no"
             PROVE  /\ pc' \in {"tempdir"} \cup Loop /\ project' = "webauth"
                         => version' = cli'
                    /\ pc' = "extract" => built' = Wasm(next)'
                    /\ pc' \in Loop =>
                         \A c \in contracts : Hashed(c)' => hashes'[c] = Wasm(c)'
  BY DEF ScriptIsHonest
<1> USE DEF Loop, Hashed, BeforeTry
<1>n. next \in {1, 2}
  BY DEF TypeOK, ScriptOK, contracts
<1>s. disturbed = "no" \/ Start
  BY DEF Next, assertToolchain, stellarCliVersion, makeTempDir, contractBuild,
     extractSpec,
     compareWasm, compareSpec, writeWasm, writeSpec, compareManifest,
     writeManifest, removeTempDir,
     Throw, Kill, Change, calm, vars, history
<1>w. \/ Start
      \/ UNCHANGED <<project, cli>> /\ \A c \in contracts : Wasm(c)' = Wasm(c)
  BY <1>s
  DEF Next, assertToolchain, stellarCliVersion, makeTempDir, contractBuild,
      extractSpec,
     compareWasm, compareSpec, writeWasm, writeSpec, compareManifest,
     writeManifest, removeTempDir,
     Throw, Kill, Change, calm, vars, world, Wasm
<1>1. CASE UNCHANGED <<pc, locals>> /\ ~Start
  BY <1>1, <1>s, <1>w, <1>n DEF locals, ScriptIsHonest, contracts
<1>2. CASE Start
  BY <1>2 DEF Start, Goto
<1>3. CASE pc' \in {"idle", "finally"}
  BY <1>3
<1>4. CASE assertToolchain
  BY <1>4 DEF assertToolchain, Goto, calm
<1>5. CASE stellarCliVersion
  BY <1>5, <1>w DEF stellarCliVersion, Goto, Start
<1>6. CASE makeTempDir
  BY <1>6, <1>s, <1>w
  DEF makeTempDir, Goto, Start, Position, locals, contracts, ScriptIsHonest
<1>7. CASE contractBuild
  <2>1. /\ UNCHANGED <<version, next, hashes>>
        /\ pc = "compile" /\ pc' = "extract" /\ ~Start
    BY <1>7 DEF contractBuild, Goto, Start
  <2>2. built' = Wasm(next)
    BY <1>7 DEF contractBuild
  <2>3. Wasm(next)' = Wasm(next)
    BY <2>1, <1>7 DEF contractBuild, calm, world, Wasm
  <2> QED  BY <2>1, <2>2, <2>3, <1>s, <1>w DEF ScriptIsHonest
<1>8. CASE extractSpec
  <2>1. /\ UNCHANGED <<version, next>> /\ pc = "extract"
        /\ pc' \in {"compareWasm", "writeWasm"} /\ ~Start
    BY <1>8 DEF extractSpec, Goto, Start
  <2>2. hashes'[next] = Wasm(next)
    BY <1>8, <2>1, <1>s, HashAdded DEF ScriptIsHonest
  <2>3. \A c \in contracts : c < next => hashes'[c] = Wasm(c)
    BY <1>8, <2>1, <1>s, HashAdded DEF ScriptIsHonest
  <2> QED  BY <2>1, <2>2, <2>3, <1>s, <1>w, <1>n DEF ScriptIsHonest, contracts
<1>9. CASE compareWasm \/ writeWasm
  BY <1>9, <1>s, <1>w
  DEF compareWasm, writeWasm, locals, Goto, Start, ScriptIsHonest
<1>10. CASE compareSpec \/ writeSpec
  <2>1. /\ UNCHANGED <<version, hashes>>
        /\ pc \in {"compareSpec", "writeSpec"} /\ ~Start
        /\ next' = (IF next < 2 THEN next + 1 ELSE next)
        /\ pc' = (IF next < 2 THEN "compile" ELSE "manifest")
    BY <1>10
    DEF compareSpec, writeSpec, Goto, Start, NextContract, AfterContract
  <2> QED  BY <2>1, <1>s, <1>w, <1>n DEF ScriptIsHonest, contracts
<1> QED
  BY <1>1, <1>2, <1>3, <1>4, <1>5, <1>6, <1>7, <1>8, <1>9, <1>10, <1>s
  DEF Next, removeTempDir, compareManifest, writeManifest, Throw, Kill,
      Change, End, Goto, vars, Start

\* Of a script that has reached the manifest, undisturbed: what it would
\* write there.
LEMMA ManifestIsFresh ==
  ASSUME TypeOK, Position, ScriptIsHonest, disturbed = "no", pc = "manifest"
  PROVE  /\ hashes = [c \in contracts |-> Wasm(c)]
         /\ ManifestOf(version, hashes)
              = ManifestOf(cli, [c \in contracts |-> Wasm(c)])
<1>1. Len(hashes) = 2 /\ hashes \in Seq(Builds)
  BY DEF Position, Loop, TypeOK, LocalsOK
<1>2. \A c \in contracts : hashes[c] = Wasm(c)
  BY DEF ScriptIsHonest, Hashed, Loop, Position, contracts
<1>3. hashes = [c \in contracts |-> hashes[c]]
  BY <1>1 DEF contracts
<1>4. hashes = [c \in contracts |-> Wasm(c)]
  BY <1>2, <1>3
<1>5. Tools(version) = Tools(cli)
  BY DEF ScriptIsHonest, Loop, Tools, WebAuthTools, DelegatedTools, TypeOK,
     WorldOK
<1> QED  BY <1>4, <1>5 DEF ManifestOf

\* A check writes nothing, so what it has compared stays as it was.
LEMMA StaleStep ==
  ASSUME TypeOK, Position, ScriptIsHonest, StaleIsStale, [Next]_vars
  PROVE  StaleIsStale'
<1> SUFFICES ASSUME mode' = "check", disturbed' = "no"
    PROVE  /\ stale' \subseteq
                {"wasm", "spec"} \X contracts \cup {<<"manifest", 0>>}
           /\ pc' \in Loop => \A c \in contracts :
                /\ IF Finished(c)' \/ (c = next' /\ pc' = "compareSpec")
                   THEN Noted(<<"wasm", c>>, wasm[c] = File(Wasm(c)))'
                   ELSE <<"wasm", c>> \notin stale'
                /\ IF Finished(c)'
                   THEN Noted(<<"spec", c>>, spec[c] = File(ExportedBy(Wasm(c))))'
                   ELSE <<"spec", c>> \notin stale'
           /\ pc' \in Loop => <<"manifest", 0>> \notin stale'
  BY DEF StaleIsStale
<1> USE DEF Loop, Finished, BeforeTry, Noted
<1>n. next \in {1, 2} /\ contracts = {1, 2}
  BY DEF TypeOK, ScriptOK, contracts
<1>s. Start \/ (disturbed = "no" /\ mode = "check")
  BY DEF Next, assertToolchain, stellarCliVersion, makeTempDir, contractBuild,
     extractSpec,
     compareWasm, compareSpec, writeWasm, writeSpec, compareManifest,
     writeManifest, removeTempDir,
     Throw, Kill, Change, calm, vars, history
<1>w. \/ Start
      \/ /\ \A c \in contracts : /\ Wasm(c)' = Wasm(c)
                                 /\ ExportedBy(Wasm(c))' = ExportedBy(Wasm(c))
         /\ UNCHANGED files
  <2>1. CASE UNCHANGED <<world, files>>
    BY <2>1 DEF world, Wasm, ExportedBy
  <2>2. CASE writeWasm \/ writeSpec \/ writeManifest
    BY <2>2, <1>s
    DEF writeWasm, writeSpec, writeManifest, Goto, Position, Start
  <2>3. CASE Throw \/ Kill
    <3>1. UNCHANGED files
      BY <2>3, <1>s DEF Throw, Kill, Torn, Position, Start, Goto, files
    <3> QED  BY <2>1, <2>3, <3>1 DEF Throw, Kill, world
  <2> QED
    BY <1>s, <2>1, <2>2, <2>3
    DEF Next, assertToolchain, stellarCliVersion, makeTempDir, contractBuild,
        extractSpec,
        compareWasm, compareSpec, compareManifest, removeTempDir, Change,
        calm, vars
<1>1. CASE UNCHANGED <<pc, locals>> /\ ~Start
  BY <1>1, <1>s, <1>w, <1>n DEF locals, files, StaleIsStale
<1>2. CASE Start
  BY <1>2 DEF Start, Goto
<1>3. CASE UNCHANGED stale /\ pc' \in {"idle", "finally"} \cup BeforeTry /\ ~Start
  BY <1>3, <1>s DEF StaleIsStale
<1>4. CASE makeTempDir
  BY <1>4, <1>n DEF makeTempDir, Goto, Position, locals
<1>5. CASE contractBuild \/ extractSpec
  BY <1>5, <1>s, <1>w, <1>n
  DEF contractBuild, extractSpec, Goto, Start, files, StaleIsStale
<1>b. pc \in {"compareWasm", "compareSpec"}
        => built = Wasm(next) /\ disturbed = "no" /\ mode = "check" /\ ~Start
  BY <1>s, <1>n DEF Start, Goto, Position, ScriptIsHonest, Hashed
<1>6. CASE compareWasm
  <2>1. /\ pc = "compareWasm" /\ pc' = "compareSpec" /\ UNCHANGED next
        /\ stale' = IF wasm[next] = File(Wasm(next)) THEN stale
                    ELSE stale \cup {<<"wasm", next>>}
    BY <1>6, <1>b DEF compareWasm, Goto, Compare, sameFile
  <2> QED  BY <2>1, <1>b, <1>w, <1>n DEF files, StaleIsStale
<1>7. CASE compareSpec
  <2>1. /\ pc = "compareSpec"
        /\ next' = (IF next < 2 THEN next + 1 ELSE next)
        /\ pc' = (IF next < 2 THEN "compile" ELSE "manifest")
        /\ stale' = IF spec[next] = File(ExportedBy(Wasm(next))) THEN stale
                    ELSE stale \cup {<<"spec", next>>}
    BY <1>7, <1>b
    DEF compareSpec, Goto, Compare, sameFile, SpecOfBuilt, NextContract,
        AfterContract
  <2> QED  BY <2>1, <1>b, <1>w, <1>n DEF files, StaleIsStale
<1>8. CASE compareManifest
  BY <1>8, <1>s DEF compareManifest, End, Compare, Start, Goto, StaleIsStale
<1>9. CASE writeWasm \/ writeSpec \/ writeManifest
  BY <1>9, <1>s DEF writeWasm, writeSpec, writeManifest, Goto, Position, Start
<1> QED
  BY <1>1, <1>2, <1>3, <1>4, <1>5, <1>6, <1>7, <1>8, <1>9
  DEF Next, assertToolchain, stellarCliVersion, removeTempDir, Throw, Kill,
      Change, End, Goto, calm,
      vars, locals, Start

\* Every stale name stands for a file that differs.
StaleIsRight ==
  disturbed = "no" /\ pc \in BeforeTry \cup Loop /\ stale # {} => ~Fresh

LEMMA StaleDiffers == TypeOK /\ Position /\ StaleIsStale => StaleIsRight
<1> SUFFICES ASSUME TypeOK, Position, StaleIsStale,
                    disturbed = "no", pc \in BeforeTry \cup Loop, stale # {}
             PROVE  ~Fresh
  BY DEF StaleIsRight
<1>1. pc \in Loop /\ mode = "check"
  BY DEF Position, TypeOK, ScriptOK
<1>2. PICK name \in stale : TRUE
  OBVIOUS
<1>3. name \in {"wasm", "spec"} \X contracts
  BY <1>1, <1>2 DEF StaleIsStale
<1>4. PICK c \in contracts : name = <<"wasm", c>> \/ name = <<"spec", c>>
  BY <1>3
<1>5. wasm[c] # File(Wasm(c)) \/ spec[c] # File(ExportedBy(Wasm(c)))
  BY <1>1, <1>2, <1>4 DEF StaleIsStale, Noted
<1> QED  BY <1>5 DEF Fresh

\* Freshness is a matter of the sources, the tools and the files only.
LEMMA FreshKept == UNCHANGED <<project, world, files>> => (Fresh' <=> Fresh)
  BY DEF Fresh, Wasm, ExportedBy, ManifestOf, Tools, WebAuthTools,
     DelegatedTools, world, files

\* No step makes a check complain of fresh artifacts.
LEMMA AlarmStep ==
  ASSUME TypeOK, Position, ScriptIsHonest, StaleIsStale, NoFalseAlarm, [Next]_vars
  PROVE  NoFalseAlarm'
<1> SUFFICES ASSUME disturbed' = "no", stale' # {}, pc' # "idle" PROVE ~Fresh'
  BY DEF NoFalseAlarm
<1>t. TypeOK' /\ Position' /\ StaleIsStale'
  BY TypeStep, PositionStep, StaleStep
<1>r. StaleIsRight /\ StaleIsRight'
  BY <1>t, StaleDiffers, PTL
<1>1. CASE pc' \in BeforeTry \cup Loop
  BY <1>r, <1>1 DEF StaleIsRight
<1>2. CASE UNCHANGED <<project, world, files, stale, disturbed>> /\ pc # "idle"
  BY <1>2, FreshKept DEF NoFalseAlarm
<1>3. CASE compareManifest
  <2>1. /\ pc = "manifest" /\ disturbed = "no"
        /\ UNCHANGED <<project, world, files>>
        /\ stale' = IF manifest = ManifestOf(version, hashes) THEN stale
                    ELSE stale \cup {<<"manifest", 0>>}
    BY <1>3 DEF compareManifest, calm, history, Compare, sameFile
  <2>2. CASE manifest = ManifestOf(version, hashes)
    BY <2>1, <2>2, <1>r, FreshKept DEF Loop, StaleIsRight
  <2>3. CASE manifest # ManifestOf(version, hashes)
    BY <2>1, <2>3, ManifestIsFresh, FreshKept DEF Fresh
  <2> QED  BY <2>2, <2>3
<1>4. CASE writeManifest \/ (Throw /\ mode = "build")
  BY <1>4
  DEF Position, TypeOK, ScriptOK, BeforeTry, Loop, writeManifest, Throw, End,
      locals
<1>5. CASE Throw /\ mode = "check"
  <2>1. UNCHANGED <<project, world, files, stale, disturbed>> /\ pc # "idle"
    BY <1>5 DEF Throw, Torn, Position, locals
  <2> QED  BY <2>1, <1>2
<1>6. ~Change
  BY DEF Change
<1>7. CASE UNCHANGED vars
  BY <1>7, <1>2 DEF vars, history, locals
<1>8. mode \in {"build", "check"}
  BY DEF TypeOK, ScriptOK
<1> QED
  BY <1>1, <1>3, <1>4, <1>5, <1>6, <1>7, <1>8
  DEF Next, Start, assertToolchain, stellarCliVersion, makeTempDir,
      contractBuild, extractSpec,
      compareWasm, compareSpec, writeWasm, writeSpec, removeTempDir, Kill,
      Goto, AfterContract,
      BeforeTry, Loop

\* Only the last step of a script declares success, with everything compared
\* or written.
LEMMA SuccessStep ==
  ASSUME TypeOK, Position, ScriptIsHonest, FilesFollowHashes, StaleIsStale,
         SuccessMeansFresh,
         [Next]_vars
  PROVE  SuccessMeansFresh'
<1> SUFFICES ASSUME outcome' = "ok", disturbed' = "no" PROVE Fresh'
  BY DEF SuccessMeansFresh
<1>1. CASE UNCHANGED <<project, world, files, outcome, disturbed>>
  BY <1>1, FreshKept DEF SuccessMeansFresh
<1>2. CASE compareManifest
  <2>1. /\ pc = "manifest" /\ mode = "check" /\ disturbed = "no"
        /\ UNCHANGED <<project, world, files>>
        /\ stale = {} /\ manifest = ManifestOf(version, hashes)
    BY <1>2 DEF compareManifest, calm, history, Compare, sameFile, End
  <2>2. \A c \in contracts : /\ wasm[c] = File(Wasm(c))
                             /\ spec[c] = File(ExportedBy(Wasm(c)))
    BY <2>1 DEF StaleIsStale, Loop, Finished, Noted
  <2> QED  BY <2>1, <2>2, ManifestIsFresh, FreshKept DEF Fresh
<1>3. CASE writeManifest
  <2>1. /\ pc = "manifest" /\ mode = "build" /\ disturbed = "no"
        /\ UNCHANGED <<project, world, wasm, spec>>
        /\ manifest' = ManifestOf(version, hashes)
    BY <1>3 DEF writeManifest
  <2>2. \A c \in contracts : /\ wasm[c] = File(hashes[c])
                             /\ spec[c] = File(ExportedBy(hashes[c]))
    BY <2>1 DEF FilesFollowHashes, Loop, Finished
  <2>3. \A c \in contracts : hashes[c] = Wasm(c)
    BY <2>1, ManifestIsFresh
  <2>4. \A c \in contracts : /\ Wasm(c)' = Wasm(c)
                             /\ ExportedBy(Wasm(c))' = ExportedBy(Wasm(c))
    BY <2>1 DEF world, Wasm, ExportedBy
  <2>5. ManifestOf(cli, [c \in contracts |-> Wasm(c)])'
          = ManifestOf(cli, [c \in contracts |-> Wasm(c)])
    BY <2>1 DEF world, Wasm, ManifestOf, Tools, WebAuthTools, DelegatedTools
  <2> QED  BY <2>1, <2>2, <2>3, <2>4, <2>5, ManifestIsFresh DEF Fresh
<1> QED
  BY <1>1, <1>2, <1>3
  DEF Next, Start, assertToolchain, stellarCliVersion, makeTempDir,
      contractBuild, extractSpec,
      compareWasm, compareSpec, writeWasm, writeSpec, removeTempDir, Throw,
      Kill, Change, End, Goto,
      calm, vars, history, BeforeTry, Loop, Position

-----------------------------------------------------------------------------

LEMMA Invariance == Spec => []IInv
<1>1. IInv /\ [Next]_vars => IInv'
  BY TypeStep, PositionStep, WholeStep, HonestStep, FilesStep, StaleStep,
     SuccessStep, AlarmStep,
     AgreeStep, TempStep
  DEF IInv, VerdictIsTrue, LeavesInOrder
<1> QED  BY Initially, <1>1, PTL DEF Spec

\* build.ts of both lessons: a script that nothing disturbs tells the truth.
\* If it ends well every artifact is what the present sources and tools give,
\* and a check complains only of artifacts that are not.
THEOREM VerdictsAreTrue == Spec => []VerdictIsTrue
<1>1. IInv => VerdictIsTrue
  BY DEF IInv
<1> QED  BY Invariance, <1>1, PTL

\* build.ts:143 and :120: the specifications and hashes beside the Wasm are
\* the Wasm's own once a build has ended, even if sources changed under it,
\* and only a killed script leaves its build directory.
THEOREM ScriptsLeaveInOrder == Spec => []LeavesInOrder
<1>1. IInv => LeavesInOrder
  BY DEF IInv
<1> QED  BY Invariance, <1>1, PTL
================================================================================
