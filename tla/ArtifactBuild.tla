---------------------------- MODULE ArtifactBuild ----------------------------
(***************************************************************************)
(* The two contract build scripts, webauth/contracts/build.ts and          *)
(* delegated-signers/contracts/build.ts.  Both build each contract of the  *)
(* lesson in a temporary directory, extract its specification, and then    *)
(* either write the Wasm, the specification and at the end a manifest of   *)
(* hashes next to the lesson, or, with --check, compare them with what is  *)
(* there.  The model runs one such script after another while a developer  *)
(* edits sources, upgrades tools and touches artifacts at any moment, and  *)
(* any command may fail or be killed.                                      *)
(***************************************************************************)
EXTENDS Integers, Sequences

CONSTANTS
  Codes,       \* revisions of a contract's source
  Interface,   \* the interface a revision exports
  Clis,        \* versions of the Stellar CLI, which end up in the Wasm
  MaxChanges   \* bound: what the developer changes in one behaviour

ASSUME BuildAssumption ==
  /\ Interface \in [Codes -> Nat]
  /\ MaxChanges \in Nat

VARIABLES
  project,                 \* which of the two scripts
  code, pinned, cli,       \* sources, "Cargo.toml pins the SDK", installed CLI
  wasm, spec, manifest,    \* the files beside the lesson
  pc, mode, outcome,       \* the running script and how the last one ended
  temp,                    \* its build directory exists
  version, next, built, hashes, stale,     \* the script's locals
  changes,                 \* how often the developer interfered
  disturbed,               \* with what, since the script started
  whole                    \* no artifact was written since a build ended

world == <<code, pinned, cli>>
files == <<wasm, spec, manifest>>
locals == <<version, next, built, hashes, stale>>
history == <<changes, disturbed, whole>>
\* What a step of the script that writes no artifact leaves alone.
calm == <<project, world, files, mode, history>>
vars == <<project, world, files, pc, mode, outcome, temp, locals, history>>

Absent == [kind |-> "absent"]
Other == [kind |-> "other"]      \* cut short, or edited by hand
File(content) == [kind |-> "file", content |-> content]

contracts == 1 .. 2

\* What the manifest says of the tools.
WebAuthTools(v) == [stellarCli |-> v]
DelegatedTools(v) == [sorobanSdk |-> TRUE]
Tools(v) == IF project = "webauth" THEN WebAuthTools(v) ELSE DelegatedTools(v)

Wasm(c) == [code |-> code[c], cli |-> cli]
ExportedBy(w) == Interface[w.code]
ManifestOf(v, h) == File([tools |-> Tools(v), artifacts |-> h])

-----------------------------------------------------------------------------
\* The committed fixtures: a finished build, or a lesson not built yet.
Fixtures ==
  \/ /\ wasm = [c \in contracts |-> File(Wasm(c))]
     /\ spec = [c \in contracts |-> File(ExportedBy(Wasm(c)))]
     /\ manifest = ManifestOf(cli, [c \in contracts |-> Wasm(c)])
     /\ whole = TRUE
  \/ /\ wasm = [c \in contracts |-> Absent] /\ spec = [c \in contracts |-> Absent]
     /\ manifest = Absent
     /\ whole = FALSE

Init ==
  /\ project \in {"webauth", "delegated"}
  /\ \E r \in Codes, v \in Clis: code = [c \in contracts |-> r] /\ cli = v
  /\ pinned = TRUE /\ Fixtures
  /\ pc = "idle" /\ mode = "build" /\ outcome = "none" /\ temp = FALSE
  /\ version = cli /\ next = 1 /\ built = Wasm(1) /\ hashes = <<>> /\ stale = {}
  /\ changes = 0 /\ disturbed = "sources"

Goto(from, to) == pc = from /\ pc' = to

\* The command line decides between the two modes; every run has a build
\* directory of its own.
Start ==
  /\ Goto("idle", "toolchain")
  /\ mode' \in {"build", "check"}
  /\ outcome' = "none" /\ disturbed' = "no" /\ temp' = FALSE
  /\ next' = 1 /\ hashes' = <<>> /\ stale' = {}
  /\ UNCHANGED <<project, world, files, version, built, changes, whole>>

assertToolchain ==
  /\ pinned
  /\ Goto("toolchain", IF project = "webauth" THEN "version" ELSE "tempdir")
  /\ UNCHANGED <<calm, outcome, temp, locals>>

stellarCliVersion ==
  /\ Goto("version", "tempdir")
  /\ version' = cli
  /\ UNCHANGED <<calm, outcome, temp, next, built, hashes, stale>>

makeTempDir ==
  /\ Goto("tempdir", "compile")
  /\ temp' = TRUE
  /\ UNCHANGED <<calm, outcome, locals>>

\* "stellar contract build" and reading back what it wrote.
contractBuild ==
  /\ Goto("compile", "extract")
  /\ built' = Wasm(next)
  /\ UNCHANGED <<calm, outcome, temp, version, next, hashes, stale>>

\* Mutant of SpecOfBuilt: it is taken from the sources.
SpecOfSources == File(ExportedBy(Wasm(next)))

\* The specification comes from the Wasm just built.
SpecOfBuilt == File(ExportedBy(built))

\* "stellar contract info interface" on the built Wasm, and its hash.
extractSpec ==
  /\ Goto("extract", IF mode = "check" THEN "compareWasm" ELSE "writeWasm")
  /\ hashes' = Append(hashes, built)
  /\ UNCHANGED <<calm, outcome, temp, version, next, built, stale>>

\* Mutant of sameFile: a file that is not there passes.
sameFileOrNone(file, expected) == file \in {expected, Absent}

sameFile(file, expected) == file = expected

\* Check mode: what differs joins the list of stale files.
Compare(name, file, expected) ==
  stale' = IF sameFile(file, expected) THEN stale ELSE stale \cup {name}

AfterContract == IF next < 2 THEN "compile" ELSE "manifest"
NextContract == next' = IF next < 2 THEN next + 1 ELSE next

compareWasm ==
  /\ Goto("compareWasm", "compareSpec")
  /\ Compare(<<"wasm", next>>, wasm[next], File(built))
  /\ UNCHANGED <<calm, outcome, temp, version, next, built, hashes>>

compareSpec ==
  /\ Goto("compareSpec", AfterContract) /\ NextContract
  /\ Compare(<<"spec", next>>, spec[next], SpecOfBuilt)
  /\ UNCHANGED <<calm, outcome, temp, version, built, hashes>>

\* writeFile cuts the file off and fills it; both in one step unless the
\* script stops in between, which is Kill or Throw.
writeWasm ==
  /\ Goto("writeWasm", "writeSpec")
  /\ wasm' = [wasm EXCEPT ![next] = File(built)]
  /\ whole' = FALSE
  /\ UNCHANGED <<project, world, spec, manifest, mode, outcome, temp>>
  /\ UNCHANGED <<locals, changes, disturbed>>

writeSpec ==
  /\ Goto("writeSpec", AfterContract) /\ NextContract
  /\ spec' = [spec EXCEPT ![next] = SpecOfBuilt]
  /\ UNCHANGED <<project, world, wasm, manifest, mode, outcome, temp>>
  /\ UNCHANGED <<version, built, hashes, stale, history>>

\* The body is over; finally removes the build directory.
End(result) == outcome' = result /\ pc' = "finally"

compareManifest ==
  /\ pc = "manifest" /\ mode = "check"
  /\ Compare(<<"manifest", 0>>, manifest, ManifestOf(version, hashes))
  /\ End(IF stale' = {} THEN "ok" ELSE "failed")
  /\ UNCHANGED <<calm, temp, version, next, built, hashes>>

writeManifest ==
  /\ pc = "manifest" /\ mode = "build"
  /\ manifest' = ManifestOf(version, hashes)
  /\ whole' = (disturbed # "artifacts")
  /\ End("ok")
  /\ UNCHANGED <<project, world, wasm, spec, mode, temp, locals, changes, disturbed>>

removeTempDir ==
  /\ Goto("finally", "idle")
  /\ temp' = FALSE
  /\ UNCHANGED <<calm, outcome, locals>>

-----------------------------------------------------------------------------
(* What goes wrong.                                                        *)

\* The file being written when a script stops: as it was, or cut short.
Torn ==
  \/ UNCHANGED <<files, whole>>
  \/ /\ pc = "writeWasm" /\ wasm' = [wasm EXCEPT ![next] = Other]
     /\ whole' = FALSE /\ UNCHANGED <<spec, manifest>>
  \/ /\ pc = "writeSpec" /\ spec' = [spec EXCEPT ![next] = Other]
     /\ UNCHANGED <<wasm, manifest, whole>>
  \/ /\ pc = "manifest" /\ mode = "build" /\ manifest' = Other
     /\ UNCHANGED <<wasm, spec, whole>>

\* Before the try block nothing is there to remove.
BeforeTry == {"toolchain", "version", "tempdir"}

\* A command exits with an error, the SDK is not the expected one, or a file
\* cannot be read or written.
Throw ==
  /\ pc \notin {"idle", "finally"}
  /\ Torn
  /\ IF pc \in BeforeTry THEN outcome' = "failed" /\ pc' = "idle" ELSE End("failed")
  /\ UNCHANGED <<project, world, mode, temp, locals, changes, disturbed>>

\* The process is killed, or the directory cannot be removed.
Kill ==
  /\ pc # "idle"
  /\ Torn
  /\ outcome' = "killed" /\ pc' = "idle"
  /\ UNCHANGED <<project, world, mode, temp, locals, changes, disturbed>>

\* The developer edits a source, Cargo.toml or an artifact, or upgrades the
\* CLI, while a script runs or between two.
Change ==
  /\ changes < MaxChanges
  /\ changes' = changes + 1
  /\ \/ /\ \/ /\ \E c \in contracts, r \in Codes : code' = [code EXCEPT ![c] = r]
              /\ UNCHANGED <<pinned, cli>>
           \/ pinned' = ~pinned /\ UNCHANGED <<code, cli>>
           \/ cli' \in Clis /\ UNCHANGED <<code, pinned>>
        /\ disturbed' = IF disturbed = "no" THEN "sources" ELSE disturbed
        /\ UNCHANGED <<files, whole>>
     \/ /\ \/ /\ \E c \in contracts : wasm' = [wasm EXCEPT ![c] = Other]
              /\ UNCHANGED <<spec, manifest>>
           \/ /\ \E c \in contracts : spec' = [spec EXCEPT ![c] = Other]
              /\ UNCHANGED <<wasm, manifest>>
           \/ manifest' = Other /\ UNCHANGED <<wasm, spec>>
        /\ disturbed' = "artifacts" /\ whole' = FALSE
        /\ UNCHANGED world
  /\ UNCHANGED <<project, pc, mode, outcome, temp, locals>>

Next ==
  \/ Start \/ assertToolchain \/ stellarCliVersion \/ makeTempDir
  \/ contractBuild \/ extractSpec
  \/ compareWasm \/ compareSpec \/ writeWasm \/ writeSpec
  \/ compareManifest \/ writeManifest \/ removeTempDir
  \/ Throw \/ Kill \/ Change

Spec == Init /\ [][Next]_vars

-----------------------------------------------------------------------------
(* Properties                                                              *)

\* What a build of the present sources with the present tools would leave.
Fresh ==
  /\ \A c \in contracts : wasm[c] = File(Wasm(c)) /\ spec[c] = File(ExportedBy(Wasm(c)))
  /\ manifest = ManifestOf(cli, [c \in contracts |-> Wasm(c)])

\* A script that ends well while nothing else changes leaves, or has found,
\* every artifact as a build of the present sources makes it.  So a check
\* notices whatever a killed or failed build, an edit or an upgrade left.
SuccessMeansFresh == outcome = "ok" /\ disturbed = "no" => Fresh

\* A check does not complain of artifacts that are fresh.
NoFalseAlarm == disturbed = "no" /\ stale # {} /\ pc # "idle" => ~Fresh

\* Either verdict of an undisturbed script is true.
VerdictIsTrue == SuccessMeansFresh /\ NoFalseAlarm

\* build.ts:143 "so executable code and its ABI come from the same build":
\* after a build that ended, even one whose sources or tools changed under
\* it, the specifications and hashes beside the Wasm are the Wasm's own.
ArtifactsAgree ==
  whole => \A c \in contracts :
             /\ wasm[c].kind = "file" /\ spec[c] = File(ExportedBy(wasm[c].content))
             /\ manifest.content.artifacts[c] = wasm[c].content

\* build.ts:120 "remove it even on failure": a script that was not killed
\* leaves no build directory, whichever step failed.
TempIsRemoved == pc = "idle" /\ outcome \in {"ok", "failed"} => ~temp

\* What a script leaves behind, whichever step it ended at.
LeavesInOrder == ArtifactsAgree /\ TempIsRemoved
=============================================================================
