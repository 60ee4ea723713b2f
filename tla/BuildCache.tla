------------------------------ MODULE BuildCache ------------------------------
(***************************************************************************)
(* airun's run, build and publish commands (airun.c): resolve the input,   *)
(* look for a cached image under the hash of the source graph, else        *)
(* compile, write app.aibc1 and copy it into the cache, then load and run  *)
(* it; publish puts an image and a runtime into a directory of its own.    *)
(* Several airun processes work in one project directory; sources are      *)
(* edited, processes are killed, writes fail, and clean empties the cache. *)
(* Files are read and written in pieces, as stdio does.                    *)
(*                                                                         *)
(* A hash stands for the contents it was made of (no collisions).  The     *)
(* project is laid out as the samples are: the entry file is src/app.aos,  *)
(* so app.aibc1 in the entry's directory is also the entry's artifact.     *)
(* A source graph is read in one step: an edit falls between two readings. *)
(* An image that a command line names is app.aibc1 of the project; bundles *)
(* and the wasm packages of publish are left out.                          *)
(***************************************************************************)
EXTENDS ProgramImage, FiniteSets

CONSTANTS
  Builders,            \* airun processes
  Files, Main,         \* source files, the entry file
  Contents(_),         \* what a file may hold
  SimpleCompile(_),    \* the program of a source graph as a set, or none
  Chunk,               \* cells one fread or fwrite moves
  EditsDuringBuild,    \* whether sources change under a running airun
  MaxEdits, MaxBuilds, MaxFaults

ASSUME BuildAssumption ==
  /\ Main \in Files
  /\ \A f \in Files : Contents(f) # {}
  /\ Chunk \in Nat \ {0}
  /\ {MaxEdits, MaxBuilds, MaxFaults} \subseteq Nat

VARIABLES
  src,     \* contents of the source files
  disk,    \* contents of the images, by path
  job,     \* what each airun process is at
  last,    \* ghost: the command that ended last, if nothing happened since
  spent    \* edits, commands and faults so far

buildVars == <<src, disk, job, last, spent>>

-----------------------------------------------------------------------------
(* Sources and paths.                                                       *)

\* The contents of the entry file and of what it imports, directly or not.
GraphOf(contents) ==
  LET closed(R) == Main \in R /\ \A f \in R : contents[f].imports \subseteq R
      reached   == CHOOSE R \in SUBSET Files :
                     closed(R) /\ \A Q \in SUBSET Files : closed(Q) => R \subseteq Q
  IN  [f \in reached |-> contents[f]]

\* parse_bytecode_aos_to_program_file, then parse_simple_program_aos_to_program_file.
\* Publish takes bytecode with legacy fields.
CompileWith(graph, legacy) ==
  IF graph[Main].bytecode # {} THEN UNION {ParseBytecode(t, legacy) : t \in graph[Main].bytecode}
  ELSE SimpleCompile(graph)
Compile(graph) == CompileWith(graph, FALSE)

AppPath     == [dir |-> "project", key |-> {}]     \* app.aibc1 of the project
SiblingPath == [dir |-> "entry", key |-> {}]       \* app.aibc1 beside the entry file
DistPath    == [dir |-> "dist", key |-> {}]        \* app.aibc1 of the published package
WwwPath     == [dir |-> "www", key |-> {}]         \* and of its web root
CachePath(graph) == [dir |-> "cache", key |-> {graph}]
Unlinked(path) == [path EXCEPT !.dir = "unlinked"]

\* The --out of build and publish (publish has one always), or derive_build_out_dir.
OutPath(j) ==
  IF j.cmd = "publish" \/ j.out # AppPath THEN j.out ELSE IF j.input = "entry" THEN SiblingPath ELSE AppPath
\* resolve_input_to_aibc1: where the prebuilt image of an input would be.
Artifact(input) ==
  IF input = "entry" \/ (input = "project" /\ AppPath \notin DOMAIN disk) THEN SiblingPath ELSE AppPath
\* handle_build resolves its input to the .aos file before it builds.
ExplicitSource(j) == j.cmd = "build" \/ j.input = "entry"

NoJob == [pc |-> "idle", cmd |-> "none", input |-> "none", useCache |-> FALSE,
          out |-> AppPath, www |-> FALSE, program |-> {}, from |-> AppPath, to |-> AppPath, at |-> 0, then |-> "idle",
          orElse |-> "idle", artifact |-> FALSE, alone |-> TRUE, ran |-> {}]
NoLast == {}

BuildInit ==
  /\ src = [f \in Files |-> CHOOSE c \in Contents(f) : TRUE]
  /\ disk = <<>>
  /\ job = [b \in Builders |-> NoJob]
  /\ last = NoLast
  /\ spent = [edits |-> 0, builds |-> 0, faults |-> 0]

Active == {b \in Builders : job[b].pc # "idle"}

-----------------------------------------------------------------------------
(* Steps of one airun process b.                                            *)

Goes(b, j) == job' = [job EXCEPT ![b] = j]
At(b, pc) == job[b].pc = pc

\* The output is there: build answers, run goes on to load it, publish to its target.
Built(j) == CASE j.cmd = "build" -> "answer" [] j.cmd = "run" -> "load" [] OTHER -> "target"

\* A copy_file whose result decides where b goes on.
CopyThen(j, from, to, then, orElse) ==
  [j EXCEPT !.pc = "copyOpen", !.from = from, !.to = to, !.at = 0, !.then = then, !.orElse = orElse]

FirstStep(cmd, input) ==
  IF cmd = "publish" THEN "publish" ELSE IF cmd = "run" /\ input = "image" THEN "load" ELSE "resolve"

\* handle_run, handle_build, handle_publish: the command line is read.  The cache
\* is asked for sources only, and not by publish.
Start(b, cmd, input, out, useCache) ==
  /\ At(b, "idle") /\ spent.builds < MaxBuilds
  /\ cmd = "run" => out = AppPath
  /\ cmd = "publish" \/ input = "image" => ~ useCache
  /\ job' = [c \in Builders |->
               IF c = b THEN [NoJob EXCEPT !.pc = FirstStep(cmd, input), !.cmd = cmd, !.input = input,
                                           !.out = out, !.useCache = useCache, !.alone = Active = {}]
               ELSE [job[c] EXCEPT !.alone = FALSE]]
  /\ last' = NoLast
  /\ spent' = [spent EXCEPT !.builds = @ + 1]
  /\ UNCHANGED <<src, disk>>

\* build_input_to_aibc1: an image that was named is taken as it is; a project's
\* existing image is preferred to its source, unless it is the very file that is
\* to be built.
Resolve(b) ==
  /\ At(b, "resolve")
  /\ LET j        == job[b]
         artifact == Artifact(j.input)
         taken    == /\ artifact \in DOMAIN disk
                     /\ \/ j.input = "image"
                        \/ ~ ExplicitSource(j) /\ artifact # OutPath(j) /\ Loads(disk[artifact])
     IN  Goes(b, IF taken THEN [CopyThen(j, artifact, OutPath(j), Built(j), "fail") EXCEPT !.artifact = TRUE]
                 ELSE [j EXCEPT !.pc = IF j.input = "image" THEN "fail"
                                       ELSE IF j.useCache THEN "key" ELSE "compile"])
  /\ UNCHANGED <<src, disk, last, spent>>

\* handle_publish: an existing image is taken as it is, except for an explicit source.
PublishResolve(b) ==
  /\ At(b, "publish")
  /\ LET j     == job[b]
         found == j.input # "entry" /\ Artifact(j.input) \in DOMAIN disk
     IN  Goes(b, [j EXCEPT !.artifact = found, !.from = Artifact(j.input),
                           !.pc = IF found THEN "target" ELSE IF j.input = "image" THEN "fail"
                                  ELSE "compile"])
  /\ UNCHANGED <<src, disk, last, spent>>

KeyOfMain(graph) == [f \in {Main} |-> graph[f]]     \* mutant: imports are not hashed
\* compute_source_graph_cache_key
GraphKey(graph) == graph

EntryUsableIfThere(path) == path \in DOMAIN disk     \* mutant: the entry is not tried
\* file_exists and is_supported_aibc1_file
EntryUsable(path) == path \in DOMAIN disk /\ Loads(disk[path])

\* The cache is asked; a hit is copied to the output.
CheckCache(b) ==
  /\ At(b, "key")
  /\ LET j     == job[b]
         entry == CachePath(GraphKey(GraphOf(src)))
     IN  Goes(b, IF EntryUsable(entry) THEN CopyThen(j, entry, OutPath(j), Built(j), "compile")
                 ELSE [j EXCEPT !.pc = "compile"])
  /\ UNCHANGED <<src, disk, last, spent>>

\* A graph that does not compile, or on which the compiler overflows its stack
\* (circular imports), ends the command.
CompileAll(b) ==
  /\ At(b, "compile")
  /\ LET program == CompileWith(GraphOf(src), job[b].cmd = "publish")
     IN  Goes(b, [job[b] EXCEPT !.program = program, !.pc = IF program = {} THEN "fail" ELSE "open"])
  /\ UNCHANGED <<src, disk, last, spent>>

TruncateNot(path) ==     \* mutant: an old file is written over, from its start
  disk' = [p \in DOMAIN disk \cup {path} |-> IF p \in DOMAIN disk THEN disk[p] ELSE <<>>]
Truncate(path) == disk' = [p \in DOMAIN disk \cup {path} |-> IF p = path THEN <<>> ELSE disk[p]]

\* What a file holds after cells are written at a position, which may lie
\* behind its end when another process has truncated it.
Longer(m, n) == IF m > n THEN m ELSE n
WriteAt(file, at, cells) ==
  [k \in 1 .. Longer(Len(file), at + Len(cells)) |->
     IF k \in at + 1 .. at + Len(cells) THEN cells[k - at]
     ELSE IF k <= Len(file) THEN file[k] ELSE 0]
NextCells(file, at) == SubSeq(file, at + 1, IF at + Chunk < Len(file) THEN at + Chunk ELSE Len(file))

\* write_program_as_aibc1, and where its success leads.
Written(j) == IF j.useCache THEN "rekey" ELSE Built(j)

WriteOpen(b) ==
  /\ At(b, "open")
  /\ Truncate(OutPath(job[b]))
  /\ Goes(b, [job[b] EXCEPT !.pc = "write", !.at = 0])
  /\ UNCHANGED <<src, last, spent>>

WritePiece(b) ==
  /\ At(b, "write")
  /\ LET j     == job[b]
         image == CHOOSE i \in {Encode(p) : p \in j.program} : TRUE
         cells == NextCells(image, j.at)
     IN  IF cells = <<>>
         THEN /\ Goes(b, [j EXCEPT !.pc = Written(j)])
              /\ UNCHANGED disk
         ELSE /\ disk' = [disk EXCEPT ![OutPath(j)] = WriteAt(@, j.at, cells)]
              /\ Goes(b, [j EXCEPT !.at = @ + Len(cells)])
  /\ UNCHANGED <<src, last, spent>>

\* The key is computed again after the compilation; what copy_file answers is ignored.
StoreEntry(b) ==
  /\ At(b, "rekey")
  /\ Goes(b, CopyThen(job[b], OutPath(job[b]), CachePath(GraphKey(GraphOf(src))),
                       Built(job[b]), Built(job[b])))
  /\ UNCHANGED <<src, disk, last, spent>>

\* copy_file
CopyOpen(b) ==
  /\ At(b, "copyOpen")
  /\ LET j == job[b]
     IN  IF j.from \notin DOMAIN disk \/ j.from = j.to
         THEN Goes(b, [j EXCEPT !.pc = IF j.from = j.to THEN j.then ELSE j.orElse]) /\ UNCHANGED disk
         ELSE Goes(b, [j EXCEPT !.pc = "copy"]) /\ Truncate(j.to)
  /\ UNCHANGED <<src, last, spent>>

CopyPiece(b) ==
  /\ At(b, "copy")
  /\ LET j     == job[b]
         cells == NextCells(disk[j.from], j.at)
     IN  IF cells = <<>>
         THEN Goes(b, [j EXCEPT !.pc = j.then]) /\ UNCHANGED disk
         ELSE /\ disk' = [disk EXCEPT ![j.to] = WriteAt(@, j.at, cells)]
              /\ Goes(b, [j EXCEPT !.at = @ + Len(cells)])
  /\ UNCHANGED <<src, last, spent>>

\* The target is checked when a compiled image is already written; an image
\* that was found is copied after it.
CheckTarget(b) ==
  /\ At(b, "target")
  /\ LET j == job[b]
     IN  \/ Goes(b, [j EXCEPT !.pc = "fail"])
         \/ \E www \in BOOLEAN :
              Goes(b, IF j.artifact THEN [CopyThen(j, j.from, j.out, "inspect", "fail") EXCEPT !.www = www]
                      ELSE [j EXCEPT !.pc = "inspect", !.www = www])
  /\ UNCHANGED <<src, disk, last, spent>>

InspectNothing(b) ==    \* mutant: the published image is not read back
  /\ At(b, "inspect")
  /\ Goes(b, [job[b] EXCEPT !.pc = "package"])
  /\ UNCHANGED <<src, disk, last, spent>>
\* The published image is read back and loaded.
Inspect(b) ==
  /\ At(b, "inspect")
  /\ Goes(b, [job[b] EXCEPT !.pc = IF job[b].out \in DOMAIN disk /\ Loads(disk[job[b].out])
                                   THEN "package" ELSE "fail"])
  /\ UNCHANGED <<src, disk, last, spent>>

\* The runtime and its launchers are put beside the image, unless the runtime
\* of the target was not built; the fullstack profile copies the image again.
Package(b) ==
  /\ At(b, "package")
  /\ LET j == job[b]
     IN  \/ Goes(b, [j EXCEPT !.pc = "fail"])
         \/ Goes(b, IF j.www THEN CopyThen(j, j.out, WwwPath, "answer", "fail")
                    ELSE [j EXCEPT !.pc = "answer"])
  /\ UNCHANGED <<src, disk, last, spent>>

Ended(b, ok, ran) ==
  /\ Goes(b, [NoJob EXCEPT !.ran = ran, !.artifact = job[b].artifact \/ job[b].input = "image"])
  /\ last' = IF Active = {b} THEN {[path |-> OutPath(job[b]), ok |-> ok, alone |-> job[b].alone,
                                    cmd |-> job[b].cmd, www |-> job[b].www,
                                    artifact |-> job[b].artifact \/ job[b].input = "image"]}
             ELSE NoLast

Fail(b) == At(b, "fail") /\ Ended(b, FALSE, {}) /\ UNCHANGED <<src, disk, spent>>

Answer(b) == At(b, "answer") /\ Ended(b, TRUE, {}) /\ UNCHANGED <<src, disk, spent>>

\* run_native_aibc1: read the whole file, load it, run the program.
LoadAndRun(b) ==
  /\ At(b, "load")
  /\ LET path == OutPath(job[b])
     IN  IF path \in DOMAIN disk /\ Loads(disk[path]) THEN Ended(b, TRUE, {ProgramIn(disk[path])})
         ELSE Ended(b, FALSE, {})
  /\ UNCHANGED <<src, disk, spent>>

-----------------------------------------------------------------------------
(* Around the process.                                                      *)

Spend(what) == spent' = [spent EXCEPT ![what] = @ + 1]

Edit(f, c) ==
  /\ spent.edits < MaxEdits /\ src[f] # c /\ (Active = {} \/ EditsDuringBuild)
  /\ src' = [src EXCEPT ![f] = c]
  /\ last' = NoLast /\ Spend("edits")
  /\ UNCHANGED <<disk, job>>

\* The process is killed.
Crash(b) ==
  /\ b \in Active /\ spent.faults < MaxFaults
  /\ Goes(b, NoJob) /\ last' = NoLast /\ Spend("faults")
  /\ UNCHANGED <<src, disk>>

\* A write fails, and the file stays cut short.  copy_file returns 0, unless only
\* the flush in fclose failed.  write_program_as_aibc1 ignores what fwrite answers,
\* and fclose reports its own flush only, so that it may return 1.  (A write that
\* fails while a later one of the same file succeeds is left out.)
WriteFails(b) ==
  /\ job[b].pc \in {"write", "copy"} /\ spent.faults < MaxFaults
  /\ \E pc \in IF At(b, "write") THEN {"fail", Written(job[b])} ELSE {job[b].orElse, job[b].then} :
       Goes(b, [job[b] EXCEPT !.pc = pc, !.alone = FALSE])
  /\ Spend("faults")
  /\ UNCHANGED <<src, disk, last>>

\* One unlink of handle_clean.  A process that has the file open keeps it.
Clean(path) ==
  /\ path.dir = "cache" /\ path \in DOMAIN disk /\ spent.faults < MaxFaults
  /\ LET held == {b \in Active : job[b].pc = "copy" /\ path \in {job[b].from, job[b].to}}
         kept == IF held = {} THEN DOMAIN disk \ {path} ELSE (DOMAIN disk \ {path}) \cup {Unlinked(path)}
         moved(p) == IF p = path THEN Unlinked(path) ELSE p
     IN  /\ disk' = [p \in kept |-> IF p = Unlinked(path) /\ held # {} THEN disk[path] ELSE disk[p]]
         /\ job' = [b \in Builders |->
                      IF b \in held THEN [job[b] EXCEPT !.from = moved(@), !.to = moved(@)] ELSE job[b]]
  /\ last' = NoLast /\ Spend("faults")
  /\ UNCHANGED src

BuildStep(b) ==
  \/ Resolve(b) \/ CheckCache(b) \/ CompileAll(b) \/ WriteOpen(b) \/ WritePiece(b)
  \/ StoreEntry(b) \/ CopyOpen(b) \/ CopyPiece(b) \/ PublishResolve(b) \/ CheckTarget(b)
  \/ Inspect(b) \/ Package(b) \/ Fail(b) \/ Answer(b) \/ LoadAndRun(b)

BuildNext ==
  \/ \E b \in Builders : BuildStep(b) \/ Crash(b) \/ WriteFails(b)
  \/ \E b \in Builders, cmd \in {"run", "build", "publish"}, input \in {"project", "entry", "image"},
        out \in {AppPath, DistPath}, useCache \in BOOLEAN : Start(b, cmd, input, out, useCache)
  \/ \E f \in Files : \E c \in Contents(f) : Edit(f, c)
  \/ \E path \in DOMAIN disk : Clean(path)

BuildSpec == BuildInit /\ [][BuildNext]_buildVars

-----------------------------------------------------------------------------
(* Properties.                                                              *)

\* With one airun at a time and no edit while it runs, what airun executes is what
\* the sources say now.  Neither a cached image nor one that an earlier or killed
\* command, a failed write or an earlier state of the sources left behind is run
\* in its place; only a prebuilt image that was asked for, or that a project-level
\* run prefers to its sources, is run as it is.
RunsCurrentSource ==
  [][\A b \in Builders :
       At(b, "load") /\ job'[b].ran # {} /\ ~ job'[b].artifact => job'[b].ran = Compile(GraphOf(src))]_buildVars

\* A half-written image is never taken for a program: with one airun at a time,
\* each file the loader accepts is the whole image of one program, whatever command
\* was killed or lost a write in the middle of it.
Sources == {s \in [Files -> UNION {Contents(f) : f \in Files}] : \A f \in Files : s[f] \in Contents(f)}
AllPrograms == UNION {Compile(GraphOf(s)) \cup CompileWith(GraphOf(s), TRUE) : s \in Sources}
AllImages == {Encode(p) : p \in AllPrograms}
NoTornImage == \A path \in DOMAIN disk : disk[path] \in AllImages \/ ~ Loads(disk[path])

\* With one airun at a time and no edit while it runs, a cache entry that loads is
\* the program of the sources it is filed under.
CacheEntriesMatchKey ==
  \A path \in DOMAIN disk :
    path.dir = "cache" /\ Loads(disk[path]) => \A graph \in path.key : {ProgramIn(disk[path])} = Compile(graph)

\* A command that nothing disturbed (no other command, no edit, no failed write)
\* and that reports success leaves an image of the current sources, whatever torn
\* files earlier commands left behind.
UndisturbedBuildIsCurrent ==
  \A end \in last :
    end.ok /\ end.alone /\ ~ end.artifact =>
      /\ end.path \in DOMAIN disk
      /\ Loads(disk[end.path])
      /\ {ProgramIn(disk[end.path])} = CompileWith(GraphOf(src), end.cmd = "publish")

\* With one airun at a time, a publish that reports success has put an image into
\* the package that loads, even if write_program_as_aibc1 or copy_file reported
\* success for a file cut short; and undisturbed, the web root has the same image.
PublishedImageLoads ==
  \A end \in last :
    end.ok /\ end.cmd = "publish" =>
      /\ end.path \in DOMAIN disk
      /\ Loads(disk[end.path])
      /\ end.www /\ end.alone => WwwPath \in DOMAIN disk /\ disk[WwwPath] = disk[end.path]

\* What the commands rely on when they take a file that loads for the image of
\* its sources: sources have at most one program, its image is a sequence of
\* numbers that loads to that program, and no proper beginning of it loads.
ImageSound(s) ==
  \A legacy \in BOOLEAN : \A p, q \in CompileWith(GraphOf(s), legacy) :
    /\ p = q
    /\ Encode(p) \in Seq(Int)
    /\ Loads(Encode(p)) /\ ProgramIn(Encode(p)) = p
    /\ \A k \in 0 .. Len(Encode(p)) - 1 : ~ Loads(SubSeq(Encode(p), 1, k))
ImagesSound == \A s \in Sources : ImageSound(s)

\* A program that the file format can express and the loader has room for: known
\* opcodes, no node among its constants, and each limit of the loader kept.
Writable(p) ==
  /\ p = [code |-> p.code, consts |-> p.consts]
  /\ p.code \in Seq([op : 0 .. LastOpcode, a : Int]) /\ Len(p.code) <= MaxProgramInstructions
  /\ p.consts \in Seq([kind : KInt .. KNull, data : Seq(Int)]) /\ Len(p.consts) <= MaxProgramConstants
  /\ \A k \in 1 .. Len(p.consts) : p.consts[k].kind \notin {KString, KBytes} =>
       Len(p.consts[k].data) = IF p.consts[k].kind \in {KInt, KBool} THEN 1 ELSE 0
  /\ StringBytes(p.consts) <= MaxStringBytes /\ BytesStorage(p.consts) <= MaxBytesStorage
ProgramsWritable ==
  \A s \in Sources, legacy \in BOOLEAN : \A p, q \in CompileWith(GraphOf(s), legacy) : p = q /\ Writable(p)

\* The image that write_program_as_aibc1 is about to write is read back by
\* aivm_program_load_aibc1 as the program it was made of, and refused when it is
\* cut short anywhere.
WrittenImageSound == \A b \in Builders : At(b, "open") => ImageSound(src)
=============================================================================
