---------------------------- MODULE Publication ----------------------------
(***************************************************************************)
(* The release pipeline of catalog/semantic: commands that write seven     *)
(* bundles, each from the catalog, a reviewed file and the bundles before  *)
(* it, and one that publishes a release of them all.  Commands are         *)
(* processes of their own: they run at the same time, stop at any          *)
(* exception, are killed, and people edit the files they read.             *)
(*                                                                         *)
(* A content is its provenance: the revision of every source it derives    *)
(* from.  A reviewed file names by hash what it was reviewed against, so   *)
(* its provenance holds theirs.  Two artifacts pin the same inputs when    *)
(* their provenances agree: an edit is taken to change whatever derives    *)
(* from it.  A bundle has two artifacts and a manifest with their hashes;  *)
(* the category proposal, a draft no other bundle reads, is left out.      *)
(*                                                                         *)
(* A validation of the bundles a command reads is one step; the command    *)
(* then reads their files again, one bundle per step.  The validation of   *)
(* its own bundle with which it ends changes nothing and is left out.      *)
(***************************************************************************)
EXTENDS Naturals, Sequences, FiniteSets

CONSTANTS Writer,     \* processes that may be running at a time
          MaxStarts,  \* bound on the commands started
          MaxEdits,   \* bound on the revisions of source files
          MaxKills    \* bound on the processes killed

ASSUME PublicationConstants == {MaxStarts, MaxEdits, MaxKills} \subseteq Nat

Sources == {"catalog", "scopes", "profileSelection", "gateASelection",
            "publicSet", "gateBSelection"}
Bundles == {"category", "profile", "gateA", "resolution", "review", "gateB",
            "runtime"}
Targets == Bundles \cup {"release"}
Parts == {"first", "second"}

VARIABLES
    source,       \* the content of every source file
    part,         \* the artifacts of every bundle
    manifest,     \* its bundle-manifest.json, as the content it hashes
    lock,         \* the .write.lock file of every target exists
    job,          \* what each process writes, "none" if it is not running
    step,         \* the step of the recipe it is at
    got,          \* the contents it has read
    refs,         \* the files it has hashed for a release, with contents
    copied,       \* the files in its staging directory
    release,      \* the published files, {} before publication
    starts, edits, kills,
    abandoned,    \* history: targets whose lock a killed process left
    interrupted   \* history: bundles whose replacement was cut short

fileVars == <<source, part, manifest, release>>
runVars == <<job, step, got, refs, copied>>
vars == <<fileVars, lock, runVars, starts, edits, kills, abandoned, interrupted>>

----------------------------------------------------------------------------
(* Provenance.                                                              *)

Agree(contents) ==
    \A c, d \in contents : \A f \in DOMAIN c \cap DOMAIN d : c[f] = d[f]

Merged(contents) ==
    [f \in UNION {DOMAIN c : c \in contents} |->
        (CHOOSE c \in contents : f \in DOMAIN c)[f]]

\* The files of a bundle are the ones its manifest lists.
Whole(b) == \A p \in Parts : part[b][p] = manifest[b]

PartsOf(b) == {part[b][p] : p \in Parts}

----------------------------------------------------------------------------
(* Recipes: what each command does, in order.                               *)

Do(kind, of) == [kind |-> kind, of |-> of]

\* What a bundle is rebuilt from, to write it and to validate it; of the
\* category bundle only what its validation compares it with.
CategoryRebuild == <<Do("source", "catalog")>>

ProfileRebuild ==
    <<Do("check", "category"), Do("read", "category"),
      Do("source", "profileSelection"), Do("source", "catalog")>>

GateARebuild ==
    <<Do("check", "category"), Do("check", "profile"), Do("read", "category"),
      Do("pin", "profile"), Do("source", "gateASelection"),
      Do("source", "catalog")>>

ResolutionRebuild ==
    <<Do("check", "category"), Do("load", "gateA"), Do("read", "category"),
      Do("source", "catalog")>>

\* Mutant: the review trusts the resolution bundle it reads.
ReviewRebuild_Unchecked ==
    <<Do("read", "category"), Do("read", "resolution"), Do("load", "gateA"),
      Do("source", "publicSet")>>

ReviewRebuild ==
    <<Do("check", "resolution"), Do("read", "category"),
      Do("read", "resolution"), Do("load", "gateA"),
      Do("source", "publicSet")>>

GateBRebuild ==
    <<Do("check", "review"), Do("source", "gateBSelection"),
      Do("read", "category"), Do("read", "resolution"), Do("read", "review"),
      Do("load", "gateA")>>

RuntimeRebuild ==
    <<Do("check", "gateB"), Do("read", "category"), Do("load", "gateA"),
      Do("load", "gateB")>>

RebuildOf ==
    [category |-> CategoryRebuild, profile |-> ProfileRebuild,
     gateA |-> GateARebuild, resolution |-> ResolutionRebuild,
     review |-> ReviewRebuild, gateB |-> GateBRebuild,
     runtime |-> RuntimeRebuild]

\* A bundle is rebuilt and replaced under its lock; the review of scopes is
\* read for it too, and the catalog is hashed before the lock of the
\* resolution is taken and for its audit after.
Locked == Do("lock", "own")
Write == <<Do("build", "own"), Do("replace", "first"),
           Do("replace", "second"), Do("sign", "own")>>
BundleRecipe(b) ==
    (IF b = "resolution" THEN <<Do("source", "catalog"), Locked>> ELSE <<Locked>>)
    \o (IF b = "category" THEN <<Do("source", "scopes")>> ELSE <<>>)
    \o RebuildOf[b]
    \o (IF b = "resolution" THEN <<Do("source", "catalog")>> ELSE <<>>)
    \o Write

\* Validate, decode, hash and compare; then, locked, copy and load the copy.
Released == <<"category", "gateA", "resolution", "gateB", "runtime">>
Each(kind) == [i \in 1..Len(Released) |-> Do(kind, Released[i])]
ReleaseRecipe ==
    <<Do("check", "category"), Do("check", "runtime")>>
    \o Each("read") \o Each("hash")
    \o <<Do("hash", "catalog"), Do("build", "own"), Locked, Do("absent", "own")>>
    \o Each("copy") \o <<Do("copy", "catalog"), Do("rename", "own")>>

RecipeOf == [t \in Targets |->
                IF t = "release" THEN ReleaseRecipe ELSE BundleRecipe(t)]

\* The contents a step of a recipe reads.
Read(d) ==
    CASE d.kind = "source"           -> {source[d.of]}
      [] d.kind = "pin"              -> {manifest[d.of]}
      [] d.kind \in {"read", "load"} -> PartsOf(d.of)
      [] OTHER                       -> {}

\* validate_<bundle>: whole, every bundle it is rebuilt from is valid, or
\* loads, and what it holds is what would be built again.
Valid[b \in Bundles] ==
    LET steps == {RebuildOf[b][i] : i \in DOMAIN RebuildOf[b]} IN
    /\ Whole(b)
    /\ \A d \in steps : /\ d.kind = "check" => Valid[d.of]
                        /\ d.kind = "load" => Whole(d.of)
    /\ Agree({manifest[b]} \cup UNION {Read(d) : d \in steps})

----------------------------------------------------------------------------

\* Everything was built and reviewed once; there is no release yet.
Origin(sources) == [f \in sources |-> 0]
FirstSource ==
    [catalog |-> Origin({"catalog"}),
     scopes |-> Origin({"catalog", "scopes"}),
     profileSelection |-> Origin({"catalog", "scopes", "profileSelection"}),
     gateASelection |-> Origin(Sources \ {"publicSet", "gateBSelection"}),
     publicSet |-> Origin({"publicSet"}),
     gateBSelection |-> Origin(Sources)]
FirstBundle ==
    [category |-> FirstSource["scopes"],
     profile |-> FirstSource["profileSelection"],
     gateA |-> FirstSource["gateASelection"],
     resolution |-> FirstSource["gateASelection"],
     review |-> Origin(Sources \ {"gateBSelection"}),
     gateB |-> FirstSource["gateBSelection"],
     runtime |-> FirstSource["gateBSelection"]]

Init ==
    /\ source = FirstSource
    /\ part = [b \in Bundles |-> [p \in Parts |-> FirstBundle[b]]]
    /\ manifest = FirstBundle
    /\ lock = [t \in Targets |-> FALSE]
    /\ job = [w \in Writer |-> "none"]
    /\ step = [w \in Writer |-> 0]
    /\ got = [w \in Writer |-> {}]
    /\ refs = [w \in Writer |-> {}]
    /\ copied = [w \in Writer |-> {}]
    /\ release = {}
    /\ starts = 0 /\ edits = 0 /\ kills = 0
    /\ abandoned = {}
    /\ interrupted = {}

\* The step the process is at, and going on to the next.
Now(w) == RecipeOf[job[w]][step[w]]
At(w, kind) == job[w] # "none" /\ Now(w).kind = kind
Advance(w) ==
    /\ step' = [step EXCEPT ![w] = @ + 1]
    /\ UNCHANGED <<job, lock, starts, edits, kills, abandoned, interrupted>>

\* The process has its target's lock from one step of the recipe on.
Holds(w) == /\ job[w] # "none"
            /\ \E i \in 1..(step[w] - 1) : RecipeOf[job[w]][i] = Locked

\* It has replaced some of the bundle's files and not yet the manifest.
Replacing(w) == /\ job[w] \in Bundles
                /\ \/ At(w, "replace") /\ Now(w).of = "second"
                   \/ At(w, "sign")

\* The process is over, whatever its outcome.
Gone(w) ==
    /\ job' = [job EXCEPT ![w] = "none"]
    /\ step' = [step EXCEPT ![w] = 0]
    /\ got' = [got EXCEPT ![w] = {}]
    /\ refs' = [refs EXCEPT ![w] = {}]
    /\ copied' = [copied EXCEPT ![w] = {}]

Unlocked(w) == [lock EXCEPT ![job[w]] = @ /\ ~Holds(w)]

----------------------------------------------------------------------------
(* Commands.                                                                *)

Start(w, t) ==
    /\ job[w] = "none"
    /\ starts < MaxStarts
    /\ starts' = starts + 1
    /\ job' = [job EXCEPT ![w] = t]
    /\ step' = [step EXCEPT ![w] = 1]
    /\ UNCHANGED <<fileVars, lock, got, refs, copied, edits, kills, abandoned,
                   interrupted>>

\* Mutant: the lock file is opened without O_EXCL.
Lock_Shared(w) ==
    /\ At(w, "lock")
    /\ lock' = [lock EXCEPT ![job[w]] = TRUE]
    /\ step' = [step EXCEPT ![w] = @ + 1]
    /\ UNCHANGED <<fileVars, job, got, refs, copied, starts, edits, kills,
                   abandoned, interrupted>>

\* A target that is locked is an error: Fail.
Lock(w) ==
    /\ At(w, "lock")
    /\ ~lock[job[w]]
    /\ lock' = [lock EXCEPT ![job[w]] = TRUE]
    /\ step' = [step EXCEPT ![w] = @ + 1]
    /\ UNCHANGED <<fileVars, job, got, refs, copied, starts, edits, kills,
                   abandoned, interrupted>>

Check(w) ==
    /\ At(w, "check")
    /\ Valid[Now(w).of]
    /\ Advance(w)
    /\ UNCHANGED <<fileVars, got, refs, copied>>

Take(w) ==
    /\ \E kind \in {"source", "read", "load", "pin"} : At(w, kind)
    /\ Now(w).kind = "load" => Whole(Now(w).of)
    /\ got' = [got EXCEPT ![w] = @ \cup Read(Now(w))]
    /\ Advance(w)
    /\ UNCHANGED <<fileVars, refs, copied>>

\* Every pin compared by the build agrees; the artifacts are staged.
Build(w) ==
    /\ At(w, "build")
    /\ Agree(got[w])
    /\ Advance(w)
    /\ UNCHANGED <<fileVars, got, refs, copied>>

\* os.replace of one artifact.
Replace(w) ==
    /\ At(w, "replace")
    /\ part' = [part EXCEPT ![job[w]][Now(w).of] = Merged(got[w])]
    /\ Advance(w)
    /\ UNCHANGED <<source, manifest, release, got, refs, copied>>

\* os.replace of the manifest, and the lock is released.
Sign(w) ==
    /\ At(w, "sign")
    /\ manifest' = [manifest EXCEPT ![job[w]] = Merged(got[w])]
    /\ interrupted' = interrupted \ {job[w]}
    /\ lock' = Unlocked(w)
    /\ Gone(w)
    /\ UNCHANGED <<source, part, release, starts, edits, kills, abandoned>>

----------------------------------------------------------------------------
(* The release.                                                             *)

\* The files a step hashes or copies, named by bundle and part.
FilesOf(n) ==
    IF n = "catalog" THEN {[of |-> n, no |-> "first", content |-> source[n]]}
    ELSE {[of |-> n, no |-> p, content |-> part[n][p]] : p \in Parts}

ContentsOf(files) == {x.content : x \in files}

\* The statistics and the lexicon, whose hashes no other artifact names.
Unpinned(x) == <<x.of, x.no>> \in {<<"resolution", "first">>, <<"runtime", "second">>}

\* The hashes later compared with what the decoded artifacts pin.
Hash(w) ==
    LET files == FilesOf(Now(w).of) IN
    /\ At(w, "hash")
    /\ refs' = [refs EXCEPT ![w] = @ \cup files]
    /\ got' = [got EXCEPT ![w] =
                  @ \cup ContentsOf({x \in files : ~Unpinned(x)})]
    /\ Advance(w)
    /\ UNCHANGED <<fileVars, copied>>

\* An existing release is loaded and returned, or is an error: Fail.
Absent(w) ==
    /\ At(w, "absent")
    /\ release = {}
    /\ Advance(w)
    /\ UNCHANGED <<fileVars, got, refs, copied>>

Copy(w) ==
    /\ At(w, "copy")
    /\ copied' = [copied EXCEPT ![w] = @ \cup FilesOf(Now(w).of)]
    /\ Advance(w)
    /\ UNCHANGED <<fileVars, got, refs>>

\* Mutant: the generation is taken for what was validated and hashed.
GenerationLoads_Trusted(w) == Agree(ContentsOf(refs[w]))

\* load_catalog_semantic_release of the staged generation: the files have
\* the hashes of its manifest, pin each other, and project to the same
\* reviewed configuration.
GenerationLoads(w) ==
    /\ copied[w] = refs[w]
    /\ Agree(ContentsOf(copied[w]))
    /\ Merged(ContentsOf(copied[w])) = Merged(got[w])

Rename(w) ==
    /\ At(w, "rename")
    /\ GenerationLoads(w)
    /\ release = {}
    /\ release' = copied[w]
    /\ lock' = Unlocked(w)
    /\ Gone(w)
    /\ UNCHANGED <<source, part, manifest, starts, edits, kills, abandoned,
                   interrupted>>

----------------------------------------------------------------------------
(* Failures and people.                                                     *)

\* An exception: a check that does not pass, a full disk, an interrupt.
\* The finally clause removes the lock file the process made.
Fail(w) ==
    /\ job[w] # "none"
    /\ lock' = Unlocked(w)
    /\ interrupted' = interrupted \cup {t \in {job[w]} : Replacing(w)}
    /\ Gone(w)
    /\ UNCHANGED <<fileVars, starts, edits, kills, abandoned>>

\* A killed process removes nothing; without the lock it fails as above.
Kill(w) ==
    /\ Holds(w)
    /\ kills < MaxKills
    /\ kills' = kills + 1
    /\ abandoned' = abandoned \cup {job[w]}
    /\ interrupted' = interrupted \cup {t \in {job[w]} : Replacing(w)}
    /\ Gone(w)
    /\ UNCHANGED <<fileVars, lock, starts, edits>>

\* What a reviewed file names by hash.
Named(f) ==
    CASE f = "scopes"           -> {source["catalog"]}
      [] f = "profileSelection" -> PartsOf("category")
      [] f = "gateASelection"   -> PartsOf("category") \cup {manifest["profile"]}
      [] f = "gateBSelection"   -> PartsOf("resolution") \cup PartsOf("review")
      [] OTHER                  -> {}

\* A new catalog or public set, or a review against what is there now.
Edit(f) ==
    /\ edits < MaxEdits
    /\ edits' = edits + 1
    /\ Agree(Named(f))
    /\ source' = [source EXCEPT ![f] =
          [g \in DOMAIN Merged(Named(f)) \cup {f} |->
              IF g = f THEN edits + 1 ELSE Merged(Named(f))[g]]]
    /\ UNCHANGED <<part, manifest, release, lock, runVars, starts, kills,
                   abandoned, interrupted>>

Step(w) == \/ Lock(w)
           \/ Check(w)
           \/ Take(w)
           \/ Build(w)
           \/ Replace(w)
           \/ Sign(w)
           \/ Hash(w)
           \/ Absent(w)
           \/ Copy(w)
           \/ Rename(w)

Next == \/ \E w \in Writer : \/ \E t \in Targets : Start(w, t)
                             \/ Step(w)
                             \/ Fail(w)
                             \/ Kill(w)
        \/ \E f \in Sources : Edit(f)

Spec == Init /\ [][Next]_vars

----------------------------------------------------------------------------
(* Properties.                                                              *)

\* A release appears whole and of one provenance, whatever was edited or
\* rebuilt while it was made, and never changes again ("atomically publish
\* one immutable release", release/bundle.py:78).
ReleaseWholeAndImmutable ==
    [][release' # release =>
          /\ release = {}
          /\ {x.of : x \in release'} =
                {Released[i] : i \in 1..Len(Released)} \cup {"catalog"}
          /\ \A b \in Bundles : \A p \in Parts :
                (\E x \in release' : x.of = b) =>
                   Cardinality({x \in release' : x.of = b /\ x.no = p}) = 1
          /\ Agree({x.content : x \in release'})]_vars

\* A valid runtime bundle vouches for the whole chain under it: although it
\* validates only the approved capabilities, every bundle released with it
\* is whole and agrees with the others and with the present catalog, public
\* set and approval (runtime/bundle.py, _rebuild_candidate).
ChainVouched ==
    Valid["runtime"] =>
       LET chain == Bundles \ {"profile"} IN
       /\ \A b \in chain : Whole(b)
       /\ Agree({manifest[b] : b \in chain}
                \cup {source[f] : f \in {"catalog", "publicSet", "gateBSelection"}})

\* A bundle whose files are not those its manifest lists is being replaced
\* by the one process that has its lock, or that process failed or was
\* killed midway; a lock file without a process is a killed one's.
TornOnlyByInterruption ==
    /\ \A b \in Bundles :
          Whole(b) \/ b \in interrupted \/ \E w \in Writer : job[w] = b /\ Replacing(w)
    /\ \A t \in Targets :
          lock[t] => t \in abandoned \/ \E w \in Writer : job[w] = t /\ Holds(w)
    /\ \A v, w \in Writer : Holds(v) /\ Holds(w) /\ job[v] = job[w] => v = w
============================================================================
