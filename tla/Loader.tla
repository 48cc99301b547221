------------------------------- MODULE Loader -------------------------------
(***************************************************************************)
(* internal/slo: reading a directory of SLO files and validating it, by    *)
(* the server (Scheduler.LoadSLOs) and by `aegis validate`, while somebody *)
(* edits the files.  A pass over the directory lists its YAML files and    *)
(* then reads them one by one.  The server makes two: LoadFromDirectory,   *)
(* whose SLOs it keeps, and ValidateDirectory, which reads everything      *)
(* again and whose verdict it asks for.  The command line makes the second *)
(* only.                                                                   *)
(*                                                                         *)
(* A file holds Garbage, which does not parse, or a spec: its id, whether  *)
(* the JSON schema accepts it, its compliance window and the windows of    *)
(* its rules.                                                              *)
(***************************************************************************)
EXTENDS Integers, FiniteSets

CONSTANTS
  Files,      \* the paths with a YAML extension, numbers in the order of Walk
  Specs,      \* the specs a file may hold
  Garbage,    \* what does not parse
  Absent,     \* no such file
  UnitLength,  \* nanoseconds per unit
  Half,       \* 2^63: a time.Duration is in -Half .. Half - 1
  MaxEdits    \* bound: edits of the directory

Units    == {"s", "m", "h", "d"}
Duration == [count : Nat, unit : Units]
Contents == Specs \cup {Garbage}

ASSUME LoaderAssumption ==
  /\ Files \subseteq Nat /\ IsFiniteSet(Files)
  /\ {Garbage, Absent} \cap Specs = {} /\ Garbage # Absent
  /\ UnitLength \in [Units -> Nat \ {0}]
  /\ Half \in Nat \ {0} /\ MaxEdits \in Nat
  /\ \A spec \in Specs :
       /\ spec.compliance \in Duration
       /\ \A i \in DOMAIN spec.rules : {spec.rules[i].short, spec.rules[i].long} \subseteq Duration

Actors == {"server", "cli"}

VARIABLES
  directory,  \* per path: what the file holds, or Absent
  schema,     \* per actor: it finds schemas/slo_v1.json from where it runs
  phase,      \* per actor: "off", "load", "validate", "ok" or "error"
  todo,       \* per actor: the files its pass has still to read
  got,        \* per actor: the specs of its pass, with their files
  failed,     \* per actor: its pass met an error
  slos,       \* the specs of the server's first pass
  edits,      \* history: edits so far
  touched     \* history, per actor: the files edited since it began

passVars == <<phase, todo, got, failed>>
vars     == <<directory, schema, passVars, slos, edits, touched>>

----------------------------------------------------------------------------
(* Durations.                                                              *)

\* Two's complement: a product of int64s out of range wraps around.
Wrapped(n) == ((n + Half) % (2 * Half)) - Half

\* ParseDuration, of a string of the schema's pattern: strconv.ParseInt rejects
\* a count out of range; the product is not checked.
ParseDuration(duration) ==
  IF duration.count >= Half THEN [ok |-> FALSE, value |-> 0]
  ELSE [ok |-> TRUE, value |-> Wrapped(duration.count * UnitLength[duration.unit])]

----------------------------------------------------------------------------
(* Validation of what a pass has read.                                     *)

\* Fault: only the long windows are compared.
LongWindowsFit(spec) ==
  LET compliance == ParseDuration(spec.compliance)
  IN  /\ compliance.ok
      /\ \A i \in DOMAIN spec.rules :
           LET long == ParseDuration(spec.rules[i].long)
           IN  long.ok /\ long.value <= compliance.value

\* validateComplianceWindow finds nothing: every duration parses and the largest
\* window of a rule does not exceed the compliance window.
WindowsFit(spec) ==
  LET compliance == ParseDuration(spec.compliance)
  IN  /\ compliance.ok
      /\ \A i \in DOMAIN spec.rules :
           \A duration \in {spec.rules[i].short, spec.rules[i].long} :
             LET window == ParseDuration(duration)
             IN  window.ok /\ window.value <= compliance.value

\* ValidateDirectory returns no error.  A directory without any SLO has none.
NoErrors(a) ==
  /\ ~failed[a]
  /\ \A entry \in got[a] : entry.spec.conforms /\ WindowsFit(entry.spec)
  /\ \A e, f \in got[a] : e.spec.id = f.spec.id => e = f

----------------------------------------------------------------------------

Entry(file) == [file |-> file, spec |-> directory[file]]

Init ==
  /\ directory \in [Files -> Contents \cup {Absent}]
  /\ schema \in [Actors -> BOOLEAN]
  /\ phase = [a \in Actors |-> "off"]
  /\ todo = [a \in Actors |-> {}] /\ got = [a \in Actors |-> {}]
  /\ failed = [a \in Actors |-> FALSE]
  /\ slos = {} /\ edits = 0
  /\ touched = [a \in Actors |-> {}]

\* discoverYAMLFiles: the files there are now.
Discover(a) ==
  /\ todo' = [todo EXCEPT ![a] = {file \in Files : directory[file] # Absent}]
  /\ got' = [got EXCEPT ![a] = {}]
  /\ failed' = [failed EXCEPT ![a] = FALSE]

Enters(a, where) == phase' = [phase EXCEPT ![a] = where]

\* LoadSLOs begins.  It is called once, by main; a rejected directory ends the
\* process, which may be started again.
LoadBegins ==
  /\ phase["server"] \in {"off", "error"}
  /\ Enters("server", "load") /\ Discover("server")
  /\ touched' = [touched EXCEPT !["server"] = {}]
  /\ UNCHANGED <<directory, schema, slos, edits>>

\* `aegis validate`: without the schema it stops before it reads anything.
CLIBegins ==
  /\ phase["cli"] \in {"off", "ok", "error"}
  /\ IF schema["cli"]
       THEN Enters("cli", "validate") /\ Discover("cli")
       ELSE Enters("cli", "error") /\ UNCHANGED <<todo, got, failed>>
  /\ touched' = [touched EXCEPT !["cli"] = {}]
  /\ UNCHANGED <<directory, schema, slos, edits>>

\* The next file: a file that is gone by now, or does not parse, is an error, and
\* the pass goes on.
ReadFile(a) ==
  /\ phase[a] \in {"load", "validate"}
  /\ \E file \in todo[a] :
       /\ \A other \in todo[a] : file <= other
       /\ todo' = [todo EXCEPT ![a] = @ \ {file}]
       /\ IF directory[file] \in Specs
            THEN got' = [got EXCEPT ![a] = @ \cup {Entry(file)}] /\ UNCHANGED failed
            ELSE failed' = [failed EXCEPT ![a] = TRUE] /\ UNCHANGED got
  /\ UNCHANGED <<directory, schema, phase, slos, edits, touched>>

\* Fault: a directory without SLOs is loaded.
LoadAcceptsNothing ==
  /\ phase["server"] = "load" /\ todo["server"] = {}
  /\ IF failed["server"] \/ ~schema["server"]
       THEN Enters("server", "error") /\ UNCHANGED <<todo, got, failed, slos>>
       ELSE /\ slos' = got["server"]
            /\ Enters("server", "validate") /\ Discover("server")
  /\ UNCHANGED <<directory, schema, edits, touched>>

\* The first pass ends: any error, or no SLO, rejects the directory, and so does
\* a validator that cannot be made.  Then everything is read again.
LoadEnds ==
  /\ phase["server"] = "load" /\ todo["server"] = {}
  /\ IF failed["server"] \/ got["server"] = {} \/ ~schema["server"]
       THEN Enters("server", "error") /\ UNCHANGED <<todo, got, failed, slos>>
       ELSE /\ slos' = got["server"]
            /\ Enters("server", "validate") /\ Discover("server")
  /\ UNCHANGED <<directory, schema, edits, touched>>

\* Fault: only what does not parse is an error.
ValidatesNothing(a) ==
  /\ phase[a] = "validate" /\ todo[a] = {}
  /\ Enters(a, IF failed[a] THEN "error" ELSE "ok")
  /\ UNCHANGED <<directory, schema, todo, got, failed, slos, edits, touched>>

\* The validating pass ends with a verdict: for the server, on what the first
\* pass read.
ValidateEnds(a) ==
  /\ phase[a] = "validate" /\ todo[a] = {}
  /\ Enters(a, IF NoErrors(a) THEN "ok" ELSE "error")
  /\ UNCHANGED <<directory, schema, todo, got, failed, slos, edits, touched>>

\* Somebody writes, replaces or removes a file.
Edit(file) ==
  /\ edits < MaxEdits
  /\ \E content \in (Contents \cup {Absent}) \ {directory[file]} :
       directory' = [directory EXCEPT ![file] = content]
  /\ edits' = edits + 1
  /\ touched' = [a \in Actors |-> touched[a] \cup {file}]
  /\ UNCHANGED <<schema, passVars, slos>>

Next ==
  \/ LoadBegins \/ LoadEnds \/ CLIBegins
  \/ \E a \in Actors : ReadFile(a) \/ ValidateEnds(a)
  \/ \E file \in Files : Edit(file)

Spec == Init /\ [][Next]_vars

----------------------------------------------------------------------------

Entries == [file : Files, spec : Specs]

TypeOK ==
  /\ directory \in [Files -> Contents \cup {Absent}]
  /\ phase \in [Actors -> {"off", "load", "validate", "ok", "error"}]
  /\ \A a \in Actors : todo[a] \subseteq Files /\ got[a] \subseteq Entries
  /\ slos \subseteq Entries
  /\ phase["server"] \in {"validate", "ok"} => slos # {}

\* The length of a duration as its author means it.
Length(duration) == duration.count * UnitLength[duration.unit]

Representable(spec) ==
  \A duration \in {spec.compliance} \cup
                  UNION {{spec.rules[i].short, spec.rules[i].long} : i \in DOMAIN spec.rules} :
    Length(duration) < Half

Present == {file \in Files : directory[file] # Absent}

\* What is asked of a file by itself (PED.md:124-127): it parses, conforms to the
\* schema, and has no window longer than its compliance window.
Sound(file) ==
  /\ directory[file] \in Specs
  /\ directory[file].conforms
  /\ \A i \in DOMAIN directory[file].rules :
       \A duration \in {directory[file].rules[i].short, directory[file].rules[i].long} :
         Length(duration) <= Length(directory[file].compliance)

\* What is asked of files that are loaded together: their ids are unique too.
Acceptable(files) ==
  /\ \A file \in files : Sound(file)
  /\ \A e, f \in files : directory[e].id = directory[f].id => e = f

\* Nothing is wrong with file, whatever else is in the directory.
Valid(file) ==
  /\ Sound(file)
  /\ \A other \in Present :
       directory[other] \in Specs /\ directory[other].id = directory[file].id =>
         other = file

AllRepresentable(files) ==
  \A file \in files : directory[file] \in Specs => Representable(directory[file])

Undisturbed == touched["server"] = {} /\ AllRepresentable(Present)

\* A load during which nobody edits the directory (scheduler.go:46-84), when no
\* duration exceeds 2^63 nanoseconds: what it loads are acceptable files, as they
\* are, and all the valid ones; it fails only if there is something wrong.  Whether
\* a file with an error may take the valid ones down with it is the question of
\* ValidFilesStillLoad, and left open here.
SteadyLoadIsSound ==
  Undisturbed =>
    /\ phase["server"] = "ok" =>
         /\ slos \subseteq {Entry(file) : file \in Present}
         /\ Acceptable({entry.file : entry \in slos})
         /\ \A file \in Present : Valid(file) => Entry(file) \in slos
    /\ phase["server"] = "error" =>
         ~Acceptable(Present) \/ Present = {} \/ ~schema["server"]

\* "Invalid files don't crash the loader; valid ones still load" (TASKS.md:40),
\* "Reject invalid specs without crashing system" (PED.md:128): with the schema at
\* hand and nobody editing, what is wrong with other files keeps no valid one out.
ValidFilesStillLoad ==
  Undisturbed /\ schema["server"] /\ phase["server"] \in {"ok", "error"} =>
    \A file \in Present :
      Valid(file) => phase["server"] = "ok" /\ Entry(file) \in slos

\* Edits taint only the files they touch: of the others, all are loaded, as they
\* are, and are acceptable together, although the validated reading is not the one
\* that is kept.  Nothing like it holds for a file edited between the readings:
\* what runs may then be invalid, or have another file's id.
OnlyEditedFilesAreDoubtful ==
  phase["server"] = "ok" =>
    LET sure == Present \ touched["server"]
    IN  /\ {Entry(file) : file \in sure} \subseteq slos
        /\ \A entry \in slos : entry.file \in sure \cup touched["server"]
        /\ AllRepresentable(sure) => Acceptable(sure)

\* On a directory nobody edits, `aegis validate` and the server agree, but for a
\* directory without SLOs, which only the former calls valid.
CLIPredictsServer ==
  (\A a \in Actors : touched[a] = {} /\ schema[a] /\ phase[a] \in {"ok", "error"}) =>
    (phase["server"] = "ok" <=> phase["cli"] = "ok" /\ Present # {})

=============================================================================
