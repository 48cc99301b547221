----------------------------- MODULE Loader_proofs -----------------------------
(***************************************************************************)
(* Theorems about Loader, for any files, any specs, any width of a         *)
(* duration and any number of edits: what the server runs is what it has   *)
(* validated, but for the files edited meanwhile, and what it validates is *)
(* what was asked for.                                                     *)
(***************************************************************************)
EXTENDS Loader, TLAPS

----------------------------------------------------------------------------
(* Durations.                                                              *)

\* Within the range of an int64 nothing wraps.
LEMMA WrappedIsExact ==
  ASSUME NEW n \in Nat, n < Half
  PROVE  Wrapped(n) = n
<1>1. Half \in Nat /\ n + Half \in 0 .. 2 * Half - 1
  BY LoaderAssumption
<1>2. \A x \in Nat, y \in Nat : x < y => x % y = x
  OBVIOUS
<1>3. (n + Half) % (2 * Half) = n + Half
  BY <1>1, <1>2
<1>. QED BY <1>1, <1>3 DEF Wrapped

LEMMA ParseDurationIsExact ==
  ASSUME NEW duration \in Duration, Length(duration) < Half
  PROVE  /\ ParseDuration(duration).ok
         /\ ParseDuration(duration).value = Length(duration)
<1>1. /\ duration.count \in Nat /\ UnitLength[duration.unit] \in Nat \ {0} /\ Half \in Nat
  BY LoaderAssumption DEF Duration
<1>2. Length(duration) \in Nat
  BY <1>1 DEF Length
<1>3. duration.count <= duration.count * UnitLength[duration.unit]
  BY <1>1
<1>4. duration.count < Half
  BY <1>1, <1>2, <1>3 DEF Length
<1>5. ~(duration.count >= Half)
  BY <1>1, <1>4
<1>6. ParseDuration(duration) = [ok |-> TRUE, value |-> Length(duration)]
  BY <1>2, <1>5, WrappedIsExact DEF ParseDuration, Length
<1>7. ParseDuration(duration).ok
  <2>1. ParseDuration(duration).ok = TRUE
    BY ONLY <1>6, SMT
  <2>. QED BY ONLY <2>1, Zenon
<1>8. ParseDuration(duration).value = Length(duration)
  BY ONLY <1>6
<1>. QED BY <1>7, <1>8

\* What is asked of the windows of one spec.
WindowsAcceptable(spec) ==
  \A i \in DOMAIN spec.rules :
    \A duration \in {spec.rules[i].short, spec.rules[i].long} :
      Length(duration) <= Length(spec.compliance)

LEMMA WindowsFitIsExact ==
  ASSUME NEW spec \in Specs, Representable(spec)
  PROVE  WindowsFit(spec) <=> WindowsAcceptable(spec)
<1>1. /\ ParseDuration(spec.compliance).ok
      /\ ParseDuration(spec.compliance).value = Length(spec.compliance)
  <2>1. spec.compliance \in Duration /\ Length(spec.compliance) < Half
    BY LoaderAssumption DEF Representable
  <2>. QED BY <2>1, ParseDurationIsExact
<1>2. ASSUME NEW i \in DOMAIN spec.rules,
             NEW duration \in {spec.rules[i].short, spec.rules[i].long}
      PROVE  ParseDuration(duration).ok /\ ParseDuration(duration).value = Length(duration)
  <2>1. duration \in Duration
    BY LoaderAssumption
  <2>2. Length(duration) < Half
    BY DEF Representable
  <2>. QED BY <2>1, <2>2, ParseDurationIsExact
<1>. QED BY <1>1, <1>2 DEF WindowsFit, WindowsAcceptable

----------------------------------------------------------------------------
(* The inductive invariant.                                                *)

\* The pass of a is about what a reports on.
Reading(a) ==
  \/ phase[a] \in {"load", "validate", "ok"}
  \/ phase[a] = "error" /\ schema[a]

\* Of the files nobody has edited since a began, a pass holds what they hold.
PassIsFaithful(a) ==
  Reading(a) =>
    /\ \A file \in todo[a] : file \notin touched[a] => directory[file] # Absent
    /\ \A file \in Files \ (touched[a] \cup todo[a]) :
         /\ directory[file] \in Specs => Entry(file) \in got[a]
         /\ directory[file] = Garbage => failed[a]
    /\ \A entry \in got[a] :
         /\ entry.file \in Files \ todo[a] /\ entry.spec \in Specs
         /\ entry.file \notin touched[a] => entry = Entry(entry.file)
    /\ failed[a] /\ touched[a] = {} => \E file \in Files : directory[file] = Garbage

\* What the first pass has kept.
KeptIsFaithful ==
  phase["server"] \in {"validate", "ok"} =>
    /\ slos # {} /\ schema["server"]
    /\ \A file \in Files \ touched["server"] :
         directory[file] # Absent => directory[file] \in Specs /\ Entry(file) \in slos
    /\ \A entry \in slos :
         /\ entry.file \in Files
         /\ entry.file \notin touched["server"] =>
              entry = Entry(entry.file) /\ directory[entry.file] # Absent

\* A verdict is that of the pass.
VerdictIsOfPass ==
  /\ \A a \in Actors : phase[a] = "ok" => todo[a] = {} /\ NoErrors(a)
  /\ \A a \in Actors : phase[a] = "error" /\ schema[a] =>
       /\ todo[a] = {}
       /\ ~NoErrors(a) \/ (a = "server" /\ got[a] = {})

LoaderTypeOK ==
  /\ directory \in [Files -> Contents \cup {Absent}]
  /\ schema \in [Actors -> BOOLEAN]
  /\ phase \in [Actors -> {"off", "load", "validate", "ok", "error"}]
  /\ phase["cli"] # "load"
  /\ phase["cli"] \in {"validate", "ok"} => schema["cli"]
  /\ todo \in [Actors -> SUBSET Files]
  /\ got \in [Actors -> SUBSET Entries]
  /\ failed \in [Actors -> BOOLEAN]
  /\ touched \in [Actors -> SUBSET Files]
  /\ slos \subseteq Entries

LoaderInv ==
  /\ LoaderTypeOK
  /\ \A a \in Actors : PassIsFaithful(a)
  /\ KeptIsFaithful
  /\ VerdictIsOfPass

LEMMA LoaderInvInit == Init => LoaderInv
<1>. SUFFICES ASSUME Init PROVE LoaderInv
  OBVIOUS
<1>1. LoaderTypeOK
  BY DEF Init, LoaderTypeOK, Actors, Contents
<1>2. \A a \in Actors : PassIsFaithful(a)
  BY DEF Init, PassIsFaithful, Reading
<1>3. KeptIsFaithful /\ VerdictIsOfPass
  BY DEF Init, KeptIsFaithful, VerdictIsOfPass, Actors
<1>. QED BY <1>1, <1>2, <1>3 DEF LoaderInv

\* A pass that begins has read nothing and skipped what is not there.
LEMMA DiscoverIsFaithful ==
  ASSUME LoaderTypeOK, NEW a \in Actors, Discover(a), UNCHANGED directory
  PROVE  /\ PassIsFaithful(a)' /\ todo'[a] \subseteq Files
         /\ todo' \in [Actors -> SUBSET Files] /\ got' \in [Actors -> SUBSET Entries]
         /\ failed' \in [Actors -> BOOLEAN]
<1>1. /\ todo'[a] = {file \in Files : directory[file] # Absent}
      /\ got'[a] = {} /\ failed'[a] = FALSE
      /\ todo' \in [Actors -> SUBSET Files] /\ got' \in [Actors -> SUBSET Entries]
      /\ failed' \in [Actors -> BOOLEAN]
  BY DEF Discover, LoaderTypeOK
<1>2. \A file \in Files \ todo'[a] : directory'[file] \notin Specs /\ directory'[file] # Garbage
  BY <1>1, LoaderAssumption
<1>. QED BY <1>1, <1>2 DEF PassIsFaithful

\* What another goroutine or process does to neither the files nor this pass.
LEMMA PassFrame ==
  ASSUME NEW a \in Actors, PassIsFaithful(a), UNCHANGED directory,
         todo'[a] = todo[a], got'[a] = got[a], failed'[a] = failed[a],
         touched'[a] = touched[a], Reading(a)' => Reading(a)
  PROVE  PassIsFaithful(a)'
BY DEF PassIsFaithful, Entry

LEMMA LoadBeginsKeeps == LoaderInv /\ LoadBegins => LoaderInv'
<1>. SUFFICES ASSUME LoaderInv, LoadBegins PROVE LoaderInv'
  OBVIOUS
<1>. USE DEF LoaderInv
<1>1. /\ Discover("server") /\ UNCHANGED <<directory, schema, slos>>
      /\ phase' = [phase EXCEPT !["server"] = "load"]
      /\ touched' = [touched EXCEPT !["server"] = {}]
  BY DEF LoadBegins, Enters
<1>2. "server" \in Actors /\ "cli" \in Actors /\ "cli" # "server"
  BY DEF Actors
<1>3. LoaderTypeOK'
  BY <1>1, <1>2, DiscoverIsFaithful DEF LoaderTypeOK
<1>4. /\ todo'["cli"] = todo["cli"] /\ got'["cli"] = got["cli"] /\ failed'["cli"] = failed["cli"]
      /\ touched'["cli"] = touched["cli"] /\ phase'["cli"] = phase["cli"]
      /\ phase'["server"] = "load"
  BY <1>1, <1>2 DEF LoaderTypeOK, Discover
<1>5. ASSUME NEW a \in Actors PROVE PassIsFaithful(a)'
  <2>1. CASE a = "server"
    BY <1>1, <2>1, DiscoverIsFaithful
  <2>2. CASE a = "cli"
    BY <1>1, <1>4, <2>2, PassFrame DEF Reading
  <2>. QED BY <2>1, <2>2 DEF Actors
<1>6. KeptIsFaithful'
  BY <1>4 DEF KeptIsFaithful
<1>7. VerdictIsOfPass'
  BY <1>1, <1>4 DEF VerdictIsOfPass, Actors, NoErrors
<1>. QED BY <1>3, <1>5, <1>6, <1>7

LEMMA CLIBeginsKeeps == LoaderInv /\ CLIBegins => LoaderInv'
<1>. SUFFICES ASSUME LoaderInv, CLIBegins PROVE LoaderInv'
  OBVIOUS
<1>. USE DEF LoaderInv
<1>1. UNCHANGED <<directory, schema, slos>> /\ touched' = [touched EXCEPT !["cli"] = {}]
  BY DEF CLIBegins
<1>2. "server" \in Actors /\ "cli" \in Actors /\ "cli" # "server"
  BY DEF Actors
<1>3. \/ /\ schema["cli"] /\ phase' = [phase EXCEPT !["cli"] = "validate"]
         /\ Discover("cli")
      \/ /\ ~schema["cli"] /\ phase' = [phase EXCEPT !["cli"] = "error"]
         /\ UNCHANGED <<todo, got, failed>>
  BY DEF CLIBegins, Enters
<1>4. LoaderTypeOK'
  BY <1>1, <1>2, <1>3, DiscoverIsFaithful DEF LoaderTypeOK
<1>5. /\ todo'["server"] = todo["server"] /\ got'["server"] = got["server"]
      /\ failed'["server"] = failed["server"] /\ touched'["server"] = touched["server"]
      /\ phase'["server"] = phase["server"]
      /\ phase'["cli"] = IF schema["cli"] THEN "validate" ELSE "error"
  BY <1>1, <1>2, <1>3 DEF LoaderTypeOK, Discover
<1>6. ASSUME NEW a \in Actors PROVE PassIsFaithful(a)'
  <2>1. CASE a = "server"
    BY <1>1, <1>5, <2>1, PassFrame DEF Reading
  <2>2. CASE a = "cli" /\ schema["cli"]
    BY <1>1, <1>3, <2>2, DiscoverIsFaithful
  <2>3. CASE a = "cli" /\ ~schema["cli"]
    BY <1>1, <1>5, <2>3 DEF PassIsFaithful, Reading
  <2>. QED BY <2>1, <2>2, <2>3 DEF Actors
<1>7. KeptIsFaithful'
  BY <1>1, <1>2, <1>5 DEF KeptIsFaithful, Entry, LoaderTypeOK
<1>8. VerdictIsOfPass'
  BY <1>1, <1>5 DEF VerdictIsOfPass, Actors, NoErrors
<1>. QED BY <1>4, <1>6, <1>7, <1>8

LEMMA ReadFileKeeps ==
  ASSUME LoaderInv, NEW a \in Actors, ReadFile(a)
  PROVE  LoaderInv'
<1>. USE DEF LoaderInv
<1>1. PICK file \in todo[a] :
        /\ todo' = [todo EXCEPT ![a] = @ \ {file}]
        /\ \/ /\ directory[file] \in Specs /\ failed' = failed
              /\ got' = [got EXCEPT ![a] = @ \cup {Entry(file)}]
           \/ /\ directory[file] \notin Specs /\ got' = got
              /\ failed' = [failed EXCEPT ![a] = TRUE]
  BY DEF ReadFile
<1>2. /\ phase[a] \in {"load", "validate"}
      /\ UNCHANGED <<directory, schema, phase, slos, touched>>
  BY DEF ReadFile
<1>3. file \in Files
  BY DEF LoaderTypeOK
<1>4. Entry(file).file = file /\ Entry(file).spec = directory[file]
  BY DEF Entry
<1>5. LoaderTypeOK'
  <2>1. directory[file] \in Specs => Entry(file) \in Entries
    BY <1>3 DEF Entry, Entries
  <2>2. todo' \in [Actors -> SUBSET Files]
    BY <1>1 DEF LoaderTypeOK
  <2>3. got' \in [Actors -> SUBSET Entries] /\ failed' \in [Actors -> BOOLEAN]
    <3>1. CASE directory[file] \in Specs
      BY <1>1, <2>1, <3>1 DEF LoaderTypeOK
    <3>2. CASE directory[file] \notin Specs
      BY <1>1, <3>2 DEF LoaderTypeOK
    <3>. QED BY <3>1, <3>2
  <2>. QED BY <1>2, <2>2, <2>3 DEF LoaderTypeOK
<1>6. PassIsFaithful(a)'
  <2>. SUFFICES ASSUME Reading(a) PROVE PassIsFaithful(a)'
    BY <1>1, <1>2 DEF PassIsFaithful, Reading
  <2>1. PassIsFaithful(a)
    OBVIOUS
  <2>2. /\ todo'[a] = todo[a] \ {file} /\ failed'[a] \in BOOLEAN
        /\ directory[file] \in Specs =>
             got'[a] = got[a] \cup {Entry(file)} /\ failed'[a] = failed[a]
        /\ directory[file] \notin Specs => got'[a] = got[a] /\ failed'[a] = TRUE
    BY <1>1, <1>2, <1>5 DEF LoaderTypeOK
  <2>3. \A f \in todo'[a] : f \notin touched'[a] => directory'[f] # Absent
    BY <1>1, <1>2, <2>1, <2>2 DEF PassIsFaithful
  <2>4. ASSUME NEW f \in Files \ (touched'[a] \cup todo'[a])
        PROVE  /\ directory'[f] \in Specs => Entry(f)' \in got'[a]
               /\ directory'[f] = Garbage => failed'[a]
    BY <1>1, <1>2, <2>1, <2>2, LoaderAssumption DEF PassIsFaithful, Entry
  <2>5. ASSUME NEW entry \in got'[a]
        PROVE  /\ entry.file \in Files \ todo'[a] /\ entry.spec \in Specs
               /\ entry.file \notin touched'[a] => entry = Entry(entry.file)'
    BY <1>1, <1>2, <1>3, <1>4, <2>1, <2>2 DEF PassIsFaithful, Entry
  <2>6. failed'[a] /\ touched'[a] = {} => \E f \in Files : directory'[f] = Garbage
    <3>1. CASE directory[file] \in Specs
      BY <1>1, <1>2, <2>1, <2>2, <3>1 DEF PassIsFaithful
    <3>2. CASE directory[file] \notin Specs
      BY <1>1, <1>2, <1>3, <2>1, <3>2 DEF PassIsFaithful, LoaderTypeOK, Contents
    <3>. QED BY <3>1, <3>2
  <2>. QED BY <2>3, <2>4, <2>5, <2>6 DEF PassIsFaithful
<1>7. ASSUME NEW b \in Actors, b # a PROVE PassIsFaithful(b)'
  <2>1. todo'[b] = todo[b] /\ got'[b] = got[b] /\ failed'[b] = failed[b]
    BY <1>1, <1>2, <1>7 DEF LoaderTypeOK
  <2>. QED BY <1>1, <1>2, <2>1, PassFrame DEF Reading
<1>8. KeptIsFaithful'
  BY <1>1, <1>2 DEF KeptIsFaithful, Entry
<1>9. VerdictIsOfPass'
  <2>1. ASSUME NEW b \in Actors, phase[b] \in {"ok", "error"}
        PROVE  todo'[b] = todo[b] /\ got'[b] = got[b] /\ failed'[b] = failed[b]
    BY <1>1, <1>2, <2>1 DEF LoaderTypeOK
  <2>. QED BY <1>1, <1>2, <2>1 DEF VerdictIsOfPass, NoErrors
<1>. QED BY <1>5, <1>6, <1>7, <1>8, <1>9

LEMMA LoadEndsKeeps == LoaderInv /\ LoadEnds => LoaderInv'
<1>. SUFFICES ASSUME LoaderInv, LoadEnds PROVE LoaderInv'
  OBVIOUS
<1>. USE DEF LoaderInv
<1>1. /\ phase["server"] = "load" /\ todo["server"] = {}
      /\ UNCHANGED <<directory, schema, touched>>
  BY DEF LoadEnds
<1>2. "server" \in Actors /\ "cli" \in Actors /\ "cli" # "server"
  BY DEF Actors
<1>3. CASE /\ failed["server"] \/ got["server"] = {} \/ ~schema["server"]
           /\ Enters("server", "error") /\ UNCHANGED <<todo, got, failed, slos>>
  <2>1. phase' = [phase EXCEPT !["server"] = "error"] /\ UNCHANGED <<todo, got, failed, slos>>
    BY <1>3 DEF Enters
  <2>2. LoaderTypeOK'
    BY <1>1, <1>2, <2>1 DEF LoaderTypeOK
  <2>3. phase'["server"] = "error" /\ phase'["cli"] = phase["cli"]
    BY <1>2, <2>1 DEF LoaderTypeOK
  <2>4. \A a \in Actors : PassIsFaithful(a)'
    BY <1>1, <2>1, <2>3, PassFrame DEF Reading, Actors
  <2>5. KeptIsFaithful'
    BY <2>3 DEF KeptIsFaithful
  <2>6. VerdictIsOfPass'
    BY <1>1, <1>3, <2>1, <2>3 DEF VerdictIsOfPass, NoErrors, Actors
  <2>. QED BY <2>2, <2>4, <2>5, <2>6
<1>4. CASE /\ ~failed["server"] /\ got["server"] # {} /\ schema["server"]
           /\ slos' = got["server"]
           /\ Enters("server", "validate") /\ Discover("server")
  <2>1. phase' = [phase EXCEPT !["server"] = "validate"]
    BY <1>4 DEF Enters
  <2>2. LoaderTypeOK'
    BY <1>1, <1>2, <1>4, <2>1, DiscoverIsFaithful DEF LoaderTypeOK
  <2>3. /\ todo'["cli"] = todo["cli"] /\ got'["cli"] = got["cli"]
        /\ failed'["cli"] = failed["cli"] /\ phase'["cli"] = phase["cli"]
        /\ phase'["server"] = "validate"
    BY <1>2, <1>4, <2>1 DEF Discover, LoaderTypeOK
  <2>4. ASSUME NEW a \in Actors PROVE PassIsFaithful(a)'
    <3>1. CASE a = "server"
      BY <1>1, <1>4, <3>1, DiscoverIsFaithful
    <3>2. CASE a = "cli"
      BY <1>1, <2>3, <3>2, PassFrame DEF Reading
    <3>. QED BY <3>1, <3>2 DEF Actors
  <2>5. KeptIsFaithful'
    <3>1. PassIsFaithful("server") /\ Reading("server")
      BY <1>1, <1>2 DEF Reading
    <3>2. \A file \in Files \ touched["server"] :
            directory[file] # Absent => directory[file] \in Specs /\ Entry(file) \in got["server"]
      BY <1>1, <1>4, <3>1 DEF PassIsFaithful, LoaderTypeOK, Contents
    <3>3. \A entry \in got["server"] :
            /\ entry.file \in Files
            /\ entry.file \notin touched["server"] =>
                 entry = Entry(entry.file) /\ directory[entry.file] # Absent
      BY <3>1, LoaderAssumption DEF PassIsFaithful, Entry
    <3>. QED BY <1>1, <1>4, <3>2, <3>3 DEF KeptIsFaithful, Entry
  <2>6. VerdictIsOfPass'
    BY <1>1, <2>3 DEF VerdictIsOfPass, NoErrors, Actors
  <2>. QED BY <2>2, <2>4, <2>5, <2>6
<1>. QED BY <1>3, <1>4 DEF LoadEnds

LEMMA ValidateEndsKeeps ==
  ASSUME LoaderInv, NEW a \in Actors, ValidateEnds(a)
  PROVE  LoaderInv'
<1>. USE DEF LoaderInv
<1>1. /\ phase[a] = "validate" /\ todo[a] = {}
      /\ phase' = [phase EXCEPT ![a] = IF NoErrors(a) THEN "ok" ELSE "error"]
      /\ UNCHANGED <<directory, schema, todo, got, failed, slos, touched>>
  BY DEF ValidateEnds, Enters
<1>2. /\ phase'[a] = IF NoErrors(a) THEN "ok" ELSE "error"
      /\ \A b \in Actors : b # a => phase'[b] = phase[b]
  BY <1>1 DEF LoaderTypeOK
<1>3. LoaderTypeOK'
  BY <1>1, <1>2 DEF LoaderTypeOK, Actors
<1>4. \A b \in Actors : PassIsFaithful(b)'
  BY <1>1, <1>2, PassFrame DEF Reading
<1>5. KeptIsFaithful'
  BY <1>1, <1>2 DEF KeptIsFaithful, Entry, Actors
<1>6. \A b \in Actors : NoErrors(b)' <=> NoErrors(b)
  BY <1>1 DEF NoErrors
<1>7. VerdictIsOfPass'
  BY <1>1, <1>2, <1>6 DEF VerdictIsOfPass
<1>. QED BY <1>3, <1>4, <1>5, <1>7

\* An edit makes a file one that nobody answers for.
LEMMA EditKeeps ==
  ASSUME LoaderInv, NEW file \in Files, Edit(file)
  PROVE  LoaderInv'
<1>. USE DEF LoaderInv
<1>1. /\ UNCHANGED <<schema, phase, todo, got, failed, slos>>
      /\ touched' = [a \in Actors |-> touched[a] \cup {file}]
      /\ directory' \in [Files -> Contents \cup {Absent}]
      /\ \A f \in Files : f # file => directory'[f] = directory[f]
  BY DEF Edit, passVars, LoaderTypeOK
<1>2. LoaderTypeOK'
  BY <1>1 DEF LoaderTypeOK
<1>3. \A f \in Files : f # file => Entry(f)' = Entry(f)
  BY <1>1 DEF Entry
<1>4. ASSUME NEW a \in Actors PROVE PassIsFaithful(a)'
  <2>1. touched'[a] = touched[a] \cup {file} /\ touched'[a] # {}
    BY <1>1
  <2>. SUFFICES ASSUME Reading(a) PROVE PassIsFaithful(a)'
    BY <1>1 DEF PassIsFaithful, Reading
  <2>2. \A f \in todo[a] : f \in Files
    BY DEF LoaderTypeOK
  <2>3. \A f \in todo'[a] : f \notin touched'[a] => directory'[f] # Absent
    BY <1>1, <2>1, <2>2 DEF PassIsFaithful
  <2>4. \A f \in Files \ (touched'[a] \cup todo'[a]) :
          /\ directory'[f] \in Specs => Entry(f)' \in got'[a]
          /\ directory'[f] = Garbage => failed'[a]
    BY <1>1, <1>3, <2>1 DEF PassIsFaithful
  <2>5. \A entry \in got'[a] :
          /\ entry.file \in Files \ todo'[a] /\ entry.spec \in Specs
          /\ entry.file \notin touched'[a] => entry = Entry(entry.file)'
    BY <1>1, <1>3, <2>1 DEF PassIsFaithful
  <2>. QED BY <2>1, <2>3, <2>4, <2>5 DEF PassIsFaithful
<1>5. KeptIsFaithful'
  <2>1. touched'["server"] = touched["server"] \cup {file}
    BY <1>1 DEF Actors
  <2>. QED BY <1>1, <1>3, <2>1 DEF KeptIsFaithful
<1>6. VerdictIsOfPass'
  BY <1>1 DEF VerdictIsOfPass, NoErrors
<1>. QED BY <1>2, <1>4, <1>5, <1>6

LEMMA LoaderInvStep == LoaderInv /\ [Next]_vars => LoaderInv'
<1>. SUFFICES ASSUME LoaderInv, [Next]_vars PROVE LoaderInv'
  OBVIOUS
<1>1. CASE UNCHANGED vars
  BY <1>1 DEF vars, passVars, LoaderInv, LoaderTypeOK, PassIsFaithful, Reading, KeptIsFaithful,
       VerdictIsOfPass, NoErrors, Entry
<1>. QED
  BY <1>1, LoadBeginsKeeps, LoadEndsKeeps, CLIBeginsKeeps, ReadFileKeeps, ValidateEndsKeeps,
     EditKeeps DEF Next

\* The inductive invariant of loads and validations, however files are edited under
\* them: a pass holds what it read of the files it has read, and a file nobody has
\* edited since is as it was read (loader.go:24-54, validator.go:29-71).
THEOREM LoaderInvariant == Spec => []LoaderInv
BY LoaderInvInit, LoaderInvStep, PTL DEF Spec

\* Type correctness, for any files, whatever they hold.
THEOREM LoaderIsTyped == Spec => []TypeOK
<1>1. LoaderInv => TypeOK
  BY DEF LoaderInv, LoaderTypeOK, TypeOK, KeptIsFaithful
<1>. QED BY <1>1, LoaderInvariant, PTL

----------------------------------------------------------------------------
(* What follows from it.                                                   *)

\* No errors on a pass that holds the files given: they are acceptable.
LEMMA NoErrorsAccepts ==
  ASSUME LoaderInv, NEW a \in Actors, NoErrors(a), Reading(a), todo[a] = {},
         NEW files \in SUBSET Files, AllRepresentable(files), files \cap touched[a] = {},
         \A file \in files : directory[file] \in Specs
  PROVE  Acceptable(files)
<1>1. \A file \in files : Entry(file) \in got[a]
  BY DEF LoaderInv, PassIsFaithful
<1>2. \A file \in files : Entry(file).file = file /\ Entry(file).spec = directory[file]
  BY DEF Entry
<1>3. \A file \in files : directory[file].conforms /\ WindowsFit(directory[file])
  BY <1>1, <1>2 DEF NoErrors
<1>4. \A file \in files : WindowsAcceptable(directory[file])
  BY <1>3, WindowsFitIsExact DEF AllRepresentable
<1>5. \A e, f \in files : directory[e].id = directory[f].id => e = f
  BY <1>1, <1>2 DEF NoErrors
<1>. QED BY <1>3, <1>4, <1>5 DEF Acceptable, Sound, WindowsAcceptable

\* A file nobody has edited runs as it is, and has been validated with the others
\* (scheduler.go:52-84).
THEOREM EditsTaintOnlyTheirFiles == Spec => []OnlyEditedFilesAreDoubtful
<1>1. ASSUME LoaderInv PROVE OnlyEditedFilesAreDoubtful
  <2>. SUFFICES ASSUME phase["server"] = "ok"
       PROVE  LET sure == Present \ touched["server"]
              IN  /\ {Entry(file) : file \in sure} \subseteq slos
                  /\ \A entry \in slos : entry.file \in sure \cup touched["server"]
                  /\ AllRepresentable(sure) => Acceptable(sure)
    BY DEF OnlyEditedFilesAreDoubtful
  <2>. DEFINE sure == Present \ touched["server"]
  <2>1. \A file \in sure : directory[file] \in Specs /\ Entry(file) \in slos
    BY <1>1 DEF LoaderInv, KeptIsFaithful, Present
  <2>2. \A entry \in slos : entry.file \in sure \cup touched["server"]
    BY <1>1 DEF LoaderInv, KeptIsFaithful, Present
  <2>3. NoErrors("server") /\ todo["server"] = {} /\ Reading("server") /\ "server" \in Actors
    BY <1>1 DEF LoaderInv, VerdictIsOfPass, Reading, Actors
  <2>4. sure \in SUBSET Files /\ sure \cap touched["server"] = {}
    BY DEF Present
  <2>5. AllRepresentable(sure) => Acceptable(sure)
    BY <1>1, <2>1, <2>3, <2>4, NoErrorsAccepts
  <2>. QED BY <2>1, <2>2, <2>5
<1>. QED BY <1>1, LoaderInvariant, PTL

\* A directory nobody has edited since a began is what a's pass holds.
LEMMA UneditedPass ==
  ASSUME LoaderInv, NEW a \in Actors, Reading(a), todo[a] = {}, touched[a] = {}
  PROVE  /\ got[a] = {Entry(file) : file \in {f \in Files : directory[f] \in Specs}}
         /\ failed[a] <=> \E file \in Files : directory[file] = Garbage
<1>1. PassIsFaithful(a)
  BY DEF LoaderInv
<1>2. ASSUME NEW entry \in got[a]
      PROVE  entry.file \in Files /\ directory[entry.file] \in Specs /\ entry = Entry(entry.file)
  BY <1>1 DEF PassIsFaithful, Entry
<1>3. \A file \in Files : directory[file] \in Specs => Entry(file) \in got[a]
  BY <1>1 DEF PassIsFaithful
<1>4. failed[a] \in BOOLEAN
  BY DEF LoaderInv, LoaderTypeOK
<1>5. failed[a] <=> \E file \in Files : directory[file] = Garbage
  BY <1>1, <1>4 DEF PassIsFaithful
<1>. QED BY <1>2, <1>3, <1>5

LEMMA FilesHold ==
  ASSUME LoaderInv, NEW file \in Files
  PROVE  directory[file] \in Specs \/ directory[file] \in {Garbage, Absent}
BY DEF LoaderInv, LoaderTypeOK, Contents

\* An error on a pass over a directory nobody has edited has a reason in it.
LEMMA ErrorsHaveReasons ==
  ASSUME LoaderInv, NEW a \in Actors, Reading(a), todo[a] = {}, touched[a] = {},
         ~NoErrors(a), AllRepresentable(Present)
  PROVE  ~Acceptable(Present)
<1>. SUFFICES ASSUME Acceptable(Present) PROVE NoErrors(a)
  OBVIOUS
<1>1. \A file \in Files : directory[file] # Garbage
  BY LoaderAssumption DEF Acceptable, Sound, Present
<1>2. ~failed[a]
  BY <1>1, UneditedPass
<1>3. ASSUME NEW entry \in got[a]
      PROVE  entry.file \in Present /\ entry = Entry(entry.file)
  BY UneditedPass, LoaderAssumption DEF Entry, Present
<1>4. ASSUME NEW entry \in got[a] PROVE entry.spec.conforms /\ WindowsFit(entry.spec)
  <2>1. entry.spec = directory[entry.file] /\ entry.file \in Present
    BY <1>3 DEF Entry
  <2>2. /\ directory[entry.file] \in Specs /\ directory[entry.file].conforms
        /\ WindowsAcceptable(directory[entry.file])
    BY <2>1 DEF Acceptable, Sound, WindowsAcceptable
  <2>. QED BY <2>1, <2>2, WindowsFitIsExact DEF AllRepresentable
<1>5. ASSUME NEW e \in got[a], NEW f \in got[a], e.spec.id = f.spec.id PROVE e = f
  <2>1. e.spec = directory[e.file] /\ f.spec = directory[f.file]
    BY <1>3 DEF Entry
  <2>2. e.file = f.file
    BY <1>3, <1>5, <2>1 DEF Acceptable, Sound
  <2>. QED BY <1>3, <2>2
<1>. QED BY <1>2, <1>4, <1>5 DEF NoErrors

\* A load nobody disturbs loads acceptable files only, as they are, and none of the
\* valid ones is left out of a load that succeeds; one that fails has a reason in
\* the directory (scheduler.go:46-84, duration.go:8-40, validator.go).
THEOREM SteadyLoadsAreSound == Spec => []SteadyLoadIsSound
<1>1. ASSUME LoaderInv PROVE SteadyLoadIsSound
  <2>. SUFFICES ASSUME touched["server"] = {}, AllRepresentable(Present)
       PROVE  /\ phase["server"] = "ok" =>
                   /\ slos \subseteq {Entry(file) : file \in Present}
                   /\ Acceptable({entry.file : entry \in slos})
                   /\ \A file \in Present : Valid(file) => Entry(file) \in slos
              /\ phase["server"] = "error" =>
                   ~Acceptable(Present) \/ Present = {} \/ ~schema["server"]
    BY DEF SteadyLoadIsSound, Undisturbed
  <2>0. "server" \in Actors /\ Present \in SUBSET Files
    BY DEF Actors, Present
  <2>1. ASSUME phase["server"] = "ok"
        PROVE  /\ slos \subseteq {Entry(file) : file \in Present}
               /\ Acceptable({entry.file : entry \in slos})
               /\ \A file \in Present : Entry(file) \in slos
    <3>1. /\ \A file \in Present : directory[file] \in Specs /\ Entry(file) \in slos
          /\ \A entry \in slos : entry.file \in Present /\ entry = Entry(entry.file)
      BY <1>1, <2>1 DEF LoaderInv, KeptIsFaithful, Present
    <3>2. NoErrors("server") /\ todo["server"] = {} /\ Reading("server")
      BY <1>1, <2>0, <2>1 DEF LoaderInv, VerdictIsOfPass, Reading
    <3>3. Acceptable(Present)
      BY <1>1, <2>0, <3>1, <3>2, NoErrorsAccepts
    <3>4. {entry.file : entry \in slos} \subseteq Present
      BY <3>1
    <3>. QED BY <3>1, <3>3, <3>4 DEF Acceptable
  <2>2. ASSUME phase["server"] = "error", schema["server"], Present # {}
        PROVE  ~Acceptable(Present)
    <3>1. Reading("server") /\ todo["server"] = {}
      BY <1>1, <2>0, <2>2 DEF LoaderInv, VerdictIsOfPass, Reading
    <3>2. CASE ~NoErrors("server")
      BY <1>1, <2>0, <3>1, <3>2, ErrorsHaveReasons
    <3>3. CASE got["server"] = {}
      <4>1. PICK file \in Present : TRUE
        BY <2>2
      <4>2. directory[file] \notin Specs
        BY <1>1, <2>0, <3>1, <3>3, UneditedPass DEF Present
      <4>. QED BY <4>2 DEF Acceptable, Sound
    <3>. QED BY <1>1, <2>0, <2>2, <3>2, <3>3 DEF LoaderInv, VerdictIsOfPass
  <2>. QED BY <2>1, <2>2
<1>. QED BY <1>1, LoaderInvariant, PTL

\* `aegis validate` and the server judge an undisturbed directory alike, wrapped
\* durations included, but for an empty one (cmd/aegis-cli/main.go:66-90).
THEOREM CLIPredictsTheServer == Spec => []CLIPredictsServer
<1>1. ASSUME LoaderInv PROVE CLIPredictsServer
  <2>. SUFFICES ASSUME \A a \in Actors : touched[a] = {} /\ schema[a] /\ phase[a] \in {"ok", "error"}
       PROVE  phase["server"] = "ok" <=> phase["cli"] = "ok" /\ Present # {}
    BY DEF CLIPredictsServer
  <2>0. "server" \in Actors /\ "cli" \in Actors
    BY DEF Actors
  <2>1. \A a \in Actors : Reading(a) /\ todo[a] = {}
    BY <1>1 DEF Reading, LoaderInv, VerdictIsOfPass
  <2>2. /\ got["server"] = {Entry(file) : file \in {f \in Files : directory[f] \in Specs}}
        /\ got["cli"] = got["server"]
        /\ failed["server"] <=> failed["cli"]
        /\ failed["server"] <=> \E file \in Files : directory[file] = Garbage
    BY <1>1, <2>0, <2>1, UneditedPass
  <2>3. NoErrors("server") <=> NoErrors("cli")
    BY <2>2 DEF NoErrors
  <2>4. phase["server"] = "ok" => Present # {} /\ NoErrors("server")
    <3>1. ASSUME phase["server"] = "ok" PROVE Present # {}
      <4>1. PICK entry \in slos : TRUE
        BY <1>1, <3>1 DEF LoaderInv, KeptIsFaithful
      <4>2. touched["server"] = {}
        BY <2>0
      <4>3. entry.file \in Files /\ directory[entry.file] # Absent
        BY <1>1, <3>1, <4>1, <4>2 DEF LoaderInv, KeptIsFaithful
      <4>. QED BY <4>3 DEF Present
    <3>. QED BY <1>1, <2>0, <3>1 DEF LoaderInv, VerdictIsOfPass
  <2>5. phase["server"] = "error" => ~NoErrors("server") \/ Present = {}
    <3>1. got["server"] = {} => Present = {} \/ failed["server"]
      <4>1. ASSUME got["server"] = {}, NEW file \in Present PROVE failed["server"]
        BY <1>1, <2>2, <4>1, FilesHold DEF Present
      <4>. QED BY <4>1
    <3>2. failed["server"] => ~NoErrors("server")
      BY DEF NoErrors
    <3>3. phase["server"] = "error" => ~NoErrors("server") \/ got["server"] = {}
      BY <1>1, <2>0, <2>1 DEF LoaderInv, VerdictIsOfPass
    <3>. QED BY <3>1, <3>2, <3>3
  <2>6. phase["cli"] = "ok" <=> NoErrors("cli")
    BY <1>1, <2>0 DEF LoaderInv, VerdictIsOfPass
  <2>. QED BY <2>0, <2>3, <2>4, <2>5, <2>6
<1>. QED BY <1>1, LoaderInvariant, PTL

=============================================================================
