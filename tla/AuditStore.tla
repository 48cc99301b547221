----------------------------- MODULE AuditStore -----------------------------
(***************************************************************************)
(* sqlite.Store: the three tables of the audit database, which outlive the *)
(* process, and the handle the process holds on them.                      *)
(*                                                                         *)
(* A row is what an evaluation leaves behind: the SLO, the instant the     *)
(* evaluation took as its "now" and the decision.  The same triple is what *)
(* the state cache holds, so that what was served and what was recorded    *)
(* can be compared.  evaluations is kept as a set: the AUTOINCREMENT id is *)
(* left out, and with it the order of insertion.                           *)
(*                                                                         *)
(* Every operation returns an error the callers log and ignore: a write    *)
(* that fails (disk full, database locked, a burn rate json.Marshal        *)
(* rejects) changes nothing.  The actions are conjoined by the scheduler,  *)
(* which names what its own variables do.                                  *)
(***************************************************************************)
EXTENDS GatePolicy

CONSTANTS
  SLOs,           \* the SLO ids that may be defined
  NoState,        \* absence of a row or of a cache entry
  HasAudit,       \* a database path is configured
  StorageFaults,  \* writes may fail although the database is open
  MaxTime         \* bound: the last instant of the clock

Instants == 0 .. MaxTime

Row == [slo : SLOs, at : Instants, decision : Decisions]

ASSUME StoreAssumption ==
  /\ MaxTime \in Nat
  /\ NoState \notin Row
  /\ HasAudit \in BOOLEAN
  /\ StorageFaults \in BOOLEAN

VARIABLES
  defs,          \* slo_definitions: the ids with a row
  evaluations,   \* evaluations: the rows inserted
  latest,        \* latest_state: the row of each SLO, or NoState
  dbOpen         \* the *sql.DB is open

storeVars == <<defs, evaluations, latest, dbOpen>>

StoreTypeOK ==
  /\ defs \subseteq SLOs
  /\ evaluations \subseteq Row
  /\ latest \in [SLOs -> Row \cup {NoState}]
  /\ dbOpen \in BOOLEAN

\* A new database file.
StoreInit ==
  /\ defs = {}
  /\ evaluations = {}
  /\ latest = [s \in SLOs |-> NoState]
  /\ dbOpen = FALSE

\* NewStore opens the file and creates the tables that do not exist yet.
NewStore == dbOpen' = HasAudit

\* One StoreSLODefinition per loaded SLO: an upsert each; an error is logged
\* and the next one tried, so any of the definitions may be missing.
StoreDefinitions(files) ==
  \E stored \in SUBSET files :
    /\ ~HasAudit => stored = {}
    /\ HasAudit /\ ~StorageFaults => stored = files
    /\ defs' = defs \cup stored

\* A write on behalf of row.slo reads its definition first.
Writable(row) == dbOpen /\ row.slo \in defs
WriteFails(row) == StorageFaults \/ ~Writable(row)

\* INSERT INTO evaluations.
StoreEvaluation(row) ==
  /\ \/ Writable(row) /\ evaluations' = evaluations \cup {row}
     \/ WriteFails(row) /\ UNCHANGED evaluations
  /\ UNCHANGED <<defs, latest, dbOpen>>

\* Fault: ON CONFLICT(slo_id) DO NOTHING.
KeepLatestState(row) ==
  /\ \/ /\ Writable(row) /\ latest[row.slo] = NoState
        /\ latest' = [latest EXCEPT ![row.slo] = row]
     \/ (WriteFails(row) \/ latest[row.slo] # NoState) /\ UNCHANGED latest
  /\ UNCHANGED <<defs, evaluations, dbOpen>>

\* INSERT ... ON CONFLICT(slo_id) DO UPDATE: whatever row was there is replaced.
UpdateLatestState(row) ==
  /\ \/ Writable(row) /\ latest' = [latest EXCEPT ![row.slo] = row]
     \/ WriteFails(row) /\ UNCHANGED latest
  /\ UNCHANGED <<defs, evaluations, dbOpen>>

Close == dbOpen' = FALSE /\ UNCHANGED <<defs, evaluations, latest>>

=============================================================================
