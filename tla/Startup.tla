------------------------------ MODULE Startup ------------------------------
(***************************************************************************)
(* Servers start on one database (server_init/app_sequence.py, sync.py,    *)
(* mongo/initialize): under a lock in Redis, which expires, each of them   *)
(* migrates the database script by script, creates what is missing and     *)
(* brings the accounts in line with the configuration.  The example data   *)
(* are imported after the lock is released.  A server may be killed        *)
(* anywhere, an initialisation may outlive its lock, and Elasticsearch may *)
(* be out of reach.  A failure inside the initialisation is logged, and    *)
(* the server goes on to serve.                                            *)
(***************************************************************************)
EXTENDS Integers, FiniteSets, SequencesExt

CONSTANTS
  Servers, NoServer,
  Scripts,        \* versions of the migration scripts
  MonitoredFrom,  \* 0.16: servers from there on keep their events in templates of their own
  Accounts,       \* accounts that the configuration may name, besides those it always has
  FixedUsers,     \* those of them that people log in with; the others are the system's own
  MaxStarts       \* bound: how often servers are started

ASSUME StartupAssumption == Scripts \subseteq Nat \ {0} /\ NoServer \notin Servers /\ FixedUsers \subseteq Accounts

VARIABLES
  store,      \* company: documents exist; recorded: versions; accounts: autocreated ones;
              \* users: documents that go with them; templates: of Elasticsearch
  configured, \* the accounts in the configuration
  lock,       \* the holder, as Redis has it
  server,
  starts,
  legacy,     \* history: version of the documents found at first; -1: a new database
  applied,    \* history: the scripts that have changed documents
  imports,    \* history: imports of the example data that were begun
  overrun     \* history: a lock expired while its holder was at work

startupVars == <<store, configured, lock, server, starts, legacy, applied, imports, overrun>>

Down == [pc |-> "down", empty |-> FALSE, skip |-> FALSE, todo |-> {}, left |-> {}, unnamed |-> {}, failed |-> FALSE]
AtWork(s) == server[s].pc \in {"probe", "elastic", "plan", "migrate", "record", "accounts", "fixed", "release"}

\* check_mongo_empty
MongoEmpty == ~store.company /\ store.accounts = {} /\ store.recorded = {}

\* get_last_server_version
LastServerVersion == IF store.recorded = {} THEN 0 ELSE Max(store.recorded)

\* distributed_lock
StartServer(s) ==
  /\ server[s].pc = "down" /\ starts < MaxStarts
  /\ server' = [server EXCEPT ![s].pc = "wait"] /\ starts' = starts + 1
  /\ UNCHANGED <<store, configured, lock, legacy, applied, imports, overrun>>
Acquire(s) ==
  /\ server[s].pc = "wait" /\ lock = NoServer
  /\ lock' = s /\ server' = [server EXCEPT ![s].pc = "probe"]
  /\ UNCHANGED <<store, configured, starts, legacy, applied, imports, overrun>>
LockExpires ==
  /\ lock # NoServer /\ lock' = NoServer
  /\ overrun' = (overrun \/ AtWork(lock))
  /\ UNCHANGED <<store, configured, server, starts, legacy, applied, imports>>

\* _init_dbs: without Elasticsearch a server stops, unless the database is of a version
\* before 0.16, whose events were not migrated; such a server initialises nothing.
Probe(s) ==
  /\ server[s].pc = "probe"
  /\ \E reachable \in BOOLEAN :
       LET missed == ~MongoEmpty /\ (~reachable \/ ~store.templates) /\ LastServerVersion < MonitoredFrom
       IN  IF ~reachable /\ ~missed THEN lock' = NoServer /\ server' = [server EXCEPT ![s] = Down]
           ELSE IF missed THEN lock' = NoServer /\ server' = [server EXCEPT ![s].pc = "limited"]
           ELSE server' = [server EXCEPT ![s].pc = "elastic", ![s].empty = MongoEmpty] /\ UNCHANGED lock
  /\ UNCHANGED <<store, configured, starts, legacy, applied, imports, overrun>>

\* init_es_data
InitElastic(s) ==
  /\ server[s].pc = "elastic"
  /\ store' = [store EXCEPT !.templates = TRUE] /\ server' = [server EXCEPT ![s].pc = "plan"]
  /\ UNCHANGED <<configured, lock, starts, legacy, applied, imports, overrun>>

\* _apply_migrations: the scripts after the last version, in the order of their versions; an
\* empty database needs none of them, but their versions are recorded.
Upcoming(s) == Min(server[s].todo)
PlanMigrations(s) ==
  /\ server[s].pc = "plan"
  /\ server' = [server EXCEPT ![s].pc = "migrate", ![s].skip = MongoEmpty,
                              ![s].todo = {v \in Scripts : v > LastServerVersion}]
  /\ UNCHANGED <<store, configured, lock, starts, legacy, applied, imports, overrun>>
Migrate(s) ==
  /\ server[s].pc = "migrate" /\ server[s].todo # {}
  /\ applied' = IF server[s].skip THEN applied ELSE Append(applied, Upcoming(s))
  /\ server' = [server EXCEPT ![s].pc = "record"]
  /\ UNCHANGED <<store, configured, lock, starts, legacy, imports, overrun>>
RecordVersion(s) ==
  /\ server[s].pc = "record"
  /\ store' = [store EXCEPT !.recorded = @ \cup {Upcoming(s)}]
  /\ server' = [server EXCEPT ![s].pc = "migrate", ![s].todo = @ \ {Upcoming(s)}]
  /\ UNCHANGED <<configured, lock, starts, legacy, applied, imports, overrun>>
\* A script raises; init_mongo_data catches what stops the migration.
MigrationFails(s) ==
  /\ server[s].pc = "migrate" /\ server[s].todo # {} /\ ~server[s].skip
  /\ server' = [server EXCEPT ![s].pc = "release", ![s].failed = TRUE]
  /\ UNCHANGED <<store, configured, lock, starts, legacy, applied, imports, overrun>>

\* init_mongo_data: uuid, company and queue if they are missing; then the system's accounts.
EnsureDefaults(s) ==
  /\ server[s].pc = "migrate" /\ server[s].todo = {}
  /\ store' = [store EXCEPT !.company = TRUE]
  /\ server' = [server EXCEPT ![s].pc = "accounts", ![s].left = configured \ FixedUsers]
  /\ UNCHANGED <<configured, lock, starts, legacy, applied, imports, overrun>>

\* _ensure_auth_user, and the user that goes with the account
EnsureAccount(s, a) ==
  /\ server[s].pc \in {"accounts", "fixed"} /\ a \in server[s].left /\ server[s].unnamed = {}
  /\ store' = [store EXCEPT !.accounts = @ \cup {a}]
  /\ server' = [server EXCEPT ![s].left = @ \ {a}, ![s].unnamed = {a}]
  /\ UNCHANGED <<configured, lock, starts, legacy, applied, imports, overrun>>
EnsureUser(s) ==
  /\ server[s].unnamed # {}
  /\ store' = [store EXCEPT !.users = @ \cup server[s].unnamed]
  /\ server' = [server EXCEPT ![s].unnamed = {}]
  /\ UNCHANGED <<configured, lock, starts, legacy, applied, imports, overrun>>

\* Mutant of Superfluous: only accounts of the configuration are looked at.
OnlyConfigured == store.accounts \cap configured
Superfluous == store.accounts \ configured

\* The accounts that are not in the configuration go before the fixed users come.
DeleteMissingAccounts(s) ==
  /\ server[s].pc = "accounts" /\ server[s].left = {} /\ server[s].unnamed = {}
  /\ store' = [store EXCEPT !.accounts = @ \ Superfluous]
  /\ server' = [server EXCEPT ![s].pc = "fixed", ![s].left = configured \cap FixedUsers]
  /\ UNCHANGED <<configured, lock, starts, legacy, applied, imports, overrun>>
InitDone(s) ==
  /\ server[s].pc = "fixed" /\ server[s].left = {} /\ server[s].unnamed = {}
  /\ server' = [server EXCEPT ![s].pc = "release"]
  /\ UNCHANGED <<store, configured, lock, starts, legacy, applied, imports, overrun>>

\* The lock is released, whoever holds it by now.
Release(s) ==
  /\ server[s].pc = "release" /\ lock' = NoServer
  /\ server' = [server EXCEPT ![s].pc = IF server[s].empty THEN "populate" ELSE "serve"]
  /\ UNCHANGED <<store, configured, starts, legacy, applied, imports, overrun>>
PrePopulateData(s) ==
  /\ server[s].pc = "populate"
  /\ imports' = imports + 1 /\ server' = [server EXCEPT ![s].pc = "serve"]
  /\ UNCHANGED <<store, configured, lock, starts, legacy, applied, overrun>>

\* A server is stopped or killed; its lock stays until it expires.
Stop(s) ==
  /\ server[s].pc # "down" /\ server' = [server EXCEPT ![s] = Down]
  /\ UNCHANGED <<store, configured, lock, starts, legacy, applied, imports, overrun>>
\* The configuration changes while no server runs.
Configure ==
  /\ \A s \in Servers : server[s].pc = "down"
  /\ configured' \in SUBSET Accounts
  /\ UNCHANGED <<store, lock, server, starts, legacy, applied, imports, overrun>>

StartupNext ==
  \/ LockExpires \/ Configure
  \/ \E s \in Servers :
       \/ StartServer(s) \/ Acquire(s) \/ Probe(s) \/ InitElastic(s) \/ PlanMigrations(s) \/ Migrate(s)
       \/ RecordVersion(s) \/ MigrationFails(s) \/ EnsureDefaults(s) \/ DeleteMissingAccounts(s)
       \/ Release(s) \/ PrePopulateData(s) \/ Stop(s)
       \/ EnsureUser(s) \/ InitDone(s) \/ \E a \in Accounts : EnsureAccount(s, a)

\* A new database, or one that servers of some earlier version have left.
StartupInit ==
  /\ legacy \in Scripts \cup {0, -1}
  /\ store = [company |-> legacy >= 0, recorded |-> Scripts \cap {legacy}, accounts |-> {},
              users |-> {}, templates |-> legacy >= MonitoredFrom]
  /\ configured \in SUBSET Accounts
  /\ lock = NoServer /\ server = [s \in Servers |-> Down] /\ starts = 0
  /\ applied = <<>> /\ imports = 0 /\ overrun = FALSE

StartupTypeOK ==
  /\ store.recorded \subseteq Scripts /\ store.accounts \cup store.users \subseteq Accounts
  /\ lock \in Servers \cup {NoServer} /\ starts \in 0..MaxStarts
  /\ \A s \in Servers : server[s].todo \subseteq Scripts /\ server[s].left \subseteq Accounts

\* However often servers are killed while they start, and even when the lock expires in the
\* hands of one at work: what a version is recorded for has been applied to the documents
\* found, and a server that serves after an initialisation without failures has a database
\* with all the migrations, each applied for the first time after those before it, and the
\* accounts of the configuration with their users.  As long as no lock expires like that, no
\* migration is repeated after a later one, and the example data are imported once at most,
\* into a new database.
ServingMeansInitialized ==
  LET done == ToSet(applied)
      First(v) == Min({i \in DOMAIN applied : applied[i] = v})
  IN  /\ \A s \in Servers : server[s].pc \in {"populate", "serve"} /\ ~server[s].failed =>
           /\ store.accounts = configured /\ configured \subseteq store.users
           /\ legacy >= 0 => {v \in Scripts : v > legacy} \subseteq done
      /\ legacy >= 0 => /\ {v \in store.recorded : v > legacy} \subseteq done
                        /\ \A v, w \in done : v < w => First(v) < First(w)
      /\ ~overrun => /\ \A i, j \in DOMAIN applied : i < j => applied[i] <= applied[j]
                     /\ imports <= 1 /\ (legacy >= 0 => imports = 0)
=============================================================================
