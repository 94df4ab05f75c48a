----------------------------- MODULE TestSession -----------------------------
(***************************************************************************)
(* One pytest process: the session fixtures settings and bolt_pool of       *)
(* tests/conftest.py.  The settings come from config/default.toml, a file   *)
(* that overrides it and the environment (config.py); the pool makes a      *)
(* client for each server, which patches the driver's check of the server's *)
(* agent (agent_patch.py), connects them one by one and closes them when    *)
(* the tests are over (bolt_pool.py, bolt_client.py).                       *)
(***************************************************************************)
EXTENDS Integers, Sequences, TLC

CONSTANTS
  Texts,       \* strings
  Paths,       \* paths of keys, as sequences: <<"server", "mode">>
  Kind,        \* of the path of each setting: the type it is converted to
  Sections,    \* the paths that are read as tables
  Builtin,     \* of each setting: the default in _build_settings
  DefaultFile, \* config/default.toml: values by path
  Files,       \* the files that may override it, likewise
  Environments,\* what GDM_TCK_ variables may be set to: texts by path
  Letters,     \* of a text: the list of its characters
  Native,      \* agents the driver accepts by itself
  Registered,  \* BACKEND_AGENT_PREFIXES: of some backends, the agents they add
  Agent,       \* of each address a server may listen at: the agent it reports
  Meant,       \* <<type, text>> to value: what a variable's text stands for
  Missing,     \* stands for a file that does not exist
  None

Settings == DOMAIN Kind
Mode == <<"server", "mode">>
Backend == <<"server", "backend">>
BoltUri == <<"server", "bolt_uri">>
BoltUris == <<"server", "bolt_uris">>
Timeouts == {<<"server", "timeouts", "connect_secs">>, <<"server", "timeouts", "query_secs">>}
ConfigVariable == <<"config">>  \* GDM_TCK_CONFIG, which names the file
Above(p, q) == Len(p) < Len(q) /\ \A i \in 1..Len(p) : q[i] = p[i]

\* A value is <<its type, itself>>; a text of the environment says which
\* number and which items it reads as.
Values == ({"str"} \X Texts) \cup ({"bool"} \X BOOLEAN) \cup ({"int", "float"} \X Int)
          \cup ({"list"} \X Seq(Texts))
TextType(t) ==
  /\ t.raw \in Texts /\ t.items \in Seq(Texts)
  /\ t.number # None => t.number \in {"int", "float"} \X Int

\* Files and variables that put a table where a value belongs are left out.
ASSUME SessionAssumption ==
  /\ Paths \subseteq Seq(Texts) /\ Settings \cup Sections \subseteq Paths
  /\ {Mode, Backend, BoltUri, BoltUris} \cup Timeouts \subseteq Settings
  /\ Kind[BoltUris] = "list" /\ None \notin Files \cup {Missing}
  /\ \A p \in Paths, s \in Settings : ~Above(s, p) /\ (Above(p, s) => p \in Sections)
  /\ \A f \in Files \cup {DefaultFile} :
       DOMAIN f \subseteq Paths /\ \A p, q \in DOMAIN f : f[p] \in Values /\ ~Above(p, q)
  /\ \A s \in Settings : Builtin[s] \in Values
  /\ \A e \in Environments : DOMAIN e \subseteq Paths /\ \A p \in DOMAIN e : TextType(e[p])
  /\ Letters \in [Texts -> Seq(Texts)]

VARIABLES
  launch,   \* the file and the environment the process is started with
  phase, failure,
  config,   \* the leaves of the merged tables: values by path
  pending,  \* the variables that are still to be applied
  settings, \* None until they are built
  patched,  \* the agents the patched check accepts besides the native ones
  clients,  \* the addresses of the pool's clients, in order
  driver,   \* of each client
  pos,      \* the client that connect_all or close_all has reached
  failed_at \* history: where connect_all or close_all stopped, or 0
vars == <<launch, phase, failure, config, pending, settings, patched, clients, driver, pos, failed_at>>

Init ==
  /\ launch \in [default : BOOLEAN, file : Files \cup {None, Missing}, env : Environments]
  /\ launch.file # None <=> ConfigVariable \in DOMAIN launch.env
  /\ phase = "default" /\ failure = None
  /\ config = [p \in {} |-> None] /\ pending = DOMAIN launch.env
  /\ settings = None /\ patched = {}
  /\ clients = <<>> /\ driver = <<>> /\ pos = 1 /\ failed_at = 0

-----------------------------------------------------------------------------
(* load_settings. *)

Fail(error) == failure' = error /\ phase' = "over"

\* A mutation: a table of the file replaces the whole table.
ShallowMerge(base, override) ==
  [p \in DOMAIN override \cup {q \in DOMAIN base : \A r \in DOMAIN override : q[1] # r[1]} |->
     IF p \in DOMAIN override THEN override[p] ELSE base[p]]
DeepMerge(base, override) ==
  LET kept == {q \in DOMAIN base : \A r \in DOMAIN override : ~Above(q, r) /\ ~Above(r, q)}
  IN [p \in DOMAIN override \cup kept |-> IF p \in DOMAIN override THEN override[p] ELSE base[p]]

LoadDefault ==
  /\ phase = "default"
  /\ IF launch.default
     THEN config' = DefaultFile /\ phase' = "file" /\ UNCHANGED failure
     ELSE Fail("ConfigurationError") /\ UNCHANGED config
  /\ UNCHANGED <<launch, pending, settings, patched, clients, driver, pos, failed_at>>

LoadOverride ==
  /\ phase = "file"
  /\ IF launch.file = Missing
     THEN Fail("ConfigurationError") /\ UNCHANGED config
     ELSE /\ config' = IF launch.file = None THEN config ELSE DeepMerge(config, launch.file)
          /\ phase' = "env" /\ UNCHANGED failure
  /\ UNCHANGED <<launch, pending, settings, patched, clients, driver, pos, failed_at>>

CastEnvValue(text) ==
  IF text.lower \in {"true", "1", "yes", "on"} THEN <<"bool", TRUE>>
  ELSE IF text.lower \in {"false", "0", "no", "off"} THEN <<"bool", FALSE>>
  ELSE IF text.number # None THEN text.number
  ELSE IF Len(text.items) > 1 THEN <<"list", text.items>>
  ELSE <<"str", text.raw>>

\* A mutation: a key is set beside the keys below it.
SetFlat(c, p, v) == (p :> v) @@ c
SetNested(c, p, v) ==
  [q \in {p} \cup {r \in DOMAIN c : ~Above(p, r)} |-> IF q = p THEN v ELSE c[q]]

\* A key on the way holds a value that is not a table: TypeError, or
\* AttributeError where more than one key is left.
Blocked(p) == \E q \in DOMAIN config : Above(q, p)
ApplyVariable(p) ==
  /\ phase = "env" /\ p \in pending
  /\ pending' = pending \ {p}
  /\ IF Blocked(p)
     THEN Fail("Error") /\ UNCHANGED config
     ELSE /\ config' = SetNested(config, p, CastEnvValue(launch.env[p]))
          /\ UNCHANGED <<phase, failure>>
  /\ UNCHANGED <<launch, settings, patched, clients, driver, pos, failed_at>>

Truthy(v) == CASE v[1] = "bool" -> v[2]
               [] v[1] \in {"int", "float"} -> v[2] # 0
               [] v[1] = "str" -> v[2] # ""
               [] OTHER -> v[2] # <<>>
Number(v) == IF v[1] = "bool" THEN IF v[2] THEN 1 ELSE 0 ELSE v[2]
Convertible(kind, v) ==
  CASE kind \in {"int", "float"} -> v[1] \in {"bool", "int", "float"}
    [] kind = "list" -> v[1] \in {"list", "str"}
    [] OTHER -> TRUE
Convert(kind, v) ==
  CASE kind = "str" -> IF v[1] = "str" THEN v[2] ELSE ToString(v[2])
    [] kind = "bool" -> Truthy(v)
    [] kind = "list" -> IF v[1] = "list" THEN v[2] ELSE Letters[v[2]]
    [] OTHER -> Number(v)

Read(s) == IF s \in DOMAIN config THEN config[s] ELSE Builtin[s]
Buildable ==
  /\ Sections \cap DOMAIN config = {}
  /\ \A s \in Settings : Convertible(Kind[s], Read(s))
Built == [s \in Settings |-> Convert(Kind[s], Read(s))]
Valid(b) ==
  /\ b[BoltUri] # ""
  /\ b[Mode] \in {"standalone", "distributed"}
  /\ b[Mode] = "distributed" => b[BoltUris] # <<>>
  /\ \A s \in Timeouts : b[s] > 0

BuildSettings ==
  /\ phase = "env" /\ pending = {}
  /\ IF ~Buildable THEN Fail("Error") /\ UNCHANGED settings
     ELSE IF ~Valid(Built) THEN Fail("ConfigurationError") /\ UNCHANGED settings
     ELSE settings' = Built /\ phase' = "pool" /\ UNCHANGED failure
  /\ UNCHANGED <<launch, config, pending, patched, clients, driver, pos, failed_at>>

-----------------------------------------------------------------------------
(* The pool.  A driver is None, open, closed, or dropped: open, but its     *)
(* client has forgotten it.                                                 *)

\* A mutation: every backend's agents are let through.
AllPrefixes(backend) == UNION {Registered[b] : b \in DOMAIN Registered}
Prefixes(backend) == IF backend \in DOMAIN Registered THEN Registered[backend] ELSE {}
ApplyAgentPatch(backend) ==
  patched' = IF patched = {} THEN Prefixes(backend) ELSE patched

Uris(b) == IF b[Mode] = "standalone" THEN <<b[BoltUri]>> ELSE b[BoltUris]

CreatePool ==
  /\ phase = "pool"
  /\ clients' = Uris(settings)
  /\ driver' = [i \in 1..Len(Uris(settings)) |-> "none"]
  /\ ApplyAgentPatch(settings[Backend])
  /\ phase' = "connect"
  /\ UNCHANGED <<launch, failure, config, pending, settings, pos, failed_at>>

Accepts(agent) == agent \in Native \cup patched

\* A driver can be made for an address only; a server may be out of reach.
Connect ==
  /\ phase = "connect" /\ pos <= Len(clients)
  /\ clients[pos] \in DOMAIN Agent /\ Accepts(Agent[clients[pos]])
  /\ driver' = [driver EXCEPT ![pos] = "open"]
  /\ pos' = pos + 1
  /\ UNCHANGED <<launch, phase, failure, config, pending, settings, patched, clients, failed_at>>

\* A mutation: a node that fails is skipped, as the drop loops skip an object.
SkipsNode == pos' = pos + 1 /\ UNCHANGED <<phase, failure, failed_at>>
StopsConnecting == Fail("ConnectionError") /\ failed_at' = pos /\ UNCHANGED pos
ConnectFails ==
  /\ phase = "connect" /\ pos <= Len(clients)
  /\ driver' = IF clients[pos] \in DOMAIN Agent THEN [driver EXCEPT ![pos] = "dropped"] ELSE driver
  /\ StopsConnecting
  /\ UNCHANGED <<launch, config, pending, settings, patched, clients>>

Yield ==
  /\ phase = "connect" /\ pos > Len(clients)
  /\ phase' = "run"
  /\ UNCHANGED <<launch, failure, config, pending, settings, patched, clients, driver, pos, failed_at>>

\* A mutation: the loop starts after the first client.
SecondClient == 2
FirstClient == 1
EndTests ==
  /\ phase = "run"
  /\ phase' = "close" /\ pos' = FirstClient
  /\ UNCHANGED <<launch, failure, config, pending, settings, patched, clients, driver, failed_at>>

Close ==
  /\ phase = "close" /\ pos <= Len(clients)
  /\ driver' = [driver EXCEPT ![pos] = "closed"]
  /\ pos' = pos + 1
  /\ UNCHANGED <<launch, phase, failure, config, pending, settings, patched, clients, failed_at>>

CloseRaises ==
  /\ phase = "close" /\ pos <= Len(clients)
  /\ Fail("DriverError") /\ failed_at' = pos
  /\ UNCHANGED <<launch, config, pending, settings, patched, clients, driver, pos>>

EndSession ==
  /\ phase = "close" /\ pos > Len(clients)
  /\ phase' = "over"
  /\ UNCHANGED <<launch, failure, config, pending, settings, patched, clients, driver, pos, failed_at>>

Next ==
  \/ LoadDefault \/ LoadOverride \/ (\E p \in Paths : ApplyVariable(p)) \/ BuildSettings
  \/ CreatePool \/ Connect \/ ConnectFails \/ Yield
  \/ EndTests \/ Close \/ CloseRaises \/ EndSession
Spec == Init /\ [][Next]_vars

-----------------------------------------------------------------------------
TypeOK ==
  /\ phase \in {"default", "file", "env", "pool", "connect", "run", "close", "over"}
  /\ failure \in {None, "ConfigurationError", "Error", "ConnectionError", "DriverError"}
  /\ DOMAIN config \subseteq Paths /\ \A p, q \in DOMAIN config : ~Above(p, q)
  /\ pending \subseteq DOMAIN launch.env
  /\ settings # None => DOMAIN settings = Settings
  /\ DOMAIN driver = 1..Len(clients)
  /\ \A i \in DOMAIN driver : driver[i] \in {"none", "open", "dropped", "closed"}
  /\ pos \in 1..(Len(clients) + 1)
  /\ failed_at \in 0..Len(clients)

\* The value of a setting that was loaded is what its variable stands for;
\* without one that of the file, else that of default.toml, else the one
\* written in the code: whatever else is set, and in whatever order the
\* environment lists its variables.
SettingsFollowPriority ==
  settings # None =>
    \A s \in Settings :
      IF s \in DOMAIN launch.env
      THEN LET text == <<Kind[s], launch.env[s]>>
           IN text \in DOMAIN Meant => settings[s] = Meant[text]
      ELSE settings[s] = Convert(Kind[s],
             IF launch.file # None /\ s \in DOMAIN launch.file THEN launch.file[s]
             ELSE IF s \in DOMAIN DefaultFile THEN DefaultFile[s] ELSE Builtin[s])

\* What that asks of the casts: the texts in Meant are read as what they
\* stand for.
MeantSound == \A x \in DOMAIN Meant : Convert(x[1], CastEnvValue(x[2])) = Meant[x]

\* When the session is over, a driver is left open only where connect_all
\* failed, at or before the node that failed, or where close_all did, at or
\* after the client whose close raised; and none is forgotten but the one
\* whose connection failed.
OpenDriversAccountedFor ==
  phase = "over" =>
    \A i \in DOMAIN driver :
      /\ driver[i] = "open" => \/ failure = "ConnectionError" /\ i < failed_at
                               \/ failure = "DriverError" /\ i >= failed_at
      /\ driver[i] = "dropped" => failure = "ConnectionError" /\ i = failed_at

\* Tests run only when every server of the configuration is connected, and
\* each is a Neo4j or of the backend that was configured.
RunsOnItsBackend ==
  phase = "run" =>
    /\ clients = Uris(settings) /\ clients # <<>>
    /\ \A i \in DOMAIN clients :
         /\ driver[i] = "open"
         /\ \/ Agent[clients[i]] \in Native
            \/ /\ settings[Backend] \in DOMAIN Registered
               /\ Agent[clients[i]] \in Registered[settings[Backend]]
=============================================================================
