-------------------------- MODULE TestSessionProofs --------------------------
(***************************************************************************)
(* The session's properties for any settings, files, environments and       *)
(* number of servers.  The settings: while the environment is applied, a    *)
(* setting has the value of the highest layer that gave one so far, unless  *)
(* a value was put where a table above it belongs, which the end of         *)
(* load_settings reports.  The pool: where the two loops are tells which    *)
(* drivers are open.                                                        *)
(***************************************************************************)
EXTENDS TestSession, SequenceTheorems, TLAPS

-----------------------------------------------------------------------------
(* Paths and layers. *)

LEMMA AboveTransitive ==
  ASSUME NEW p \in Paths, NEW q \in Paths, NEW r \in Paths, Above(p, q), Above(q, r)
  PROVE  Above(p, r)
<1>1. Len(p) \in Nat /\ Len(q) \in Nat /\ Len(r) \in Nat
  BY SessionAssumption, LenProperties
<1>. QED
  BY <1>1 DEF Above

LEMMA AboveIrreflexive ==
  ASSUME NEW p \in Paths PROVE ~Above(p, p)
<1>1. Len(p) \in Nat
  BY SessionAssumption, LenProperties
<1>. QED
  BY <1>1 DEF Above

\* A leaf above a setting hides it; one that is there is a section.
Hidden(c, s) == \E q \in DOMAIN c : Above(q, s)

\* The leaves of a merge, and that they are a tree where those merged are.
Tree(c) == \A p, q \in DOMAIN c : ~Above(p, q)

LEMMA MergedTree ==
  ASSUME NEW base, NEW over, Tree(base), Tree(over)
  PROVE  Tree(DeepMerge(base, over))
BY DEF Tree, DeepMerge

LEMMA MergedValue ==
  ASSUME NEW base, NEW over, DOMAIN over \subseteq Paths, DOMAIN base \subseteq Paths,
         NEW s \in Settings
  PROVE  LET c == DeepMerge(base, over) IN
         \/ Hidden(c, s)
         \/ s \in DOMAIN over /\ s \in DOMAIN c /\ c[s] = over[s]
         \/ s \notin DOMAIN over /\ s \in DOMAIN base /\ s \in DOMAIN c /\ c[s] = base[s]
         \/ s \notin DOMAIN over /\ s \notin DOMAIN base /\ s \notin DOMAIN c
<1> DEFINE c == DeepMerge(base, over)
<1>1. \A r \in DOMAIN over : ~Above(s, r)
  BY SessionAssumption
<1>2. CASE \E r \in DOMAIN over : Above(r, s)
  BY <1>2 DEF Hidden, DeepMerge
<1>3. CASE \A r \in DOMAIN over : ~Above(r, s)
  BY <1>1, <1>3 DEF DeepMerge
<1>. QED
  BY <1>2, <1>3

LEMMA MergedTyped ==
  ASSUME NEW base, NEW over, DOMAIN base \subseteq Paths, DOMAIN over \subseteq Paths,
         \A p \in DOMAIN base : base[p] \in Values, \A p \in DOMAIN over : over[p] \in Values
  PROVE  LET c == DeepMerge(base, over) IN
         DOMAIN c \subseteq Paths /\ \A p \in DOMAIN c : c[p] \in Values
BY DEF DeepMerge

\* A value that SetNested puts stays under no other leaf.
LEMMA SetTree ==
  ASSUME NEW c, DOMAIN c \subseteq Paths, Tree(c), NEW p \in Paths, NEW v, ~Hidden(c, p)
  PROVE  Tree(SetNested(c, p, v))
BY AboveIrreflexive DEF Tree, SetNested, Hidden

LEMMA SetKeepsHidden ==
  ASSUME NEW c, DOMAIN c \subseteq Paths, NEW p \in Paths, NEW v, NEW s \in Settings, Hidden(c, s)
  PROVE  Hidden(SetNested(c, p, v), s)
<1>1. PICK q \in DOMAIN c : Above(q, s)
  BY DEF Hidden
<1>2. s \in Paths /\ q \in Paths
  BY SessionAssumption
<1>3. CASE Above(p, q)
  <2>1. Above(p, s)
    BY <1>1, <1>2, <1>3, AboveTransitive
  <2>. QED
    BY <2>1 DEF Hidden, SetNested
<1>4. CASE ~Above(p, q)
  BY <1>1, <1>4 DEF Hidden, SetNested
<1>. QED
  BY <1>3, <1>4

LEMMA CastTyped ==
  ASSUME NEW text, TextType(text) PROVE CastEnvValue(text) \in Values
BY DEF TextType, CastEnvValue, Values

-----------------------------------------------------------------------------
(* The invariant of load_settings. *)

FileOf == IF launch.file \in Files THEN launch.file ELSE [p \in {} |-> None]

\* What the layers below the environment give a setting.
Layered(c, s) ==
  \/ s \in DOMAIN FileOf /\ s \in DOMAIN c /\ c[s] = FileOf[s]
  \/ s \notin DOMAIN FileOf /\ s \in DOMAIN DefaultFile /\ s \in DOMAIN c /\ c[s] = DefaultFile[s]
  \/ s \notin DOMAIN FileOf /\ s \notin DOMAIN DefaultFile /\ s \notin DOMAIN c
Applied(s) == s \in DOMAIN launch.env \ pending
Overridden(s) == s \in DOMAIN config /\ config[s] = CastEnvValue(launch.env[s])

LaunchType ==
  /\ launch.file \in Files \cup {None, Missing}
  /\ launch.env \in Environments
  /\ pending \subseteq DOMAIN launch.env

ConfigInv ==
  /\ LaunchType
  /\ DOMAIN config \subseteq Paths /\ Tree(config)
  /\ \A p \in DOMAIN config : config[p] \in Values
  /\ phase = "default" => config = [p \in {} |-> None]
  /\ phase = "file" => config = DefaultFile
  /\ phase \in {"default", "file"} => pending = DOMAIN launch.env
  /\ phase = "env" => launch.file # Missing
  /\ phase = "env" =>
       \A s \in Settings :
         Hidden(config, s) \/ (IF Applied(s) THEN Overridden(s) ELSE Layered(config, s))

LEMMA ConfigInit == Init => ConfigInv
BY DEF Init, ConfigInv, LaunchType, Tree

LEMMA ConfigLoads ==
  ASSUME ConfigInv, LoadOverride PROVE ConfigInv'
<1>. USE DEF ConfigInv, LoadOverride, Fail
<1>1. UNCHANGED <<launch, pending>> /\ LaunchType' /\ config = DefaultFile /\ pending = DOMAIN launch.env
  BY DEF LaunchType
<1>2. CASE launch.file = Missing
  BY <1>1, <1>2
<1>3. CASE launch.file # Missing
  <2>1. phase' = "env" /\ config' = IF launch.file = None THEN DefaultFile ELSE DeepMerge(DefaultFile, launch.file)
    BY <1>1, <1>3
  <2>2. ASSUME NEW s \in Settings PROVE ~Applied(s)'
    BY <1>1 DEF Applied
  <2>. DOMAIN DefaultFile \subseteq Paths /\ Tree(DefaultFile) /\ \A p \in DOMAIN DefaultFile : DefaultFile[p] \in Values
    BY SessionAssumption DEF Tree
  <2>3. CASE launch.file = None /\ launch.file \notin Files
    <3>1. config' = DefaultFile /\ FileOf' = [p \in {} |-> None]
      BY <1>1, <2>1, <2>3 DEF FileOf
    <3>2. ASSUME NEW s \in Settings PROVE Layered(config, s)'
      BY <3>1 DEF Layered
    <3>. QED
      BY <1>1, <2>1, <2>2, <3>1, <3>2
  <2>4. CASE launch.file \in Files /\ launch.file # None
    <3>1. FileOf' = launch.file /\ config' = DeepMerge(DefaultFile, launch.file)
      BY <1>1, <2>1, <2>4 DEF FileOf
    <3>. DOMAIN launch.file \subseteq Paths /\ Tree(launch.file) /\ \A p \in DOMAIN launch.file : launch.file[p] \in Values
      BY <2>4, SessionAssumption DEF Tree
    <3>2. ASSUME NEW s \in Settings PROVE Hidden(config', s) \/ Layered(config, s)'
      BY <3>1, MergedValue DEF Layered
    <3>3. Tree(config') /\ DOMAIN config' \subseteq Paths /\ \A p \in DOMAIN config' : config'[p] \in Values
      BY <3>1, MergedTree, MergedTyped
    <3>. QED
      BY <1>1, <2>1, <2>2, <3>2, <3>3
  <2>. QED
    BY <1>1, <1>3, <2>3, <2>4, SessionAssumption DEF LaunchType
<1>. QED
  BY <1>2, <1>3

LEMMA ConfigSets ==
  ASSUME ConfigInv, NEW p \in Paths, ApplyVariable(p) PROVE ConfigInv'
<1>. USE DEF ConfigInv, ApplyVariable, Fail
<1>1. UNCHANGED launch /\ LaunchType' /\ phase = "env" /\ p \in DOMAIN launch.env
  BY DEF LaunchType
<1>2. CASE Blocked(p)
  BY <1>1, <1>2
<1>3. CASE ~Blocked(p)
  <2> DEFINE v == CastEnvValue(launch.env[p])
  <2>1. phase' = "env" /\ config' = SetNested(config, p, v) /\ ~Hidden(config, p)
    BY <1>1, <1>3 DEF Blocked, Hidden
  <2>2. v \in Values
    BY <1>1, CastTyped, SessionAssumption DEF LaunchType
  <2>3. DOMAIN config' \subseteq Paths /\ \A q \in DOMAIN config' : config'[q] \in Values
    BY <2>1, <2>2 DEF SetNested
  <2>4. Tree(config')
    BY <2>1, SetTree
  <2>5. ASSUME NEW s \in Settings
        PROVE  Hidden(config', s) \/ (IF Applied(s)' THEN Overridden(s)' ELSE Layered(config, s)')
    <3>1. CASE Hidden(config, s)
      BY <2>1, <3>1, SetKeepsHidden
    <3>2. CASE s = p
      <4>1. ~Above(p, p)
        BY AboveIrreflexive
      <4>. QED
        BY <1>1, <2>1, <3>2, <4>1 DEF Overridden, Applied, SetNested
    <3>3. CASE s # p /\ Above(p, s)
      BY <2>1, <3>3 DEF Hidden, SetNested
    <3>4. CASE s # p /\ ~Above(p, s) /\ ~Hidden(config, s)
      <4>1. /\ s \in DOMAIN config' <=> s \in DOMAIN config
            /\ s \in DOMAIN config => config'[s] = config[s]
        BY <2>1, <3>4 DEF SetNested
      <4>2. Applied(s)' <=> Applied(s)
        BY <1>1, <3>4 DEF Applied
      <4>3. FileOf' = FileOf
        BY <1>1 DEF FileOf
      <4>. QED
        BY <1>1, <3>4, <4>1, <4>2, <4>3 DEF Overridden, Layered
    <3>. QED
      BY <3>1, <3>2, <3>3, <3>4
  <2>. QED
    BY <1>1, <2>1, <2>3, <2>4, <2>5
<1>. QED
  BY <1>2, <1>3

LEMMA ConfigStep == ConfigInv /\ [Next]_vars => ConfigInv'
<1>. SUFFICES ASSUME ConfigInv, [Next]_vars PROVE ConfigInv'
  OBVIOUS
<1>. USE DEF ConfigInv
<1>1. CASE LoadDefault
  <2>1. UNCHANGED <<launch, pending>> /\ LaunchType'
    BY <1>1 DEF LoadDefault, LaunchType
  <2>2. Tree(DefaultFile) /\ DOMAIN DefaultFile \subseteq Paths
    BY SessionAssumption DEF Tree
  <2>. QED
    BY <1>1, <2>1, <2>2, SessionAssumption DEF LoadDefault, Fail
<1>2. CASE LoadOverride
  BY <1>2, ConfigLoads
<1>3. CASE \E p \in Paths : ApplyVariable(p)
  BY <1>3, ConfigSets
<1>4. CASE UNCHANGED <<launch, config, pending>> /\ phase' \notin {"default", "file", "env"}
  BY <1>4 DEF LaunchType
<1>5. CASE UNCHANGED vars
  BY <1>5 DEF vars, LaunchType, Applied, Overridden, Layered, FileOf
<1>6. BuildSettings \/ CreatePool \/ Connect \/ ConnectFails \/ Yield \/ EndTests \/ Close \/ CloseRaises \/ EndSession
      => UNCHANGED <<launch, config, pending>> /\ phase' \notin {"default", "file", "env"}
  BY DEF BuildSettings, CreatePool, Connect, ConnectFails, StopsConnecting, Yield, EndTests, Close,
         CloseRaises, EndSession, Fail
<1>. QED
  BY <1>1, <1>2, <1>3, <1>4, <1>5, <1>6 DEF Next

-----------------------------------------------------------------------------
(* The settings. *)

SettingsInv ==
  /\ ConfigInv
  /\ phase \in {"pool", "connect", "run", "close"} => Valid(settings) /\ settings[BoltUris] \in Seq(Texts)
  /\ settings # None => DOMAIN settings = Settings

LEMMA ReadTyped ==
  ASSUME ConfigInv, NEW s \in Settings PROVE Read(s) \in Values
BY SessionAssumption DEF ConfigInv, Read

LEMMA ListTyped ==
  ASSUME NEW v \in Values, Convertible("list", v) PROVE Convert("list", v) \in Seq(Texts)
<1>1. CASE v[1] = "list"
  BY <1>1 DEF Values, Convert
<1>2. CASE v[1] = "str"
  <2>1. v[2] \in Texts
    BY <1>2 DEF Values
  <2>. QED
    BY <1>2, <2>1, SessionAssumption DEF Convert
<1>. QED
  BY <1>1, <1>2 DEF Convertible

\* Once the environment is applied and no table is hidden, what a setting
\* reads is what the highest layer gave it.
LEMMA ReadFollows ==
  ASSUME MeantSound, ConfigInv, phase = "env", pending = {}, Buildable, NEW s \in Settings
  PROVE  IF s \in DOMAIN launch.env
         THEN LET text == <<Kind[s], launch.env[s]>>
              IN text \in DOMAIN Meant => Built[s] = Meant[text]
         ELSE Built[s] = Convert(Kind[s],
                IF launch.file # None /\ s \in DOMAIN launch.file THEN launch.file[s]
                ELSE IF s \in DOMAIN DefaultFile THEN DefaultFile[s] ELSE Builtin[s])
<1>1. ~Hidden(config, s)
  BY SessionAssumption DEF Hidden, Buildable, ConfigInv
<1>2. IF Applied(s) THEN Overridden(s) ELSE Layered(config, s)
  BY <1>1 DEF ConfigInv
<1>3. Built[s] = Convert(Kind[s], Read(s))
  BY DEF Built
<1>4. CASE s \in DOMAIN launch.env
  <2>1. Read(s) = CastEnvValue(launch.env[s])
    BY <1>2, <1>4 DEF Applied, Overridden, Read
  <2>. QED
    BY <1>3, <1>4, <2>1 DEF MeantSound
<1>5. CASE s \notin DOMAIN launch.env
  <2>1. Layered(config, s)
    BY <1>2, <1>5 DEF Applied
  <2>. QED
    BY <1>3, <1>5, <2>1, SessionAssumption DEF Layered, Read, FileOf, ConfigInv, LaunchType
<1>. QED
  BY <1>4, <1>5

LEMMA SettingsStep == SettingsInv /\ [Next]_vars => SettingsInv'
<1>. SUFFICES ASSUME SettingsInv, [Next]_vars PROVE SettingsInv'
  OBVIOUS
<1>1. ConfigInv /\ ConfigInv'
  BY ConfigStep DEF SettingsInv
<1>2. CASE BuildSettings /\ Buildable /\ Valid(Built)
  <2>1. settings' = Built /\ phase' = "pool"
    BY <1>2 DEF BuildSettings
  <2>2. Built[BoltUris] = Convert("list", Read(BoltUris)) /\ Convertible("list", Read(BoltUris))
    BY <1>2, SessionAssumption DEF Built, Buildable
  <2>3. Built[BoltUris] \in Seq(Texts)
    BY <1>1, <2>2, ReadTyped, ListTyped, SessionAssumption
  <2>4. DOMAIN Built = Settings
    BY DEF Built
  <2>. QED
    BY <1>1, <1>2, <2>1, <2>3, <2>4 DEF SettingsInv
<1>3. CASE UNCHANGED settings /\ (phase' \in {"pool", "connect", "run", "close"} =>
                                    phase \in {"pool", "connect", "run", "close"})
  BY <1>1, <1>3 DEF SettingsInv
<1>4. \/ BuildSettings /\ Buildable /\ Valid(Built)
      \/ /\ UNCHANGED settings
         /\ phase' \in {"pool", "connect", "run", "close"} => phase \in {"pool", "connect", "run", "close"}
  BY DEF Next, vars, LoadDefault, LoadOverride, ApplyVariable, BuildSettings, CreatePool, Connect,
         ConnectFails, StopsConnecting, Yield, EndTests, Close, CloseRaises, EndSession, Fail
<1>. QED
  BY <1>2, <1>3, <1>4

LEMMA SettingsInvariant == Spec => []SettingsInv
<1>1. Init => SettingsInv
  BY ConfigInit DEF Init, SettingsInv
<1>2. SettingsInv /\ [Next]_vars => SettingsInv'
  BY SettingsStep
<1>. QED
  BY <1>1, <1>2, PTL DEF Spec

LEMMA PriorityStep ==
  ASSUME MeantSound, SettingsInv, SettingsFollowPriority, [Next]_vars
  PROVE  SettingsFollowPriority'
<1>1. CASE BuildSettings /\ Buildable /\ Valid(Built)
  BY <1>1, ReadFollows DEF SettingsInv, SettingsFollowPriority, BuildSettings
<1>2. CASE UNCHANGED <<launch, settings>>
  BY <1>2 DEF SettingsFollowPriority
<1>3. (BuildSettings /\ Buildable /\ Valid(Built)) \/ UNCHANGED <<launch, settings>>
  BY DEF Next, vars, LoadDefault, LoadOverride, ApplyVariable, BuildSettings, CreatePool, Connect,
         ConnectFails, Yield, EndTests, Close, CloseRaises, EndSession
<1>. QED
  BY <1>1, <1>2, <1>3

\* The settings of a session that gets as far as its pool are those of the
\* highest layer that gives them, for any environment in any order, if the
\* texts in Meant are cast to what they stand for.
THEOREM SettingsObeyPriority == MeantSound => (Spec => []SettingsFollowPriority)
<1>. SUFFICES ASSUME MeantSound PROVE Spec => []SettingsFollowPriority
  OBVIOUS
<1>1. Init => SettingsFollowPriority
  BY DEF Init, SettingsFollowPriority
<1>2. SettingsInv /\ SettingsFollowPriority /\ [Next]_vars => SettingsFollowPriority'
  BY PriorityStep
<1>. QED
  BY <1>1, <1>2, SettingsInvariant, PTL DEF Spec

-----------------------------------------------------------------------------
(* The pool. *)

Trusted(i) == Agent[clients[i]] \in Native \cup Prefixes(settings[Backend])

\* Which drivers are open, by where the loop is.
PoolInv ==
  /\ Len(clients) \in Nat /\ DOMAIN clients = 1..Len(clients)
  /\ DOMAIN driver = 1..Len(clients)
  /\ \A i \in DOMAIN driver : driver[i] \in {"none", "open", "dropped", "closed"}
  /\ pos \in 1..(Len(clients) + 1)
  /\ failed_at \in 0..Len(clients)
  /\ phase \in {"default", "file", "env", "pool"} =>
       Len(clients) = 0 /\ patched = {} /\ failure = None
  /\ phase \in {"connect", "run"} =>
       /\ clients = Uris(settings) /\ Len(clients) > 0 /\ patched = Prefixes(settings[Backend])
       /\ \A i \in DOMAIN driver : IF i < pos THEN driver[i] = "open" /\ Trusted(i) ELSE driver[i] = "none"
  /\ phase = "run" => pos = Len(clients) + 1
  /\ phase = "close" => \A i \in DOMAIN driver : driver[i] = IF i < pos THEN "closed" ELSE "open"
  /\ failure \in {None, "ConfigurationError", "Error", "ConnectionError", "DriverError"}
  /\ OpenDriversAccountedFor

LEMMA PoolInit == Init => PoolInv
<1>1. Len(<<>>) = 0 /\ DOMAIN <<>> = 1..0
  OBVIOUS
<1>. QED
  BY <1>1 DEF Init, PoolInv, OpenDriversAccountedFor

LEMMA UrisTyped ==
  ASSUME Valid(settings), settings[BoltUris] \in Seq(Texts)
  PROVE  /\ Len(Uris(settings)) \in Nat \ {0}
         /\ DOMAIN Uris(settings) = 1..Len(Uris(settings))
<1>1. CASE settings[Mode] = "standalone"
  BY <1>1 DEF Uris
<1>2. CASE settings[Mode] # "standalone"
  BY <1>2, LenProperties, EmptySeq DEF Uris, Valid
<1>. QED
  BY <1>1, <1>2

LEMMA PoolStep == SettingsInv /\ PoolInv /\ [Next]_vars => PoolInv'
<1>. SUFFICES ASSUME SettingsInv, PoolInv, [Next]_vars PROVE PoolInv'
  OBVIOUS
<1>. USE DEF PoolInv
<1>1. CASE LoadDefault
  BY <1>1 DEF LoadDefault, Fail, OpenDriversAccountedFor
<1>2. CASE LoadOverride
  BY <1>2 DEF LoadOverride, Fail, OpenDriversAccountedFor
<1>3. CASE \E p \in Paths : ApplyVariable(p)
  BY <1>3 DEF ApplyVariable, Fail, OpenDriversAccountedFor
<1>4. CASE BuildSettings
  BY <1>4 DEF BuildSettings, Fail, OpenDriversAccountedFor
<1>5. CASE CreatePool
  <2>1. Valid(settings) /\ settings[BoltUris] \in Seq(Texts)
    BY <1>5 DEF SettingsInv, CreatePool
  <2>. QED
    BY <1>5, <2>1, UrisTyped DEF CreatePool, ApplyAgentPatch, OpenDriversAccountedFor, Trusted
<1>6. CASE Connect
  <2>1. Trusted(pos)
    BY <1>6 DEF Connect, Accepts, Trusted
  <2>. QED
    BY <1>6, <2>1 DEF Connect, OpenDriversAccountedFor, Trusted
<1>7. CASE ConnectFails
  BY <1>7 DEF ConnectFails, StopsConnecting, Fail, OpenDriversAccountedFor
<1>8. CASE Yield
  BY <1>8 DEF Yield, OpenDriversAccountedFor, Trusted
<1>9. CASE EndTests
  BY <1>9 DEF EndTests, FirstClient, OpenDriversAccountedFor
<1>10. CASE Close
  BY <1>10 DEF Close, OpenDriversAccountedFor
<1>11. CASE CloseRaises
  BY <1>11 DEF CloseRaises, Fail, OpenDriversAccountedFor
<1>12. CASE EndSession
  BY <1>12 DEF EndSession, OpenDriversAccountedFor
<1>13. CASE UNCHANGED vars
  BY <1>13 DEF vars, OpenDriversAccountedFor, Trusted
<1>. QED
  BY <1>1, <1>2, <1>3, <1>4, <1>5, <1>6, <1>7, <1>8, <1>9, <1>10, <1>11, <1>12, <1>13 DEF Next

LEMMA PoolInvariant == Spec => []PoolInv
BY PoolInit, PoolStep, SettingsInvariant, PTL DEF Spec

\* The tables, the loops and the drivers keep their types, for any
\* configuration.
THEOREM SessionTypeOK == Spec => []TypeOK
<1> DEFINE PhaseOK == phase \in {"default", "file", "env", "pool", "connect", "run", "close", "over"}
<1>1. Init => PhaseOK
  BY DEF Init
<1>2. PhaseOK /\ [Next]_vars => PhaseOK'
  BY DEF Next, vars, LoadDefault, LoadOverride, ApplyVariable, BuildSettings, CreatePool, Connect,
         ConnectFails, StopsConnecting, Yield, EndTests, Close, CloseRaises, EndSession, Fail
<1>3. SettingsInv /\ PoolInv /\ PhaseOK => TypeOK
  BY DEF SettingsInv, ConfigInv, LaunchType, Tree, PoolInv, TypeOK
<1> HIDE DEF PhaseOK
<1>. QED
  BY <1>1, <1>2, <1>3, SettingsInvariant, PoolInvariant, PTL DEF Spec

\* Whatever the number of servers, a session leaves open only the drivers
\* that its one failure explains.
THEOREM OpenDriversAreExplained == Spec => []OpenDriversAccountedFor
<1>1. PoolInv => OpenDriversAccountedFor
  BY DEF PoolInv
<1>. QED
  BY <1>1, PoolInvariant, PTL

\* No test runs while a server of the configuration is not connected, or is
\* of another backend than the one configured.
THEOREM TestsRunOnTheirBackend == Spec => []RunsOnItsBackend
<1>1. PoolInv => RunsOnItsBackend
  BY DEF PoolInv, RunsOnItsBackend, Trusted, Prefixes
<1>. QED
  BY <1>1, PoolInvariant, PTL
=============================================================================
