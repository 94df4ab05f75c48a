---------------------------- MODULE MCTestSession ----------------------------
(* The configuration files of config/, cut down to the settings that decide  *)
(* what a session does, and environments of up to three variables.  Values   *)
(* are not abstracted further: what matters is which texts read as what.     *)
EXTENDS TestSession, FiniteSets

Server(key) == <<"server", key>>
Connect_secs == <<"server", "timeouts", "connect_secs">>
Max_size == <<"server", "pool", "max_size">>
MCKind == (Mode :> "str") @@ (Backend :> "str") @@ (BoltUri :> "str") @@ (BoltUris :> "list")
          @@ (Server("password") :> "str") @@ (Connect_secs :> "float")
          @@ (<<"server", "timeouts", "query_secs">> :> "float") @@ (Max_size :> "int")
MCSections == {<<"server">>, <<"server", "timeouts">>, <<"server", "pool">>}
MCPaths == DOMAIN MCKind \cup MCSections \cup {ConfigVariable}

Str(s) == <<"str", s>>
MCBuiltin ==
  (Mode :> Str("standalone")) @@ (Backend :> Str("gdm")) @@ (BoltUri :> Str("gdm1"))
  @@ (BoltUris :> <<"list", <<>>>>) @@ (Server("password") :> Str("SYSDBA"))
  @@ (Connect_secs :> <<"float", 30>>) @@ (<<"server", "timeouts", "query_secs">> :> <<"float", 60>>)
  @@ (Max_size :> <<"int", 100>>)
MCDefaultFile ==
  (Mode :> Str("standalone")) @@ (Backend :> Str("gdm")) @@ (BoltUri :> Str("gdm1"))
  @@ (BoltUris :> <<"list", <<>>>>) @@ (Server("password") :> Str("admin123"))
  @@ (Connect_secs :> <<"float", 30>>) @@ (Max_size :> <<"int", 100>>)
MCDistributed == (Mode :> Str("distributed")) @@ (BoltUris :> <<"list", <<"gdm1", "gdm2", "base1">>>>)
MCNeo4j == (Backend :> Str("neo4j")) @@ (Mode :> Str("standalone")) @@ (BoltUri :> Str("neo1"))
           @@ (Connect_secs :> <<"float", 20>>) @@ (Max_size :> <<"int", 50>>)
MCFiles == {MCDistributed, MCNeo4j}

MCAgent == ("gdm1" :> "GDM") @@ ("gdm2" :> "GDM") @@ ("base1" :> "GdmBase") @@ ("neo1" :> "Neo4j")
MCNative == {"Neo4j"}
MCRegistered == [gdm |-> {"GDM"}, gdmbase |-> {"GdmBase"}]

Plain(s) == [raw |-> s, lower |-> s, number |-> None, items |-> <<s>>]
Digits(s, n) == [raw |-> s, lower |-> s, number |-> <<"int", n>>, items |-> <<s>>]
Commas(s, items) == [raw |-> s, lower |-> s, number |-> None, items |-> items]
Options ==
  (Mode :> {Plain("distributed"), Plain("cluster")})
  @@ (Backend :> {Plain("neo4j"), Plain("gdmbase"), Plain("other")})
  @@ (BoltUri :> {Plain("base1"), Plain("")})
  @@ (BoltUris :> {Commas("gdm2,gdm1", <<"gdm2", "gdm1">>), Plain("gdm2")})
  @@ (Server("password") :> {Digits("007", 7), Plain("secret")})
  @@ (Connect_secs :> {Digits("5", 5), Digits("0", 0), Plain("soon")})
  @@ (Max_size :> {Digits("1", 1)})
  @@ (<<"server">> :> {Plain("gdm1")})
MCVariables == UNION {Options[p] : p \in DOMAIN Options}
MCStrings == {"server", "timeouts", "pool", "mode", "config", "standalone", "gdm", "gdm1", "admin123",
              "SYSDBA", "base1", "neo4j", "neo1", "g", "d"}
             \cup {p[Len(p)] : p \in DOMAIN MCKind}
             \cup UNION {{t.raw} \cup {t.items[i] : i \in DOMAIN t.items} : t \in MCVariables \cup {Plain("file.toml")}}
MCLetters == [s \in MCStrings |-> <<"g", "d">>]

Named == {e \in UNION {[S -> MCVariables] : S \in {T \in SUBSET DOMAIN Options : Cardinality(T) <= 3}} :
            \A p \in DOMAIN e : e[p] \in Options[p]}
MCEnvironments == Named \cup {(ConfigVariable :> Plain("file.toml")) @@ e : e \in Named}

(* What USER_GUIDE.md says of the types (section 5.2), for the texts that    *)
(* the code reads so: a list of one address and a string of digits it does   *)
(* not.                                                                      *)
MCMeant == [x \in {<<"str", t>> : t \in {u \in MCVariables : u.number = None /\ Len(u.items) = 1}}
                  \cup {<<"list", t>> : t \in {u \in MCVariables : Len(u.items) > 1}}
                  \cup {<<k, t>> : k \in {"int", "float"}, t \in {u \in MCVariables : u.number # None}} |->
             CASE x[1] = "str" -> x[2].raw [] x[1] = "list" -> x[2].items [] OTHER -> x[2].number[2]]

(* The hypothesis under which SettingsObeyPriority is proved.                *)
ASSUME TextsAreRead == MeantSound
=============================================================================
