---------------------------- MODULE MCInfrastructure ---------------------------
(***************************************************************************)
(* The parts around the services, each checked by itself: a behaviour is one  *)
(* of the plain task manager, the broker library, the converter, the life of  *)
(* a program, the declarations at the broker, the opening of the database, or *)
(* of runs of the command line.                                             *)
(***************************************************************************)
EXTENDS Infrastructure, TLC

CONSTANTS p1, p2, p3  \* the runs of the command line

VARIABLE focus  \* the part that this behaviour is about

allVars == <<focus, vars, libraryVars, converterVars, lifeVars, topologyVars,
             databaseVars, cliVars>>

-----------------------------------------------------------------------------
(* Three runs of the command line: two set a key; the third sets one to       *)
(* nothing, gets one, logs in, or has a flag that its command does not define. *)

SetTo(key, value) ==
  [words |-> <<"config", "set">>, flags |-> "key" :> key @@ "value" :> value]

CallOf(group, use, flag) == [words |-> <<group, use>>, flags |-> [f \in flag |-> "x"]]

MCInvocation ==
  {p1 :> SetTo("token", "t1") @@ p2 :> last[1] @@ p3 :> last[2] :
     last \in {SetTo("token", "long")} \X {SetTo("base_url", ""), CallOf("config", "get", {"key"})}
          \cup {SetTo("base_url", "users")} \X {CallOf("user", "login", {"email", "password"}),
                                                CallOf("user", "register", {"email"})}}

MCSizeOf == "" :> 0 @@ "t1" :> 2 @@ "long" :> 5 @@ "users" :> 3 @@ "default" :> 3 @@ "x" :> 1

-----------------------------------------------------------------------------

Part == {"tasks", "library", "converter", "program", "topology", "database", "cli"}

\* What a part chooses once and for all is fixed in the behaviours of others.
MCInit ==
  /\ focus \in Part
  /\ Init /\ LibraryInit /\ ConverterInit /\ LifeInit
  /\ TopologyInit /\ DatabaseInit /\ CliInit
  /\ focus # "library" => autoAck /\ autoDelete
  /\ focus # "converter" => function = CHOOSE f \in Function : TRUE
  /\ focus # "program" => program = CHOOSE q \in Program : TRUE
  /\ focus # "topology" => exchange = "absent" /\ queue = "absent"
  /\ focus # "database" => ~example
  /\ focus # "cli" => args = CHOOSE a \in Invocation : TRUE

Tasks == focus = "tasks" /\ UNCHANGED <<focus, libraryVars, converterVars, lifeVars,
                                        topologyVars, databaseVars, cliVars>>
Library == focus = "library" /\ UNCHANGED <<focus, vars, converterVars, lifeVars,
                                            topologyVars, databaseVars, cliVars>>
Conversion == focus = "converter" /\ UNCHANGED <<focus, vars, libraryVars, lifeVars,
                                                 topologyVars, databaseVars, cliVars>>
Life == focus = "program" /\ UNCHANGED <<focus, vars, libraryVars, converterVars,
                                         topologyVars, databaseVars, cliVars>>
Topology == focus = "topology" /\ UNCHANGED <<focus, vars, libraryVars, converterVars,
                                              lifeVars, databaseVars, cliVars>>
Database == focus = "database" /\ UNCHANGED <<focus, vars, libraryVars, converterVars,
                                              lifeVars, topologyVars, cliVars>>
CommandLine == focus = "cli" /\ UNCHANGED <<focus, vars, libraryVars, converterVars,
                                            lifeVars, topologyVars, databaseVars>>

\* The library decodes nothing, so that garbled messages are like the others:
\* bound on the messages published by its clients.
LibraryMessage == Message \ Garbled

MCNext ==
  \/ Tasks /\ Next
  \/ Library /\ LibraryNext /\ published' \subseteq LibraryMessage
  \/ Conversion /\ ConverterNext
  \/ Life /\ LifeNext
  \/ Topology /\ TopologyNext
  \/ Database /\ DatabaseNext
  \/ CommandLine /\ CliNext

\* The fairness of ProcessLife, whose actions are disabled in the other parts, and
\* of RabbitTopology.
MCSpec ==
  /\ MCInit /\ [][MCNext]_allVars
  /\ Fairness
  /\ WF_allVars(Topology /\ TopologyProgress)
=============================================================================
