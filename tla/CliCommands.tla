------------------------------ MODULE CliCommands ------------------------------
(***************************************************************************)
(* The commands of the ormus command line: the tree that the init functions *)
(* of the packages under cli/cmd build, and what cobra makes of a list of     *)
(* arguments.                                                               *)
(*                                                                          *)
(* A command is its path below ormus and the flags it defines.               *)
(*                                                                          *)
(* Source: src/cli/cmd                                                       *)
(***************************************************************************)
EXTENDS Naturals, Sequences

Command(path, flags) == [path |-> path, flags |-> flags]

\* A command whose Run prints its name: it defines no flag of its own.
Stub(group, use) == Command(<<group, use>>, {})

\* cobra adds --help to every command.
RootCmd == Command(<< >>, {"toggle"})

userCmd == Command(<<"user">>, {})
user_deleteCmd == Stub("user", "delete")
user_loginCmd == Command(<<"user", "login">>, {"email", "password"})
user_logoutCmd == Stub("user", "logout")
user_registerCmd == Stub("user", "register")
user_showCmd == Stub("user", "show")
user_updateCmd == Stub("user", "update")

projectCmd == Command(<<"project">>, {})
project_createCmd == Stub("project", "create")
project_deleteCmd == Stub("project", "delete")
project_listCmd == Stub("project", "list")
project_showCmd == Stub("project", "show")
project_updateCmd == Stub("project", "update")

sourceCmd == Command(<<"source">>, {})
source_createCmd == Stub("source", "create")
source_deleteCmd == Stub("source", "delete")
source_disableCmd == Stub("source", "disable")
source_enableCmd == Stub("source", "enable")
source_getWriteKeyCmd == Stub("source", "getWriteKey")
source_listCmd == Stub("source", "list")
source_rotateWriteKeyCmd == Stub("source", "rotateWriteKey")
source_showCmd == Stub("source", "show")
source_updateCmd == Stub("source", "update")

destinationCmd == Command(<<"destination">>, {})
destination_createCmd == Stub("destination", "create")
destination_deleteCmd == Stub("destination", "delete")
destination_disableCmd == Stub("destination", "disable")
destination_enableCmd == Stub("destination", "enable")
destination_listCmd == Stub("destination", "list")
destination_showCmd == Stub("destination", "show")
destination_testConnectionCmd == Stub("destination", "testConnection")
destination_updateCmd == Stub("destination", "update")

configCmd == Command(<<"config">>, {})
config_getCmd == Command(<<"config", "get">>, {"key"})
config_listCmd == Stub("config", "list")
config_setCmd == Command(<<"config", "set">>, {"key", "value"})

\* What the init functions of the packages that main.go imports add.
Commands ==
  {RootCmd, userCmd, projectCmd, sourceCmd, destinationCmd, configCmd}
  \cup {user_deleteCmd, user_loginCmd, user_logoutCmd, user_registerCmd,
        user_showCmd, user_updateCmd}
  \cup {project_createCmd, project_deleteCmd, project_listCmd, project_showCmd,
        project_updateCmd}
  \cup {source_createCmd, source_deleteCmd, source_disableCmd, source_enableCmd,
        source_getWriteKeyCmd, source_listCmd, source_rotateWriteKeyCmd,
        source_showCmd, source_updateCmd}
  \cup {destination_createCmd, destination_deleteCmd, destination_disableCmd,
        destination_enableCmd, destination_listCmd, destination_showCmd,
        destination_testConnectionCmd, destination_updateCmd}
  \cup {config_getCmd, config_listCmd, config_setCmd}

\* The words name the command, or one below it.
Leads(words, c) ==
  Len(c.path) <= Len(words) /\ SubSeq(words, 1, Len(c.path)) = c.path

\* The deepest command that the words lead to.
Find(words) ==
  CHOOSE c \in Commands :
    /\ Leads(words, c)
    /\ \A d \in Commands : Leads(words, d) => Len(d.path) <= Len(c.path)

\* What RootCmd.Execute does with the arguments: only the root objects to words
\* that are left over; every command objects to a flag it does not define.
Dispatch(words, flags) ==
  LET c == Find(words) IN
  IF (c = RootCmd /\ words # << >>) \/ ~(flags \subseteq c.flags \cup {"help"}) THEN "error"
  ELSE IF c = RootCmd \/ "help" \in flags THEN "help" ELSE "run"
=============================================================================
