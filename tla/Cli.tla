---------------------------------- MODULE Cli ----------------------------------
(***************************************************************************)
(* Runs of the ormus command line that share ./cli/config.json.             *)
(*                                                                          *)
(* Every run, whatever its command, first reads the file or creates it.      *)
(* storeConfig opens the file with O_TRUNC and writes the new text in a       *)
(* second step, at offset 0: a longer text that another run wrote between     *)
(* the two keeps its tail.                                                  *)
(*                                                                          *)
(* Source: src/cli/api, src/cli/cmd                                          *)
(***************************************************************************)
EXTENDS CliCommands

CONSTANTS
  Process,     \* runs of the program
  Invocation,  \* what they may be called with: a set of functions on Process
  SizeOf,      \* the length of each token and base URL
  DefaultURL,  \* the base URL that initConfig writes
  LoginRoute,  \* the base URLs to which "/login" adds a route of the manager
  NewToken,    \* the access token of a login that the manager accepts
  Garbage      \* text that is no JSON object

\* A config has a value for each key.
Keys == {"token", "base_url"}
Value == DOMAIN SizeOf
Configs == [Keys -> Value]

ASSUME CliAssumption ==
  /\ SizeOf \in [Value -> Nat]
  /\ {"", DefaultURL, NewToken} \subseteq Value
  /\ \A a \in Invocation, p \in Process :
       "value" \in DOMAIN a[p].flags => a[p].flags["value"] \in Value
  /\ Garbage \notin Configs

Config(token, url) == [key \in Keys |-> IF key = "token" THEN token ELSE url]

VARIABLES
  args,     \* the arguments of each process: words, and a value for each flag
  running,  \* where each process is
  config,   \* Client.config of each process
  file,     \* the file: absent, or its config (or garbage) and its length
  stores,   \* history: the processes that wrote the file, in order
  seen,     \* history: how many had when a process read it
  clashed,  \* history: some two processes were between opening and writing
  killed    \* history: some process was killed between them

cliVars == <<args, running, config, file, stores, seen, clashed, killed>>

Absent == [config |-> Garbage, size |-> 0, exists |-> FALSE]
Text(c, size) == [config |-> c, size |-> size, exists |-> TRUE]

JSONLength(c) == SizeOf[c["token"]] + SizeOf[c["base_url"]]

Ended == {"exit", "failed", "panicked", "killed"}

Storing(p) == running[p] \in {"initWrite", "write"}

CliInit ==
  /\ args \in Invocation
  /\ running = [p \in Process |-> "start"]
  /\ config = [p \in Process |-> Config("", "")]
  /\ file = Absent
  /\ stores = << >>
  /\ seen = [p \in Process |-> 0]
  /\ clashed = FALSE
  /\ killed = FALSE

Go(p, to) == running' = [running EXCEPT ![p] = to]

-----------------------------------------------------------------------------
(* The client and its file *)

initConfig == Config("", DefaultURL)

\* readConfig of api.New, run when the package is initialised: whether there is
\* a file decides between initConfig and reading it.
checkFileExists(p) ==
  /\ running[p] = "start"
  /\ \/ file.exists /\ Go(p, "read") /\ UNCHANGED config
     \/ /\ ~file.exists
        /\ config' = [config EXCEPT ![p] = initConfig]
        /\ Go(p, "initOpen")
  /\ UNCHANGED <<args, file, stores, seen, clashed, killed>>

\* Text that does not parse ends the run, whatever its command.
readConfig(p) ==
  /\ running[p] = "read"
  /\ seen' = [seen EXCEPT ![p] = Len(stores)]
  /\ \/ /\ file.config # Garbage
        /\ config' = [config EXCEPT ![p] = file.config]
        /\ Go(p, "command")
     \/ /\ file.config = Garbage
        /\ Go(p, "panicked")
        /\ UNCHANGED config
  /\ UNCHANGED <<args, file, stores, clashed, killed>>

\* Mutant: the file is opened without O_TRUNC.
OpenFileKeeping(p) ==
  /\ running[p] \in {"initOpen", "open"}
  /\ file' = IF file.exists THEN file ELSE Text(Garbage, 0)
  /\ clashed' = (clashed \/ \E q \in Process : Storing(q))
  /\ Go(p, IF running[p] = "open" THEN "write" ELSE "initWrite")
  /\ UNCHANGED <<args, config, stores, seen, killed>>

\* storeConfig: O_CREATE|O_TRUNC.
OpenFile(p) ==
  /\ running[p] \in {"initOpen", "open"}
  /\ file' = Text(Garbage, 0)
  /\ clashed' = (clashed \/ \E q \in Process : Storing(q))
  /\ Go(p, IF running[p] = "open" THEN "write" ELSE "initWrite")
  /\ UNCHANGED <<args, config, stores, seen, killed>>

\* storeConfig: file.Write, over what is there.
WriteFile(p) ==
  LET n == JSONLength(config[p]) IN
  /\ Storing(p)
  /\ file' = IF n >= file.size THEN Text(config[p], n) ELSE Text(Garbage, file.size)
  /\ stores' = Append(stores, p)
  /\ Go(p, IF running[p] = "write" THEN "exit" ELSE "command")
  /\ UNCHANGED <<args, config, seen, clashed, killed>>

-----------------------------------------------------------------------------
(* The commands *)

Flag(p, name) == IF name \in DOMAIN args[p].flags THEN args[p].flags[name] ELSE ""

\* cobra runs the command c.
Called(p, c) ==
  /\ Find(args[p].words) = c
  /\ Dispatch(args[p].words, DOMAIN args[p].flags) = "run"

Runs(p, c) == running[p] = "command" /\ Called(p, c)

\* cobra refuses the arguments, prints help, or runs a command that prints.
Execute(p) ==
  /\ running[p] = "command"
  /\ \A c \in {config_setCmd, config_getCmd, user_loginCmd} : ~Runs(p, c)
  /\ Go(p, IF Dispatch(args[p].words, DOMAIN args[p].flags) = "error"
           THEN "failed" ELSE "exit")
  /\ UNCHANGED <<args, config, file, stores, seen, clashed, killed>>

\* Mutant: the other key is not kept.
SetConfigAlone(p) ==
  /\ Runs(p, config_setCmd)
  /\ IF Flag(p, "key") \in Keys /\ Flag(p, "value") # ""
     THEN /\ config' = [config EXCEPT ![p] = [Config("", "") EXCEPT ![Flag(p, "key")] = Flag(p, "value")]]
          /\ Go(p, "open")
     ELSE Go(p, "panicked") /\ UNCHANGED config
  /\ UNCHANGED <<args, file, stores, seen, clashed, killed>>

\* config set: an unknown key, or no value, is a panic.
SetConfig(p) ==
  /\ Runs(p, config_setCmd)
  /\ \/ /\ Flag(p, "key") \in Keys /\ Flag(p, "value") # ""
        /\ config' = [config EXCEPT ![p][Flag(p, "key")] = Flag(p, "value")]
        /\ Go(p, "open")
     \/ /\ Flag(p, "key") \notin Keys \/ Flag(p, "value") = ""
        /\ Go(p, "panicked")
        /\ UNCHANGED config
  /\ UNCHANGED <<args, file, stores, seen, clashed, killed>>

GetConfig(p) ==
  /\ Runs(p, config_getCmd)
  /\ Go(p, IF Flag(p, "key") \in Keys THEN "exit" ELSE "panicked")
  /\ UNCHANGED <<args, config, file, stores, seen, clashed, killed>>

\* user login: without both flags it says so and ends.
Login(p) ==
  /\ Runs(p, user_loginCmd)
  /\ Go(p, IF Flag(p, "email") = "" \/ Flag(p, "password") = "" THEN "exit" ELSE "sent")
  /\ UNCHANGED <<args, config, file, stores, seen, clashed, killed>>

\* SendRequest makes its request from an empty buffer: the body that
\* user.Client.Login fills in is not sent.
SendRequest(p) == {}

\* What the manager answers to POST <base_url>/login.
StatusCode(p) ==
  IF config[p]["base_url"] \notin LoginRoute THEN 404
  ELSE IF SendRequest(p) = {} THEN 422 ELSE 200

\* The answer: an error of the transport, or a status.  Only 200 stores a token.
Response(p) ==
  /\ running[p] = "sent"
  /\ \E err \in BOOLEAN :
       LET ok == ~err /\ StatusCode(p) = 200 IN
       /\ config' = IF ok THEN [config EXCEPT ![p]["token"] = NewToken] ELSE config
       /\ Go(p, IF ok THEN "open" ELSE "panicked")
  /\ UNCHANGED <<args, file, stores, seen, clashed, killed>>

\* The run is interrupted, or a call on the file fails, which is a panic.
Kill(p) ==
  /\ running[p] \notin Ended \cup {"start"}
  /\ killed' = (killed \/ Storing(p))
  /\ Go(p, "killed")
  /\ UNCHANGED <<args, config, file, stores, seen, clashed>>

Run(p) ==
  \/ checkFileExists(p)
  \/ readConfig(p)
  \/ OpenFile(p)
  \/ WriteFile(p)
  \/ Execute(p)
  \/ SetConfig(p)
  \/ GetConfig(p)
  \/ Login(p)

CliNext == \E p \in Process : Run(p) \/ Response(p) \/ Kill(p)

CliSpec == CliInit /\ [][CliNext]_cliVars

-----------------------------------------------------------------------------
(* Properties *)

\* The type of every variable of the command line's runs.
CliTypeOK ==
  /\ args \in Invocation
  /\ running \in [Process -> Ended \cup {"start", "read", "initOpen", "initWrite", "command",
                                    "open", "write", "sent"}]
  /\ config \in [Process -> Configs]
  /\ file.config \in Configs \cup {Garbage} /\ file.size \in Nat /\ file.exists \in BOOLEAN
  /\ stores \in Seq(Process)
  /\ seen \in [Process -> Nat]
  /\ clashed \in BOOLEAN /\ killed \in BOOLEAN

\* Once no run is between opening the file and writing it, the file is whole,
\* unless two runs have been there at once or one was killed there; a file that
\* is not whole ends every later run in readConfig.
FileIsWhole ==
  file.exists /\ (\A p \in Process : ~Storing(p)) /\ file.config = Garbage
    => clashed \/ killed

\* The run stores a value of its own for the key.
Sets(p, key) == Flag(p, "key") = key \/ (key = "token" /\ Called(p, user_loginCmd))

\* The value that a finished "config set" stored is in the file, unless a run
\* that wrote later had read the file before (the last write wins with what it
\* read), or set the same key.
SetIsKept ==
  \A i \in DOMAIN stores :
    LET p == stores[i]
        key == Flag(p, "key") IN
    /\ running[p] = "exit" /\ Called(p, config_setCmd)
    /\ file.config # Garbage
    => \/ file.config[key] = Flag(p, "value")
       \/ \E j \in DOMAIN stores : j > i /\ (seen[stores[j]] < i \/ Sets(stores[j], key))

\* A value in the file is the initial one, the value of some "config set", or the
\* token that a login was given: no other command changes one.
ValuesAreSet ==
  file.config # Garbage =>
    \A key \in Keys :
      \/ file.config[key] = initConfig[key]
      \/ key = "token" /\ file.config[key] = NewToken
      \/ \E p \in Process : /\ Called(p, config_setCmd)
                            /\ Flag(p, "key") = key
                            /\ Flag(p, "value") = file.config[key]

\* What the file holds is what the commands stored in it.
FileHasSetValues == SetIsKept /\ ValuesAreSet

\* "user login" logs in: the manager accepts the request that a run with an email
\* and a password sends to its login route.
LoginLogsIn ==
  \A p \in Process :
    running[p] = "sent" /\ config[p]["base_url"] \in LoginRoute => StatusCode(p) = 200
=============================================================================
