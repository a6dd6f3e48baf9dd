------------------------------ MODULE ProgramProofs ----------------------------
(***************************************************************************)
(* The life of the programs, what they declare and migrate when they start,   *)
(* and the command line, for any number of processes, failures and runs.  A   *)
(* section finds the inductive invariant of one part and what follows from    *)
(* it.                                                                      *)
(***************************************************************************)
EXTENDS ProcessLife, RabbitTopology, ScyllaInit, Cli, TLAPS

-----------------------------------------------------------------------------
(* The command line *)

\* The runs of "config set", the keys and the values of their flags.
Setters == {p \in Process : Called(p, config_setCmd)}
KeyOf == [p \in Process |-> Flag(p, "key")]
ValueOf == [p \in Process |-> Flag(p, "value")]

\* While no two runs have stored at once and none was killed over it, one run
\* stores at a time, in a file that is empty, and any other file is whole.
OneStores ==
  ~clashed /\ ~killed =>
    /\ \A p, q \in Process : Storing(p) /\ Storing(q) => p = q
    /\ (\E p \in Process : Storing(p)) => file.size = 0
    /\ file.exists /\ (\A p \in Process : ~Storing(p)) => file.config # Garbage

\* The run has its config, from the file or from initConfig.
Loaded == {"initOpen", "initWrite", "command", "open", "write", "sent"}

IsSet(key, v) ==
  v = initConfig[key] \/ \E p \in Setters : KeyOf[p] = key /\ ValueOf[p] = v

\* The values in the file, and in the memory of a run, are initial or were set.
SetValues ==
  /\ file.config # Garbage => \A key \in Keys : IsSet(key, file.config[key])
  /\ \A p \in Process : running[p] \in Loaded => \A key \in Keys : IsSet(key, config[p][key])

\* The i-th store is of a "config set" that is over.
SetAt(i) == stores[i] \in Setters /\ running[stores[i]] = "exit"

\* A later store is of a run that had read before, or of one with the same key.
Undone(i) ==
  \E j \in DOMAIN stores :
    j > i /\ (seen[stores[j]] < i \/ KeyOf[stores[j]] = KeyOf[stores[i]])

\* The value of the i-th store is in c, or undone.
Holds(i, c) == c[KeyOf[stores[i]]] = ValueOf[stores[i]] \/ Undone(i)

\* Where a run is, what it has read, and what it is going to store.
RunsInOrder ==
  /\ \A p \in Process : running[p] = "start" => seen[p] = 0
  /\ \A p \in Process : seen[p] <= Len(stores)
  /\ \A j \in DOMAIN stores : running[stores[j]] \notin {"start", "read"}
  /\ \A p \in Setters :
       running[p] \in {"open", "write"} => KeyOf[p] \in Keys /\ config[p][KeyOf[p]] = ValueOf[p]
  /\ \A p \in Setters : running[p] = "exit" => KeyOf[p] \in Keys

\* What was stored is in the file, and in the memory of every run that read it
\* afterwards, but for the key that this run sets.
Remembered ==
  /\ \A i \in DOMAIN stores : SetAt(i) /\ file.config # Garbage => Holds(i, file.config)
  /\ \A p \in Process : running[p] \in Loaded =>
       \A i \in DOMAIN stores :
         i <= seen[p] /\ SetAt(i) => Holds(i, config[p]) \/ KeyOf[p] = KeyOf[stores[i]]

CliInv == CliTypeOK /\ OneStores /\ SetValues /\ RunsInOrder /\ Remembered

LEMMA ArgsKept ==
  ASSUME args' = args
  PROVE  Setters' = Setters /\ KeyOf' = KeyOf /\ ValueOf' = ValueOf
  BY Zenon DEF Setters, KeyOf, ValueOf, Called, Flag

LEMMA SetCmdIsOther == config_setCmd # config_getCmd /\ config_setCmd # user_loginCmd
<1>1. config_setCmd.path # config_getCmd.path /\ config_setCmd.path # user_loginCmd.path
  BY Zenon DEF config_setCmd, config_getCmd, user_loginCmd, Command
<1> QED BY <1>1, Zenon

LEMMA ValueTyped ==
  ASSUME args \in Invocation, NEW p \in Process
  PROVE  Flag(p, "value") \in Value
<1>1. "" \in Value
  BY CliAssumption, Zenon
<1> QED BY <1>1, CliAssumption, Zenon DEF Flag

LEMMA ConfigTyped == initConfig \in Configs /\ Config("", "") \in Configs
<1>1. "" \in Value /\ DefaultURL \in Value
  BY CliAssumption, Zenon
<1> QED BY <1>1, Zenon DEF initConfig, Config, Configs

LEMMA InitCli == CliInit => CliInv
<1> SUFFICES ASSUME CliInit PROVE CliInv
  BY Zenon
<1>1. /\ file.config = Garbage /\ file.size = 0 /\ file.exists = FALSE
  BY Zenon DEF CliInit, Absent
<1>2. /\ running = [p \in Process |-> "start"] /\ seen = [p \in Process |-> 0]
      /\ config = [p \in Process |-> Config("", "")] /\ stores = << >>
  BY Zenon DEF CliInit
<1>3. /\ args \in Invocation /\ clashed \in BOOLEAN /\ killed \in BOOLEAN
  BY Zenon DEF CliInit
<1>4. CliTypeOK
  <2>1. config \in [Process -> Configs]
    BY <1>2, ConfigTyped, Zenon
  <2>2. seen \in [Process -> Nat]
    BY <1>2, Zenon
  <2>3. stores \in Seq(Process)
    <3>1. << >> \in Seq(Process)
      OBVIOUS
    <3> QED BY <1>2, <3>1, Zenon
  <2>4. file.size \in Nat
    BY <1>1
  <2>5. file.config \in Configs \cup {Garbage} /\ file.exists \in BOOLEAN
    BY <1>1, Zenon
  <2>6. running \in [Process -> Ended \cup {"start", "read", "initOpen", "initWrite", "command",
                                            "open", "write", "sent"}]
    BY <1>2, Zenon
  <2> QED BY <1>3, <2>1, <2>2, <2>3, <2>4, <2>5, <2>6, Zenon DEF CliTypeOK
<1>5. /\ \A p \in Process : running[p] = "start" /\ seen[p] = 0
      /\ DOMAIN stores = {} /\ 0 <= Len(stores)
  <2>1. stores = << >>
    BY <1>2, Zenon
  <2>2. Len(stores) = 0
    BY <2>1, Zenon
  <2>3. DOMAIN stores = {}
    BY <2>1
  <2>4. 0 <= 0
    OBVIOUS
  <2> QED BY <1>2, <2>2, <2>3, <2>4, Zenon
<1>6. OneStores
  BY <1>1, <1>5, Zenon DEF OneStores, Storing
<1>7. SetValues
  <2>1. "start" \notin Loaded
    BY Zenon DEF Loaded
  <2> QED BY <1>1, <1>5, <2>1, Zenon DEF SetValues
<1>8. RunsInOrder
  <2>1. \A p \in Setters : running[p] \notin {"open", "write", "exit"}
    BY <1>5, Zenon DEF Setters
  <2> QED BY <1>5, <2>1, Zenon DEF RunsInOrder
<1>9. Remembered
  BY <1>5, Zenon DEF Remembered
<1> QED BY <1>4, <1>6, <1>7, <1>8, <1>9, Zenon DEF CliInv

\* A step that changes where a run is, and nothing that another run relies on:
\* the commands that print, the answer to a login, and a run that is killed.
LEMMA QuietStep ==
  ASSUME CliInv, NEW p \in Process, NEW to \in Ended \cup {"sent"}, Go(p, to),
         UNCHANGED <<args, config, file, stores, seen, clashed>>,
         killed' = (killed \/ Storing(p)),
         running[p] # "start", to = "sent" => running[p] = "command", to = "exit" => p \notin Setters
  PROVE  CliInv'
<1>0. /\ Setters' = Setters /\ KeyOf' = KeyOf /\ ValueOf' = ValueOf
      /\ Setters \subseteq Process /\ initConfig' = initConfig
  BY ArgsKept, Zenon DEF Setters, initConfig, Config
<1>1. running'[p] = to /\ \A q \in Process : q # p => running'[q] = running[q]
  BY Zenon DEF CliInv, CliTypeOK, Go
<1>2. CliTypeOK'
  <2>1. running' \in [Process -> Ended \cup {"start", "read", "initOpen", "initWrite", "command",
                                             "open", "write", "sent"}]
    BY Zenon DEF CliInv, CliTypeOK, Go
  <2>2. killed' \in BOOLEAN
    BY Zenon
  <2> QED BY <2>1, <2>2, Zenon DEF CliInv, CliTypeOK
<1>3. OneStores'
  <2>1. ~Storing(p)' /\ \A q \in Process : q # p => (Storing(q)' <=> Storing(q))
    BY <1>1, Zenon DEF Storing, Ended
  <2>2. file' = file /\ clashed' = clashed
    BY Zenon
  <2>3. CASE killed'
    BY <2>3, Zenon DEF OneStores
  <2>4. CASE ~killed'
    <3>1. ~killed /\ \A q \in Process : Storing(q)' <=> Storing(q)
      BY <2>1, <2>4, Zenon
    <3> QED BY <2>2, <3>1 DEF CliInv, OneStores
  <2> QED BY <2>3, <2>4, Zenon
<1>4. \A q \in Process : running'[q] \in Loaded => running[q] \in Loaded
  BY <1>1, Zenon DEF Loaded, Ended
<1>5. SetValues'
  <2>1. \A key, v : IsSet(key, v) => IsSet(key, v)'
    BY <1>0, Zenon DEF IsSet
  <2>2. file' = file /\ config' = config
    BY Zenon
  <2> QED BY <1>4, <2>1, <2>2, Zenon DEF CliInv, SetValues
<1>6. RunsInOrder'
  <2>1. \A q \in Process : /\ running'[q] \in {"start", "read"} => running[q] = running'[q]
                           /\ running'[q] \in {"open", "write"} => running[q] = running'[q]
                           /\ q \in Setters /\ running'[q] = "exit" => running[q] = "exit"
    BY <1>1, Zenon DEF Ended
  <2>2. \A j \in DOMAIN stores : stores[j] \in Process
    BY DEF CliInv, CliTypeOK
  <2>3. UNCHANGED <<seen, stores, config>>
    BY Zenon
  <2> QED BY <1>0, <2>1, <2>2, <2>3, ZenonT(40) DEF CliInv, RunsInOrder
<1>7. Remembered'
  <2>1. \A q \in Setters : running'[q] = "exit" => running[q] = "exit"
    BY <1>0, <1>1, Zenon
  <2>2. \A i : SetAt(i)' => SetAt(i)
    BY <1>0, <2>1, Zenon DEF SetAt
  <2>3. \A i, c : Holds(i, c) => Holds(i, c)'
    BY <1>0, Zenon DEF Holds, Undone
  <2> QED BY <1>0, <1>4, <2>2, <2>3, Zenon DEF CliInv, Remembered
<1> QED BY <1>2, <1>3, <1>5, <1>6, <1>7, Zenon DEF CliInv

\* The commands that print, the answer to a login (which is never 200: the
\* request has no body), and the end of a run.
LEMMA PrintStep ==
  ASSUME CliInv, NEW p \in Process,
         Execute(p) \/ GetConfig(p) \/ Login(p) \/ Response(p) \/ Kill(p)
  PROVE  CliInv'
<1>0. killed \in BOOLEAN
  BY Zenon DEF CliInv, CliTypeOK
<1>1. CASE Execute(p)
  <2>1. p \notin Setters /\ running[p] = "command"
    BY <1>1, Zenon DEF Execute, Runs, Setters
  <2>2. ~Storing(p) /\ running[p] # "start"
    BY <2>1, Zenon DEF Storing
  <2>3. killed' = (killed \/ Storing(p)) /\ UNCHANGED <<args, config, file, stores, seen, clashed>>
    BY <1>0, <1>1, <2>2, Zenon DEF Execute
  <2>4. PICK to \in {"exit", "failed"} : Go(p, to)
    BY <1>1, Zenon DEF Execute
  <2>5. to \in Ended \cup {"sent"} /\ to # "sent"
    BY Zenon DEF Ended
  <2> QED BY <2>1, <2>2, <2>3, <2>4, <2>5, QuietStep, Zenon
<1>2. CASE GetConfig(p)
  <2>1. p \notin Setters /\ running[p] = "command"
    BY <1>2, SetCmdIsOther, Zenon DEF GetConfig, Runs, Called, Setters
  <2>2. ~Storing(p) /\ running[p] # "start"
    BY <2>1, Zenon DEF Storing
  <2>3. killed' = (killed \/ Storing(p)) /\ UNCHANGED <<args, config, file, stores, seen, clashed>>
    BY <1>0, <1>2, <2>2, Zenon DEF GetConfig
  <2>4. PICK to \in {"exit", "panicked"} : Go(p, to)
    BY <1>2, Zenon DEF GetConfig
  <2>5. to \in Ended \cup {"sent"} /\ to # "sent"
    BY Zenon DEF Ended
  <2> QED BY <2>1, <2>2, <2>3, <2>4, <2>5, QuietStep, Zenon
<1>3. CASE Login(p)
  <2>1. p \notin Setters /\ running[p] = "command"
    BY <1>3, SetCmdIsOther, Zenon DEF Login, Runs, Called, Setters
  <2>2. ~Storing(p) /\ running[p] # "start"
    BY <2>1, Zenon DEF Storing
  <2>3. killed' = (killed \/ Storing(p)) /\ UNCHANGED <<args, config, file, stores, seen, clashed>>
    BY <1>0, <1>3, <2>2, Zenon DEF Login
  <2>4. PICK to \in {"exit", "sent"} : Go(p, to)
    BY <1>3, Zenon DEF Login
  <2>5. to \in Ended \cup {"sent"}
    BY Zenon DEF Ended
  <2> QED BY <2>1, <2>2, <2>3, <2>4, <2>5, QuietStep, Zenon
<1>4. CASE Response(p)
  <2>1. StatusCode(p) # 200
    BY DEF StatusCode, SendRequest
  <2>2. running[p] = "sent" /\ config' = config /\ Go(p, "panicked")
        /\ UNCHANGED <<args, file, stores, seen, clashed, killed>>
    BY <1>4, <2>1, Zenon DEF Response
  <2>3. ~Storing(p) /\ running[p] # "start"
    BY <2>2, Zenon DEF Storing
  <2>4. killed' = (killed \/ Storing(p)) /\ UNCHANGED <<args, config, file, stores, seen, clashed>>
    BY <1>0, <2>2, <2>3, Zenon
  <2>5. "panicked" \in Ended \cup {"sent"} /\ "panicked" # "sent" /\ "panicked" # "exit"
    BY Zenon DEF Ended
  <2> QED BY <2>2, <2>3, <2>4, <2>5, QuietStep, Zenon
<1>5. CASE Kill(p)
  <2>1. /\ running[p] # "start" /\ Go(p, "killed") /\ killed' = (killed \/ Storing(p))
        /\ UNCHANGED <<args, config, file, stores, seen, clashed>>
    BY <1>5, Zenon DEF Kill
  <2>2. "killed" \in Ended \cup {"sent"} /\ "killed" # "sent" /\ "killed" # "exit"
    BY Zenon DEF Ended
  <2> QED BY <2>1, <2>2, QuietStep, Zenon
<1> QED BY <1>1, <1>2, <1>3, <1>4, <1>5, Zenon

\* What no step but WriteFile does: the stores stay, and what a run has seen of
\* them if it is one that stored; then a value that held still holds.
LEMMA StillHolds ==
  ASSUME CliInv, args' = args, stores' = stores,
         \A j \in DOMAIN stores : seen'[stores[j]] = seen[stores[j]]
  PROVE  \A i, c : Holds(i, c) => Holds(i, c)'
<1>1. KeyOf' = KeyOf /\ ValueOf' = ValueOf
  BY ArgsKept, Zenon
<1> QED BY <1>1, Zenon DEF Holds, Undone

\* checkFileExists: the run reads the file, or has the initial config.
LEMMA CheckStep ==
  ASSUME CliInv, NEW p \in Process, checkFileExists(p)
  PROVE  CliInv'
<1>0. /\ Setters' = Setters /\ KeyOf' = KeyOf /\ ValueOf' = ValueOf
      /\ Setters \subseteq Process /\ initConfig' = initConfig
  BY ArgsKept, Zenon DEF Setters, initConfig, Config, checkFileExists
<1>1. /\ running[p] = "start" /\ UNCHANGED <<args, file, stores, seen, clashed, killed>>
      /\ \/ Go(p, "read") /\ config' = config
         \/ Go(p, "initOpen") /\ config' = [config EXCEPT ![p] = initConfig]
  BY Zenon DEF checkFileExists
<1>2. /\ running'[p] \in {"read", "initOpen"}
      /\ running'[p] = "initOpen" => config'[p] = initConfig
      /\ \A q \in Process : q # p => running'[q] = running[q] /\ config'[q] = config[q]
  <2>1. "read" # "initOpen"
    BY Zenon
  <2> QED BY <1>1, <2>1, Zenon DEF CliInv, CliTypeOK, Go
<1>3. CliTypeOK'
  <2>1. running' \in [Process -> Ended \cup {"start", "read", "initOpen", "initWrite", "command",
                                             "open", "write", "sent"}]
    BY <1>1, Zenon DEF CliInv, CliTypeOK, Go
  <2>2. config' \in [Process -> Configs]
    BY <1>1, ConfigTyped, Zenon DEF CliInv, CliTypeOK
  <2> QED BY <1>1, <2>1, <2>2, Zenon DEF CliInv, CliTypeOK
<1>4. OneStores'
  <2>1. \A q \in Process : Storing(q)' <=> Storing(q)
    BY <1>1, <1>2, Zenon DEF Storing
  <2> QED BY <1>1, <2>1, Zenon DEF CliInv, OneStores
<1>5. SetValues'
  <2>1. \A key, v : IsSet(key, v) => IsSet(key, v)'
    BY <1>0, Zenon DEF IsSet
  <2>2. \A key \in Keys : IsSet(key, initConfig[key])
    BY Zenon DEF IsSet
  <2>3. ASSUME NEW q \in Process, running'[q] \in Loaded, NEW key \in Keys
        PROVE  IsSet(key, config[q][key])'
    <3>1. CASE q = p
      <4>1. running'[p] = "initOpen"
        BY <1>2, <2>3, <3>1, Zenon DEF Loaded
      <4> QED BY <1>2, <2>1, <2>2, <3>1, <4>1, Zenon
    <3>2. CASE q # p
      BY <1>2, <2>1, <2>3, <3>2, Zenon DEF CliInv, SetValues
    <3> QED BY <3>1, <3>2, Zenon
  <2> QED BY <1>1, <2>1, <2>3, Zenon DEF CliInv, SetValues
<1>6. RunsInOrder'
  <2>1. \A q \in Process : running'[q] \in {"start", "exit", "open", "write"} =>
                             q # p /\ running'[q] = running[q] /\ config'[q] = config[q]
    BY <1>2, Zenon
  <2>2. \A j \in DOMAIN stores : stores[j] \in Process \ {p}
    BY <1>1 DEF CliInv, CliTypeOK, RunsInOrder
  <2> QED BY <1>0, <1>1, <1>2, <2>1, <2>2, ZenonT(40) DEF CliInv, RunsInOrder
<1>7. Remembered'
  <2>1. \A i, c : Holds(i, c) => Holds(i, c)'
    BY <1>1, StillHolds, Zenon
  <2>2. \A i : SetAt(i)' => SetAt(i)
    <3>1. \A q \in Process : running'[q] = "exit" => running[q] = "exit"
      BY <1>2, Zenon
    <3> QED BY <1>0, <1>1, <3>1, Zenon DEF SetAt
  <2>3. \A i \in DOMAIN stores : ~(i <= seen[p])
    <3>1. seen[p] = 0 /\ stores \in Seq(Process)
      BY <1>1, Zenon DEF CliInv, CliTypeOK, RunsInOrder
    <3> QED BY <3>1
  <2>4. \A q \in Process : q # p /\ running'[q] \in Loaded => running[q] \in Loaded
    BY <1>2, Zenon
  <2> QED BY <1>0, <1>1, <1>2, <2>1, <2>2, <2>3, <2>4, Zenon DEF CliInv, Remembered
<1> QED BY <1>3, <1>4, <1>5, <1>6, <1>7, Zenon DEF CliInv

\* readConfig: the run has what is in the file, and has seen every store.
LEMMA ReadStep ==
  ASSUME CliInv, NEW p \in Process, readConfig(p)
  PROVE  CliInv'
<1>0. /\ Setters' = Setters /\ KeyOf' = KeyOf /\ ValueOf' = ValueOf
      /\ Setters \subseteq Process /\ initConfig' = initConfig
  BY ArgsKept, Zenon DEF Setters, initConfig, Config, readConfig
<1>1. /\ running[p] = "read" /\ UNCHANGED <<args, file, stores, clashed, killed>>
      /\ seen' = [seen EXCEPT ![p] = Len(stores)]
      /\ \/ file.config # Garbage /\ config' = [config EXCEPT ![p] = file.config] /\ Go(p, "command")
         \/ Go(p, "panicked") /\ config' = config
  BY Zenon DEF readConfig
<1>2. /\ running'[p] \in {"command", "panicked"} /\ seen'[p] = Len(stores)
      /\ running'[p] = "command" => file.config # Garbage /\ config'[p] = file.config
      /\ \A q \in Process : q # p => /\ running'[q] = running[q] /\ config'[q] = config[q]
                                     /\ seen'[q] = seen[q]
  <2>1. "command" # "panicked"
    BY Zenon
  <2> QED BY <1>1, <2>1, Zenon DEF CliInv, CliTypeOK, Go
<1>3. CliTypeOK'
  <2>1. running' \in [Process -> Ended \cup {"start", "read", "initOpen", "initWrite", "command",
                                             "open", "write", "sent"}]
    BY <1>1, Zenon DEF CliInv, CliTypeOK, Go, Ended
  <2>2. config' \in [Process -> Configs]
    BY <1>1, Zenon DEF CliInv, CliTypeOK
  <2>3. seen' \in [Process -> Nat]
    BY <1>1 DEF CliInv, CliTypeOK
  <2> QED BY <1>1, <2>1, <2>2, <2>3, Zenon DEF CliInv, CliTypeOK
<1>4. OneStores'
  <2>1. \A q \in Process : Storing(q)' <=> Storing(q)
    BY <1>1, <1>2, Zenon DEF Storing
  <2> QED BY <1>1, <2>1, Zenon DEF CliInv, OneStores
<1>5. SetValues'
  <2>1. \A key, v : IsSet(key, v) => IsSet(key, v)'
    BY <1>0, Zenon DEF IsSet
  <2>2. ASSUME NEW q \in Process, running'[q] \in Loaded, NEW key \in Keys
        PROVE  IsSet(key, config[q][key])'
    <3>1. CASE q = p
      <4>1. running'[p] = "command"
        BY <1>2, <2>2, <3>1, Zenon DEF Loaded
      <4> QED BY <1>2, <2>1, <3>1, <4>1, Zenon DEF CliInv, SetValues
    <3>2. CASE q # p
      BY <1>2, <2>1, <2>2, <3>2, Zenon DEF CliInv, SetValues
    <3> QED BY <3>1, <3>2, Zenon
  <2> QED BY <1>1, <2>1, <2>2, Zenon DEF CliInv, SetValues
<1>6. \A j \in DOMAIN stores : stores[j] \in Process \ {p}
  BY <1>1 DEF CliInv, CliTypeOK, RunsInOrder
<1>7. RunsInOrder'
  <2>1. \A q \in Process : running'[q] \in {"start", "exit", "open", "write"} =>
                             q # p /\ running'[q] = running[q]
    BY <1>2, Zenon
  <2>2. Len(stores) <= Len(stores)
    BY DEF CliInv, CliTypeOK
  <2>3. \A q \in Process : seen'[q] <= Len(stores)
    BY <1>2, <2>2, Zenon DEF CliInv, RunsInOrder
  <2>4. \A j \in DOMAIN stores : running'[stores[j]] \notin {"start", "read"}
    BY <1>2, <1>6, Zenon DEF CliInv, RunsInOrder
  <2>5. \A q \in Process : running'[q] = "start" => seen'[q] = 0
    BY <1>2, <2>1, Zenon DEF CliInv, RunsInOrder
  <2>6. \A q \in Setters :
          /\ running'[q] \in {"open", "write"} =>
               KeyOf[q] \in Keys /\ config'[q][KeyOf[q]] = ValueOf[q]
          /\ running'[q] = "exit" => KeyOf[q] \in Keys
    BY <1>0, <1>2, <2>1, ZenonT(40) DEF CliInv, RunsInOrder
  <2> QED BY <1>0, <1>1, <2>3, <2>4, <2>5, <2>6, Zenon DEF RunsInOrder
<1>8. Remembered'
  <2>1. \A i, c : Holds(i, c) => Holds(i, c)'
    BY <1>1, <1>2, <1>6, StillHolds, Zenon
  <2>2. \A i : SetAt(i)' => SetAt(i)
    <3>1. \A q \in Process : running'[q] = "exit" => running[q] = "exit"
      BY <1>2, Zenon
    <3> QED BY <1>0, <1>1, <3>1, Zenon DEF SetAt
  <2>3. \A i \in DOMAIN stores : SetAt(i)' /\ file'.config # Garbage => Holds(i, file.config)'
    BY <1>1, <2>1, <2>2, Zenon DEF CliInv, Remembered
  <2>4. ASSUME NEW q \in Process, running'[q] \in Loaded, NEW i \in DOMAIN stores,
               i <= seen'[q], SetAt(i)'
        PROVE  Holds(i, config[q])' \/ KeyOf[q] = KeyOf[stores[i]]
    <3>1. CASE q = p
      <4>1. running'[p] = "command"
        BY <1>2, <2>4, <3>1, Zenon DEF Loaded
      <4>2. Holds(i, file.config)
        BY <1>2, <2>2, <2>4, <4>1, Zenon DEF CliInv, Remembered
      <4> QED BY <1>2, <2>1, <3>1, <4>1, <4>2, Zenon
    <3>2. CASE q # p
      BY <1>2, <2>1, <2>2, <2>4, <3>2, Zenon DEF CliInv, Remembered
    <3> QED BY <3>1, <3>2, Zenon
  <2> QED BY <1>0, <1>1, <2>3, <2>4, Zenon DEF Remembered
<1> QED BY <1>3, <1>4, <1>5, <1>7, <1>8, Zenon DEF CliInv

\* SetConfig: the run is going to store the value of its key.
LEMMA SetStep ==
  ASSUME CliInv, NEW p \in Process, SetConfig(p)
  PROVE  CliInv'
<1>0. /\ Setters' = Setters /\ KeyOf' = KeyOf /\ ValueOf' = ValueOf
      /\ Setters \subseteq Process /\ initConfig' = initConfig
  BY ArgsKept, Zenon DEF Setters, initConfig, Config, SetConfig
<1>1. /\ running[p] = "command" /\ p \in Setters
      /\ UNCHANGED <<args, file, stores, seen, clashed, killed>>
      /\ \/ /\ KeyOf[p] \in Keys /\ Go(p, "open")
            /\ config' = [config EXCEPT ![p][KeyOf[p]] = ValueOf[p]]
         \/ Go(p, "panicked") /\ config' = config
  <2>1. KeyOf[p] = Flag(p, "key") /\ ValueOf[p] = Flag(p, "value")
    BY Zenon DEF KeyOf, ValueOf
  <2> QED BY <2>1, Zenon DEF SetConfig, Runs, Setters
<1>2. config[p] \in Configs /\ ValueOf[p] \in Value
  <2>1. args \in Invocation
    BY Zenon DEF CliInv, CliTypeOK
  <2> QED BY <2>1, ValueTyped, Zenon DEF ValueOf, CliInv, CliTypeOK
<1>3. /\ running'[p] \in {"open", "panicked"}
      /\ running'[p] = "open" =>
           /\ KeyOf[p] \in Keys /\ config'[p][KeyOf[p]] = ValueOf[p]
           /\ \A key \in Keys : key # KeyOf[p] => config'[p][key] = config[p][key]
      /\ \A q \in Process : q # p => running'[q] = running[q] /\ config'[q] = config[q]
  <2>1. "open" # "panicked"
    BY Zenon
  <2>2. CASE Go(p, "panicked") /\ config' = config
    BY <2>1, <2>2, Zenon DEF CliInv, CliTypeOK, Go
  <2>3. CASE /\ KeyOf[p] \in Keys /\ Go(p, "open")
             /\ config' = [config EXCEPT ![p][KeyOf[p]] = ValueOf[p]]
    <3>1. config'[p] = [config[p] EXCEPT ![KeyOf[p]] = ValueOf[p]]
      BY <2>3, Zenon DEF CliInv, CliTypeOK
    <3>2. \A q \in Process : q # p => config'[q] = config[q]
      BY <2>3, Zenon DEF CliInv, CliTypeOK
    <3>3. running'[p] = "open" /\ \A q \in Process : q # p => running'[q] = running[q]
      BY <2>3, Zenon DEF CliInv, CliTypeOK, Go
    <3>4. config'[p][KeyOf[p]] = ValueOf[p]
      BY <1>2, <2>3, <3>1, Zenon DEF Configs
    <3>5. \A key \in Keys : key # KeyOf[p] => config'[p][key] = config[p][key]
      BY <1>2, <3>1, Zenon DEF Configs
    <3> QED BY <2>3, <3>2, <3>3, <3>4, <3>5, Zenon
  <2> QED BY <1>1, <2>2, <2>3, Zenon
<1>4. CliTypeOK'
  <2>1. running' \in [Process -> Ended \cup {"start", "read", "initOpen", "initWrite", "command",
                                             "open", "write", "sent"}]
    BY <1>1, Zenon DEF CliInv, CliTypeOK, Go, Ended
  <2>2. config' \in [Process -> Configs]
    <3>1. config \in [Process -> Configs]
      BY Zenon DEF CliInv, CliTypeOK
    <3>2. [config[p] EXCEPT ![KeyOf[p]] = ValueOf[p]] \in Configs
      BY <1>2, Zenon DEF Configs
    <3>3. [config EXCEPT ![p][KeyOf[p]] = ValueOf[p]] \in [Process -> Configs]
      BY <3>1, <3>2, Zenon
    <3> QED BY <1>1, <3>1, <3>3, Zenon
  <2> QED BY <1>1, <2>1, <2>2, Zenon DEF CliInv, CliTypeOK
<1>5. OneStores'
  <2>1. \A q \in Process : Storing(q)' <=> Storing(q)
    BY <1>1, <1>3, Zenon DEF Storing
  <2> QED BY <1>1, <2>1, Zenon DEF CliInv, OneStores
<1>6. running[p] \in Loaded /\ \A q \in Process : running'[q] \in Loaded => running[q] \in Loaded
  BY <1>1, <1>3, Zenon DEF Loaded
<1>7. running'[p] \in Loaded => running'[p] = "open"
  BY <1>3, Zenon DEF Loaded
<1>8. SetValues'
  <2>1. \A key, v : IsSet(key, v) => IsSet(key, v)'
    BY <1>0, Zenon DEF IsSet
  <2>2. ASSUME NEW q \in Process, running'[q] \in Loaded, NEW key \in Keys
        PROVE  IsSet(key, config[q][key])'
    <3>1. CASE q = p /\ key = KeyOf[p]
      <4>1. IsSet(key, ValueOf[p])
        BY <1>1, <3>1, Zenon DEF IsSet
      <4> QED BY <1>3, <1>7, <2>1, <2>2, <3>1, <4>1, Zenon
    <3>2. CASE q = p /\ key # KeyOf[p]
      BY <1>3, <1>6, <1>7, <2>1, <2>2, <3>2, Zenon DEF CliInv, SetValues
    <3>3. CASE q # p
      BY <1>3, <2>1, <2>2, <3>3, Zenon DEF CliInv, SetValues
    <3> QED BY <3>1, <3>2, <3>3, Zenon
  <2> QED BY <1>1, <2>1, <2>2, Zenon DEF CliInv, SetValues
<1>9. RunsInOrder'
  <2>1. \A q \in Process : /\ running'[q] \in {"start", "read", "exit"} => running'[q] = running[q]
                           /\ running'[q] = "write" => q # p
    BY <1>3, Zenon
  <2>2. \A q \in Setters : running'[q] \in {"open", "write"} =>
                             KeyOf[q] \in Keys /\ config'[q][KeyOf[q]] = ValueOf[q]
    <3> SUFFICES ASSUME NEW q \in Setters, running'[q] \in {"open", "write"}
                 PROVE  KeyOf[q] \in Keys /\ config'[q][KeyOf[q]] = ValueOf[q]
      BY Zenon
    <3>1. CASE q = p
      BY <1>3, <2>1, <3>1, Zenon
    <3>2. CASE q # p
      BY <1>0, <1>3, <3>2, Zenon DEF CliInv, RunsInOrder
    <3> QED BY <3>1, <3>2, Zenon
  <2>3. \A j \in DOMAIN stores : stores[j] \in Process
    BY DEF CliInv, CliTypeOK
  <2>4. UNCHANGED <<seen, stores>>
    BY <1>1, Zenon
  <2> QED BY <1>0, <2>1, <2>2, <2>3, <2>4, Zenon DEF CliInv, RunsInOrder
<1>10. Remembered'
  <2>1. \A i, c : Holds(i, c) => Holds(i, c)'
    BY <1>1, StillHolds, Zenon
  <2>2. \A i : SetAt(i)' => SetAt(i)
    <3>1. \A q \in Process : running'[q] = "exit" => running[q] = "exit"
      BY <1>3, Zenon
    <3> QED BY <1>0, <1>1, <3>1, Zenon DEF SetAt
  <2>3. \A i \in DOMAIN stores : SetAt(i)' /\ file'.config # Garbage => Holds(i, file.config)'
    BY <1>1, <2>1, <2>2, Zenon DEF CliInv, Remembered
  <2>4. ASSUME NEW q \in Process, running'[q] \in Loaded, NEW i \in DOMAIN stores,
               i <= seen[q], SetAt(i)'
        PROVE  Holds(i, config[q])' \/ KeyOf[q] = KeyOf[stores[i]]
    <3>0. Holds(i, config[q]) \/ KeyOf[q] = KeyOf[stores[i]]
      BY <1>6, <2>2, <2>4, Zenon DEF CliInv, Remembered
    <3>1. CASE q = p /\ KeyOf[q] # KeyOf[stores[i]]
      <4>1. KeyOf[stores[i]] \in Keys
        BY <2>2, <2>4, Zenon DEF CliInv, RunsInOrder, SetAt
      <4>2. config'[p][KeyOf[stores[i]]] = config[p][KeyOf[stores[i]]]
        BY <1>3, <1>7, <2>4, <3>1, <4>1, Zenon
      <4>3. Holds(i, config[p])
        BY <3>0, <3>1, Zenon
      <4> QED BY <1>0, <1>1, <3>1, <4>2, <4>3, Zenon DEF Holds, Undone
    <3>2. CASE q # p
      BY <1>3, <2>1, <3>0, <3>2, Zenon
    <3> QED BY <3>1, <3>2, Zenon
  <2> QED BY <1>0, <1>1, <2>3, <2>4, Zenon DEF Remembered
<1> QED BY <1>4, <1>5, <1>8, <1>9, <1>10, Zenon DEF CliInv

\* storeConfig opens the file: it is empty from here.
LEMMA OpenStep ==
  ASSUME CliInv, NEW p \in Process, OpenFile(p)
  PROVE  CliInv'
<1>0. /\ Setters' = Setters /\ KeyOf' = KeyOf /\ ValueOf' = ValueOf
      /\ Setters \subseteq Process /\ initConfig' = initConfig
  BY ArgsKept, Zenon DEF Setters, initConfig, Config, OpenFile
<1>1. /\ running[p] \in {"initOpen", "open"} /\ UNCHANGED <<args, config, stores, seen, killed>>
      /\ clashed' = (clashed \/ \E q \in Process : Storing(q))
  BY Zenon DEF OpenFile
<1>2. file'.config = Garbage /\ file'.size = 0 /\ file'.exists = TRUE
  BY Zenon DEF OpenFile, Text
<1>3. /\ running'[p] \in {"initWrite", "write"}
      /\ running'[p] = "write" => running[p] = "open"
      /\ \A q \in Process : q # p => running'[q] = running[q]
  <2>1. "initWrite" # "write"
    BY Zenon
  <2> QED BY <2>1, Zenon DEF OpenFile, CliInv, CliTypeOK, Go
<1>4. CliTypeOK'
  <2>1. running' \in [Process -> Ended \cup {"start", "read", "initOpen", "initWrite", "command",
                                             "open", "write", "sent"}]
    BY Zenon DEF OpenFile, CliInv, CliTypeOK, Go
  <2>2. clashed' \in BOOLEAN
    BY <1>1, Zenon
  <2>3. file'.size \in Nat
    BY <1>2
  <2>4. file'.config \in Configs \cup {Garbage} /\ file'.exists \in BOOLEAN
    BY <1>2, Zenon
  <2> QED BY <1>1, <2>1, <2>2, <2>3, <2>4, Zenon DEF CliInv, CliTypeOK
<1>5. OneStores'
  <2> SUFFICES ASSUME ~clashed'
               PROVE  OneStores'
    BY Zenon DEF OneStores
  <2>1. \A q \in Process : ~Storing(q)
    BY <1>1, Zenon
  <2>2. Storing(p)' /\ \A q \in Process : q # p => ~Storing(q)'
    BY <1>3, <2>1, Zenon DEF Storing
  <2> QED BY <1>2, <2>2, Zenon DEF OneStores
<1>6. \A q \in Process : running'[q] \in Loaded => running[q] \in Loaded
  BY <1>1, <1>3, Zenon DEF Loaded
<1>7. SetValues'
  <2>1. \A key, v : IsSet(key, v) => IsSet(key, v)'
    BY <1>0, Zenon DEF IsSet
  <2> QED BY <1>1, <1>2, <1>6, <2>1, Zenon DEF CliInv, SetValues
<1>8. RunsInOrder'
  <2>1. \A q \in Process :
          /\ running'[q] \in {"start", "read", "exit"} => running'[q] = running[q]
          /\ running'[q] \in {"open", "write"} => running[q] \in {"open", "write"}
    BY <1>1, <1>3, Zenon
  <2>2. \A j \in DOMAIN stores : stores[j] \in Process
    BY DEF CliInv, CliTypeOK
  <2> QED BY <1>0, <1>1, <2>1, <2>2, Zenon DEF CliInv, RunsInOrder
<1>9. Remembered'
  <2>1. \A i, c : Holds(i, c) => Holds(i, c)'
    BY <1>1, StillHolds, Zenon
  <2>2. \A i : SetAt(i)' => SetAt(i)
    <3>1. \A q \in Process : running'[q] = "exit" => running[q] = "exit"
      BY <1>3, Zenon
    <3> QED BY <1>0, <1>1, <3>1, Zenon DEF SetAt
  <2> QED BY <1>0, <1>1, <1>2, <1>6, <2>1, <2>2, Zenon DEF CliInv, Remembered
<1> QED BY <1>4, <1>5, <1>7, <1>8, <1>9, Zenon DEF CliInv

\* storeConfig writes: the file has what the run had in memory, or keeps a tail
\* of what another wrote since it was opened.
LEMMA WriteStep ==
  ASSUME CliInv, NEW p \in Process, WriteFile(p)
  PROVE  CliInv'
<1>0. /\ Setters' = Setters /\ KeyOf' = KeyOf /\ ValueOf' = ValueOf
      /\ Setters \subseteq Process /\ initConfig' = initConfig
  BY ArgsKept, Zenon DEF Setters, initConfig, Config, WriteFile
<1> DEFINE n == JSONLength(config[p])
           end == Len(stores) + 1
<1>1. /\ Storing(p) /\ stores' = Append(stores, p)
      /\ UNCHANGED <<args, config, seen, clashed, killed>>
      /\ file' = IF n >= file.size THEN Text(config[p], n) ELSE Text(Garbage, file.size)
      /\ Go(p, IF running[p] = "write" THEN "exit" ELSE "command")
  BY Zenon DEF WriteFile
<1>2. n \in Nat /\ file.size \in Nat /\ config[p] \in Configs
  <2>1. file.size \in Nat /\ config[p] \in Configs
    BY Zenon DEF CliInv, CliTypeOK
  <2>2. SizeOf[config[p]["token"]] \in Nat /\ SizeOf[config[p]["base_url"]] \in Nat
    BY <2>1, CliAssumption, Zenon DEF Configs, Keys
  <2> QED BY <2>1, <2>2 DEF JSONLength
<1> HIDE DEF n
<1>3. /\ n >= file.size => file'.config = config[p]
      /\ ~(n >= file.size) => file'.config = Garbage
      /\ file'.size \in Nat /\ file'.exists = TRUE
  <2>1. CASE n >= file.size
    BY <1>1, <1>2, <2>1, Zenon DEF Text
  <2>2. CASE ~(n >= file.size)
    BY <1>1, <1>2, <2>2, Zenon DEF Text
  <2> QED BY <2>1, <2>2, Zenon
<1>4. running[p] \in {"initWrite", "write"}
  BY <1>1, Zenon DEF Storing
<1>5. /\ running'[p] \in {"exit", "command"}
      /\ running'[p] = "exit" => running[p] = "write"
      /\ \A q \in Process : q # p => running'[q] = running[q]
  <2>1. "exit" # "command"
    BY Zenon
  <2> QED BY <1>1, <2>1, Zenon DEF CliInv, CliTypeOK, Go
<1>6. stores \in Seq(Process)
  BY Zenon DEF CliInv, CliTypeOK
<1>7. /\ DOMAIN stores' = DOMAIN stores \cup {end} /\ stores'[end] = p
      /\ \A i \in DOMAIN stores : stores'[i] = stores[i] /\ i < end /\ stores[i] \in Process
      /\ \A q \in Process : seen[q] < end
      /\ Len(stores') = end
  <2>1. Len(stores') = end /\ DOMAIN stores' = DOMAIN stores \cup {end} /\ stores'[end] = p
    BY <1>1, <1>6
  <2>2. \A i \in DOMAIN stores : stores'[i] = stores[i] /\ i < end /\ stores[i] \in Process
    BY <1>1, <1>6
  <2>3. \A q \in Process : seen[q] < end
    BY <1>6 DEF CliInv, CliTypeOK, RunsInOrder
  <2> QED BY <2>1, <2>2, <2>3, Zenon
<1>8. CliTypeOK'
  <2>1. running' \in [Process -> Ended \cup {"start", "read", "initOpen", "initWrite", "command",
                                             "open", "write", "sent"}]
    BY <1>1, Zenon DEF CliInv, CliTypeOK, Go, Ended
  <2>2. stores' \in Seq(Process)
    BY <1>1, <1>6
  <2>3. file'.config \in Configs \cup {Garbage} /\ file'.exists \in BOOLEAN
    BY <1>2, <1>3, Zenon
  <2> QED BY <1>1, <1>3, <2>1, <2>2, <2>3, Zenon DEF CliInv, CliTypeOK
<1>9. OneStores'
  <2> SUFFICES ASSUME ~clashed, ~killed
               PROVE  OneStores'
    BY <1>1, Zenon DEF OneStores
  <2>1. file.size = 0 /\ \A q \in Process : Storing(q) => q = p
    BY <1>1, Zenon DEF CliInv, OneStores
  <2>2. \A q \in Process : ~Storing(q)'
    BY <1>5, <2>1, Zenon DEF Storing
  <2>3. n >= file.size
    BY <1>2, <2>1
  <2>4. file'.config # Garbage
    BY <1>2, <1>3, <2>3, CliAssumption, Zenon
  <2> QED BY <2>2, <2>4, Zenon DEF OneStores
<1>10. running[p] \in Loaded /\ \A q \in Process : running'[q] \in Loaded => running[q] \in Loaded
  BY <1>4, <1>5, Zenon DEF Loaded
<1>11. SetValues'
  <2>1. \A key, v : IsSet(key, v) => IsSet(key, v)'
    BY <1>0, Zenon DEF IsSet
  <2>2. \A key \in Keys : IsSet(key, config[p][key])
    BY <1>10, Zenon DEF CliInv, SetValues
  <2>3. file'.config # Garbage => file'.config = config[p]
    BY <1>3, Zenon
  <2> QED BY <1>1, <1>10, <2>1, <2>2, <2>3, Zenon DEF CliInv, SetValues
<1>12. \A q \in Process :
         /\ running'[q] \in {"start", "read"} => running'[q] = running[q]
         /\ running'[q] \in {"open", "write"} => running[q] \in {"open", "write"}
         /\ running'[q] = "exit" => running[q] = "exit" \/ (q = p /\ running[q] = "write")
  BY <1>4, <1>5, Zenon
<1>13. RunsInOrder'
  <2>1. \A q \in Process : seen'[q] <= Len(stores')
    BY <1>1, <1>6, <1>7 DEF CliInv, CliTypeOK
  <2>2. \A j \in DOMAIN stores' : running'[stores'[j]] \notin {"start", "read"}
    <3>1. \A j \in DOMAIN stores : running'[stores'[j]] \notin {"start", "read"}
      BY <1>7, <1>12, Zenon DEF CliInv, RunsInOrder
    <3>2. running'[p] \notin {"start", "read"}
      BY <1>5, Zenon
    <3> QED BY <1>7, <3>1, <3>2, Zenon
  <2>3. \A q \in Setters :
          /\ running'[q] \in {"open", "write"} =>
               KeyOf[q] \in Keys /\ config[q][KeyOf[q]] = ValueOf[q]
          /\ running'[q] = "exit" => KeyOf[q] \in Keys
    BY <1>0, <1>12, Zenon DEF CliInv, RunsInOrder
  <2> QED BY <1>0, <1>1, <1>12, <2>1, <2>2, <2>3, ZenonT(40) DEF CliInv, RunsInOrder
<1>14. \A i \in DOMAIN stores : Undone(i) => Undone(i)'
  BY <1>0, <1>1, <1>7, Zenon DEF Undone
<1>15. ASSUME NEW i \in DOMAIN stores, KeyOf[p] = KeyOf[stores[i]] \/ seen[p] < i
       PROVE  Undone(i)'
  <2>1. end > i
    BY <1>6, <1>7, Zenon
  <2> QED BY <1>0, <1>1, <1>7, <1>15, <2>1, Zenon DEF Undone
<1>16. ASSUME NEW i \in DOMAIN stores, SetAt(i)'
       PROVE  SetAt(i) \/ Undone(i)'
  <2>1. CASE stores[i] = p
    BY <1>15, <2>1, Zenon
  <2>2. CASE stores[i] # p
    BY <1>0, <1>7, <1>12, <1>16, <2>2, Zenon DEF SetAt
  <2> QED BY <2>1, <2>2, Zenon
<1>17. Remembered'
  <2>1. ASSUME NEW i \in DOMAIN stores', SetAt(i)', file'.config # Garbage
        PROVE  Holds(i, file.config)'
    <3>1. file'.config = config[p]
      BY <1>3, <2>1, Zenon
    <3>2. CASE i = end
      <4>1. p \in Setters /\ running[p] = "write"
        BY <1>0, <1>5, <1>7, <2>1, <3>2, Zenon DEF SetAt
      <4>2. config[p][KeyOf[p]] = ValueOf[p]
        BY <4>1, Zenon DEF CliInv, RunsInOrder
      <4> QED BY <1>0, <1>7, <3>1, <3>2, <4>2, Zenon DEF Holds
    <3>3. CASE i \in DOMAIN stores
      <4>1. CASE Undone(i)'
        BY <4>1, Zenon DEF Holds
      <4>2. CASE ~Undone(i)'
        <5>1. SetAt(i) /\ i <= seen[p] /\ ~Undone(i)
          <6>1. SetAt(i) /\ ~(seen[p] < i) /\ ~Undone(i)
            BY <1>14, <1>15, <1>16, <2>1, <3>3, <4>2, Zenon
          <6>2. i \in Nat /\ seen[p] \in Nat
            BY <1>6, <3>3 DEF CliInv, CliTypeOK
          <6> QED BY <6>1, <6>2
        <5>2. Holds(i, config[p])
          BY <1>10, <1>15, <3>3, <4>2, <5>1, Zenon DEF CliInv, Remembered
        <5> QED BY <1>0, <1>7, <3>1, <3>3, <5>1, <5>2, Zenon DEF Holds
      <4> QED BY <4>1, <4>2, Zenon
    <3> QED BY <1>7, <2>1, <3>2, <3>3, Zenon
  <2>2. ASSUME NEW q \in Process, running'[q] \in Loaded, NEW i \in DOMAIN stores',
               i <= seen[q], SetAt(i)'
        PROVE  Holds(i, config[q])' \/ KeyOf[q] = KeyOf[stores'[i]]
    <3>1. i \in DOMAIN stores
      <4>1. ~(end <= seen[q])
        BY <1>6, <1>7 DEF CliInv, CliTypeOK
      <4> QED BY <1>7, <2>2, <4>1, Zenon
    <3>2. CASE Undone(i)'
      BY <3>2, Zenon DEF Holds
    <3>3. CASE ~Undone(i)'
      <4>1. SetAt(i) /\ ~Undone(i)
        BY <1>14, <1>16, <2>2, <3>1, <3>3, Zenon
      <4>2. Holds(i, config[q]) \/ KeyOf[q] = KeyOf[stores[i]]
        BY <1>10, <2>2, <3>1, <4>1, Zenon DEF CliInv, Remembered
      <4> QED BY <1>0, <1>1, <1>7, <3>1, <4>1, <4>2, Zenon DEF Holds
    <3> QED BY <3>2, <3>3, Zenon
  <2> QED BY <1>0, <1>1, <2>1, <2>2, Zenon DEF Remembered
<1> QED BY <1>8, <1>9, <1>11, <1>13, <1>17, Zenon DEF CliInv

LEMMA CliHolds == CliSpec => []CliInv
<1>1. CliInv /\ [CliNext]_cliVars => CliInv'
  <2> SUFFICES ASSUME CliInv, [CliNext]_cliVars PROVE CliInv'
    BY Zenon
  <2>1. CASE UNCHANGED cliVars
    <3> USE <2>1 DEF cliVars
    <3>0. /\ Setters' = Setters /\ KeyOf' = KeyOf /\ ValueOf' = ValueOf /\ initConfig' = initConfig
      BY ArgsKept, Zenon DEF initConfig, Config
    <3>1. CliTypeOK'
      BY Zenon DEF CliInv, CliTypeOK
    <3>2. OneStores'
      BY Zenon DEF CliInv, OneStores, Storing
    <3>3. SetValues'
      BY <3>0, ZenonT(40) DEF CliInv, SetValues, IsSet
    <3>4. RunsInOrder'
      BY <3>0, Zenon DEF CliInv, RunsInOrder
    <3>5. Remembered'
      BY <3>0, Zenon DEF CliInv, Remembered, SetAt, Holds, Undone
    <3> QED BY <3>1, <3>2, <3>3, <3>4, <3>5, Zenon DEF CliInv
  <2>2. CASE CliNext
    <3> PICK p \in Process : Run(p) \/ Response(p) \/ Kill(p)
      BY <2>2, Zenon DEF CliNext
    <3>1. CASE Execute(p) \/ GetConfig(p) \/ Login(p) \/ Response(p) \/ Kill(p)
      BY <3>1, PrintStep, Zenon
    <3>2. CASE checkFileExists(p)
      BY <3>2, CheckStep, Zenon
    <3>3. CASE readConfig(p)
      BY <3>3, ReadStep, Zenon
    <3>4. CASE SetConfig(p)
      BY <3>4, SetStep, Zenon
    <3>5. CASE OpenFile(p)
      BY <3>5, OpenStep, Zenon
    <3>6. CASE WriteFile(p)
      BY <3>6, WriteStep, Zenon
    <3> QED BY <3>1, <3>2, <3>3, <3>4, <3>5, <3>6, Zenon DEF Run
  <2> QED BY <2>1, <2>2, Zenon
<1> QED BY InitCli, <1>1, PTL DEF CliSpec

\* storeConfig of the command line: only two runs that store at once, or one
\* that is killed meanwhile, spoil the file, for any number of runs, arguments
\* and lengths of the values.
THEOREM OneWriterKeepsFile == CliSpec => []FileIsWhole
<1>1. CliInv => FileIsWhole
  BY Zenon DEF CliInv, OneStores, FileIsWhole
<1> QED BY <1>1, CliHolds, PTL

\* SetConfig and storeConfig of the command line: a stored value is undone only
\* by a run that had read the file before it was stored or that sets the same
\* key, and the file has no value that no command stored, for any number of runs
\* and whatever they are called with.
THEOREM StoredValuesStay == CliSpec => []FileHasSetValues
<1>1. CliInv => FileHasSetValues
  <2> SUFFICES ASSUME CliInv PROVE FileHasSetValues
    BY Zenon
  <2>1. \A i \in DOMAIN stores : stores[i] \in Process
    BY DEF CliInv, CliTypeOK
  <2>2. \A p \in Process : KeyOf[p] = Flag(p, "key") /\ ValueOf[p] = Flag(p, "value")
    BY Zenon DEF KeyOf, ValueOf
  <2>3. SetIsKept
    <3> SUFFICES ASSUME NEW i \in DOMAIN stores, running[stores[i]] = "exit",
                        Called(stores[i], config_setCmd), file.config # Garbage
                 PROVE  \/ file.config[Flag(stores[i], "key")] = Flag(stores[i], "value")
                        \/ \E j \in DOMAIN stores :
                             j > i /\ ( \/ seen[stores[j]] < i
                                       \/ Flag(stores[j], "key") = Flag(stores[i], "key") )
      BY Zenon DEF SetIsKept, Sets
    <3>1. SetAt(i)
      BY <2>1, Zenon DEF SetAt, Setters
    <3>2. Holds(i, file.config)
      BY <3>1, Zenon DEF CliInv, Remembered
    <3> QED BY <2>1, <2>2, <3>2, ZenonT(40) DEF Holds, Undone
  <2>4. ValuesAreSet
    <3> SUFFICES ASSUME file.config # Garbage, NEW key \in Keys
                 PROVE  \/ file.config[key] = initConfig[key]
                        \/ \E p \in Process : /\ Called(p, config_setCmd)
                                              /\ Flag(p, "key") = key
                                              /\ Flag(p, "value") = file.config[key]
      BY Zenon DEF ValuesAreSet
    <3>1. IsSet(key, file.config[key])
      BY Zenon DEF CliInv, SetValues
    <3> QED BY <2>2, <3>1, Zenon DEF IsSet, Setters
  <2> QED BY <2>3, <2>4, Zenon DEF FileHasSetValues
<1> QED BY <1>1, CliHolds, PTL

-----------------------------------------------------------------------------
(* The database *)

\* RunMigrations is at a migration.
Migrating == {"version", "truncateDirty", "insertDirty", "apply", "truncateClean", "insertClean"}

\* What a process has done when it is at a step: its sessions, the keyspace, and
\* the tables of the migrations that it is past, whoever created them.
Reached(p) ==
  /\ opening[p] \in {"keyspaceSession", "dead"} => sessions[p] = 0
  /\ opening[p] \in {"keyspace", "session"} => sessions[p] <= 1
  /\ opening[p] \in Migrating => example \/ sessions[p] <= 1
  /\ opening[p] \notin {"keyspaceSession", "keyspace", "dead"} => keyspace
  /\ opening[p] \in {"truncateDirty", "insertDirty", "apply"} => 1 .. (next[p] - 1) \subseteq tables
  /\ opening[p] \in {"truncateClean", "insertClean"} => 1 .. next[p] \subseteq tables
  /\ opening[p] = "session" => example \/ tables = Migration

DatabaseInv == DatabaseTypeOK /\ (\A p \in Opener : Reached(p)) /\ SchemaIsSound

LEMMA InitDatabase == DatabaseInit => DatabaseInv
<1> SUFFICES ASSUME DatabaseInit PROVE DatabaseInv
  BY Zenon
<1>1. example \in BOOLEAN /\ keyspace \in BOOLEAN /\ cutOff \in BOOLEAN
  BY Zenon DEF DatabaseInit
<1>2. DatabaseTypeOK
  BY <1>1, DatabaseAssumption DEF DatabaseInit, DatabaseTypeOK, Migration, Stage
<1>3. \A p \in Opener : Reached(p)
  BY Zenon DEF DatabaseInit, Reached, Migrating
<1>4. SchemaIsSound
  BY Zenon DEF DatabaseInit, SchemaIsSound
<1> QED BY <1>2, <1>3, <1>4, Zenon DEF DatabaseInv

\* Another process is where it was, and nothing that it relies on is undone.
LEMMA OthersReached ==
  ASSUME DatabaseInv, NEW p \in Opener, NEW q \in Opener, p # q,
         opening'[q] = opening[q], next'[q] = next[q], sessions'[q] = sessions[q],
         example' = example, keyspace => keyspace',
         tables \subseteq tables', tables' \subseteq Migration
  PROVE  Reached(q)'
<1>1. Reached(q) /\ tables \subseteq Migration
  BY Zenon DEF DatabaseInv, DatabaseTypeOK
<1>2. tables = Migration => tables' = Migration
  BY Zenon
<1> QED BY <1>1, <1>2, Zenon DEF Reached

LEMMA AfterStep ==
  /\ After("keyspace") = IF example THEN "session" ELSE "version"
  /\ After("migrations") = IF example THEN "dead" ELSE "session"
  /\ After("session") = IF example THEN "version" ELSE "serving"
  BY Zenon DEF After, New, exampleMain

\* Run has returned nil at a process with the keyspace and all tables.
LEMMA RunReturned ==
  ASSUME DatabaseInv, NEW p \in Opener, opening[p] \in {"version", "insertClean"},
         tables = Migration, RunReturns(p), UNCHANGED <<example, next, keyspace, tables>>
  PROVE  /\ opening' \in [Opener -> Stage] /\ host' \in [Opener -> 1 .. Hosts]
         /\ sessions' \in [Opener -> 0 .. 2]
         /\ opening'[p] \in {"version", "session", "dead"}
         /\ \A q \in Opener \ {p} : opening'[q] = opening[q]
         /\ \A q \in Opener : Reached(q)'
<1>1. /\ opening \in [Opener -> Stage] /\ host \in [Opener -> 1 .. Hosts]
      /\ sessions \in [Opener -> 0 .. 2] /\ Reached(p) /\ tables \subseteq Migration
  BY Zenon DEF DatabaseInv, DatabaseTypeOK
<1>2. host' \in [Opener -> 1 .. Hosts]
  BY <1>1, DatabaseAssumption DEF RunReturns, MigrationHosts
<1>3. \/ GoTo(p, "version") /\ UNCHANGED sessions
      \/ example /\ EndProcess(p)
      \/ ~example /\ GoTo(p, "session") /\ UNCHANGED sessions
  <2>1. "dead" # "session"
    BY Zenon
  <2> QED BY <2>1, AfterStep, Zenon DEF RunReturns
<1>4. opening' \in [Opener -> Stage] /\ sessions' \in [Opener -> 0 .. 2]
      /\ opening'[p] \in {"version", "session", "dead"}
  BY <1>1, <1>3 DEF GoTo, EndProcess, Stage
<1>5. \A q \in Opener \ {p} : opening'[q] = opening[q] /\ sessions'[q] = sessions[q]
  BY <1>1, <1>3, Zenon DEF GoTo, EndProcess
<1>6. Reached(p)'
  <2>1. keyspace /\ (example \/ sessions[p] <= 1)
    BY <1>1, Zenon DEF Reached, Migrating
  <2>2. CASE GoTo(p, "version") /\ UNCHANGED sessions
    <3>1. opening'[p] = "version" /\ sessions'[p] = sessions[p]
      BY <1>1, <2>2, Zenon DEF GoTo
    <3> QED BY <2>1, <3>1, Zenon DEF Reached, Migrating
  <2>3. CASE example /\ EndProcess(p)
    <3>1. opening'[p] = "dead" /\ sessions'[p] = 0
      BY <1>1, <2>3, Zenon DEF GoTo, EndProcess
    <3> QED BY <2>1, <3>1, Zenon DEF Reached, Migrating
  <2>4. CASE ~example /\ GoTo(p, "session") /\ UNCHANGED sessions
    <3>1. opening'[p] = "session" /\ sessions'[p] = sessions[p]
      BY <1>1, <2>4, Zenon DEF GoTo
    <3> QED BY <2>1, <2>4, <3>1, Zenon DEF Reached, Migrating
  <2> QED BY <1>3, <2>2, <2>3, <2>4, Zenon
<1>7. \A q \in Opener : Reached(q)'
  BY <1>1, <1>5, <1>6, OthersReached, Zenon
<1> QED BY <1>2, <1>4, <1>5, <1>7, Zenon

\* The keyspace and the sessions.
LEMMA SessionStep ==
  ASSUME DatabaseInv, NEW p \in Opener,
         CreateKeySpace(p) \/ createKeyspace(p) \/ GetConnection(p)
  PROVE  DatabaseInv'
<1>0. opening \in [Opener -> Stage] /\ sessions \in [Opener -> 0 .. 2] /\ Reached(p)
      /\ example \in BOOLEAN /\ tables \subseteq Migration
  BY Zenon DEF DatabaseInv, DatabaseTypeOK
<1>1. CASE CreateKeySpace(p)
  <2> USE <1>1 DEF CreateKeySpace, OpenSession, GoTo, local, database, history
  <2>1. DatabaseTypeOK'
    BY <1>0 DEF DatabaseInv, DatabaseTypeOK, Reached, Stage
  <2>2. Reached(p)'
    BY <1>0 DEF Reached, Migrating
  <2>3. \A q \in Opener : Reached(q)'
    BY <1>0, <2>2, OthersReached, Zenon
  <2>4. SchemaIsSound'
    BY <1>0, Zenon DEF DatabaseInv, SchemaIsSound, Marked
  <2> QED BY <2>1, <2>3, <2>4, Zenon DEF DatabaseInv
<1>2. CASE createKeyspace(p)
  <2> USE <1>2 DEF createKeyspace, GoTo, local, history
  <2>1. DatabaseTypeOK'
    BY <1>0, AfterStep, Zenon DEF DatabaseInv, DatabaseTypeOK, Stage
  <2>2. Reached(p)'
    BY <1>0, AfterStep, Zenon DEF Reached, Migrating
  <2>3. \A q \in Opener : Reached(q)'
    BY <1>0, <2>2, OthersReached, Zenon
  <2>4. SchemaIsSound'
    BY <1>0, AfterStep, Zenon DEF DatabaseInv, SchemaIsSound, Marked
  <2> QED BY <2>1, <2>3, <2>4, Zenon DEF DatabaseInv
<1>3. CASE GetConnection(p)
  <2> USE <1>3 DEF GetConnection, OpenSession, GoTo, local, database, history
  <2>1. DatabaseTypeOK'
    BY <1>0, AfterStep DEF DatabaseInv, DatabaseTypeOK, Reached, Stage
  <2>2. Reached(p)'
    BY <1>0, AfterStep, Zenon DEF Reached, Migrating
  <2>3. \A q \in Opener : Reached(q)'
    BY <1>0, <2>2, OthersReached, Zenon
  <2>4. SchemaIsSound'
    BY <1>0, AfterStep, Zenon DEF DatabaseInv, SchemaIsSound, Marked, Reached
  <2> QED BY <2>1, <2>3, <2>4, Zenon DEF DatabaseInv
<1> QED BY <1>1, <1>2, <1>3, Zenon

\* A process ends, or is started again.
LEMMA FailureStep ==
  ASSUME DatabaseInv, NEW p \in Opener, CallFails(p) \/ StartAgain(p)
  PROVE  DatabaseInv'
<1>0. opening \in [Opener -> Stage] /\ sessions \in [Opener -> 0 .. 2] /\ Reached(p)
      /\ example \in BOOLEAN /\ tables \subseteq Migration
  BY Zenon DEF DatabaseInv, DatabaseTypeOK
<1>1. CASE CallFails(p)
  <2> USE <1>1 DEF CallFails, EndProcess, GoTo, local, database
  <2>1. DatabaseTypeOK'
    <3>1. cutOff' \in BOOLEAN
      BY Zenon
    <3> QED BY <1>0, <3>1, DatabaseAssumption DEF DatabaseInv, DatabaseTypeOK, Stage
  <2>2. Reached(p)'
    BY <1>0, Zenon DEF Reached, Migrating
  <2>3. \A q \in Opener : Reached(q)'
    BY <1>0, <2>2, OthersReached, Zenon
  <2>4. SchemaIsSound'
    BY <1>0, Zenon DEF DatabaseInv, SchemaIsSound, Marked
  <2> QED BY <2>1, <2>3, <2>4, Zenon DEF DatabaseInv
<1>2. CASE StartAgain(p)
  <2> USE <1>2 DEF StartAgain, GoTo, database, history
  <2>1. DatabaseTypeOK'
    BY <1>0, DatabaseAssumption DEF DatabaseInv, DatabaseTypeOK, Stage, Migration
  <2>2. Reached(p)'
    BY <1>0, Zenon DEF Reached, Migrating
  <2>3. \A q \in Opener : Reached(q)'
    <3>1. \A q \in Opener \ {p} : next'[q] = next[q]
      BY Zenon DEF DatabaseInv, DatabaseTypeOK
    <3> QED BY <1>0, <2>2, <3>1, OthersReached, Zenon
  <2>4. SchemaIsSound'
    BY <1>0, Zenon DEF DatabaseInv, SchemaIsSound, Marked
  <2> QED BY <2>1, <2>3, <2>4, Zenon DEF DatabaseInv
<1> QED BY <1>1, <1>2, Zenon

\* Up reads a version: that of a mark ends the process, the last one is no
\* change, and the tables of any other are there.
LEMMA UpStep ==
  ASSUME DatabaseInv, NEW p \in Opener, Up(p)
  PROVE  DatabaseInv'
<1>0. opening \in [Opener -> Stage] /\ sessions \in [Opener -> 0 .. 2] /\ Reached(p)
      /\ next \in [Opener -> Migration] /\ example \in BOOLEAN /\ tables \subseteq Migration
      /\ rows \subseteq [version : Migration, dirty : BOOLEAN]
  BY Zenon DEF DatabaseInv, DatabaseTypeOK
<1>1. PICK r \in Found :
        IF r.dirty THEN EndProcess(p) /\ UNCHANGED local
        ELSE IF r.version = LastMigration THEN RunReturns(p) /\ UNCHANGED next
        ELSE /\ next' = [next EXCEPT ![p] = r.version + 1]
             /\ GoTo(p, "truncateDirty")
             /\ UNCHANGED <<host, sessions>>
  BY Zenon DEF Up
<1>2. opening[p] = "version" /\ UNCHANGED <<example, keyspace, tables, rows, failures, cutOff>>
  BY Zenon DEF Up, database, history
<1>3. keyspace
  BY <1>0, <1>2, Zenon DEF Reached
<1>4. CASE r.dirty
  <2>1. EndProcess(p) /\ UNCHANGED <<next, host>>
    BY <1>1, <1>4, Zenon DEF local
  <2>2. DatabaseTypeOK'
    BY <1>0, <1>2, <2>1 DEF EndProcess, GoTo, DatabaseInv, DatabaseTypeOK, Stage
  <2>3. Reached(p)'
    BY <1>0, <1>2, <2>1, Zenon DEF EndProcess, GoTo, Reached, Migrating
  <2>4. \A q \in Opener : Reached(q)'
    BY <1>0, <1>2, <2>1, <2>3, OthersReached, Zenon DEF EndProcess, GoTo
  <2>5. SchemaIsSound'
    BY <1>0, <1>2, <2>1, Zenon DEF EndProcess, GoTo, DatabaseInv, SchemaIsSound, Marked
  <2> QED BY <2>2, <2>4, <2>5, Zenon DEF DatabaseInv
<1>5. CASE ~r.dirty
  <2>1. r.version \in 0 .. LastMigration /\ 1 .. r.version \subseteq tables
    <3>1. CASE rows = {}
      <4>1. r.version = 0
        BY <3>1 DEF Found
      <4> QED BY <4>1, DatabaseAssumption
    <3>2. CASE rows # {}
      <4>1. r \in rows
        BY <3>2, Zenon DEF Found
      <4>2. r.version \in Migration
        BY <1>0, <4>1, Zenon
      <4>3. 1 .. r.version \subseteq tables
        BY <1>5, <4>1, Zenon DEF DatabaseInv, SchemaIsSound
      <4> QED BY <4>2, <4>3, DatabaseAssumption DEF Migration
    <3> QED BY <3>1, <3>2, Zenon
  <2>2. CASE r.version = LastMigration
    <3>1. RunReturns(p) /\ UNCHANGED next
      BY <1>1, <1>5, <2>2, Zenon
    <3>2. tables = Migration
      BY <1>0, <2>1, <2>2, Zenon DEF Migration
    <3>3. /\ opening' \in [Opener -> Stage] /\ host' \in [Opener -> 1 .. Hosts]
          /\ sessions' \in [Opener -> 0 .. 2]
          /\ opening'[p] \in {"version", "session", "dead"}
          /\ \A q \in Opener \ {p} : opening'[q] = opening[q]
          /\ \A q \in Opener : Reached(q)'
      BY <1>2, <3>1, <3>2, RunReturned, Zenon
    <3>4. DatabaseTypeOK'
      BY <1>2, <3>1, <3>3, Zenon DEF DatabaseInv, DatabaseTypeOK
    <3>5. SchemaIsSound'
      BY <1>2, <3>3, Zenon DEF DatabaseInv, SchemaIsSound, Marked
    <3> QED BY <3>3, <3>4, <3>5, Zenon DEF DatabaseInv
  <2>3. CASE r.version # LastMigration
    <3>1. /\ next' = [next EXCEPT ![p] = r.version + 1]
          /\ GoTo(p, "truncateDirty") /\ UNCHANGED <<host, sessions>>
      BY <1>1, <1>5, <2>3, Zenon
    <3>2. r.version + 1 \in Migration /\ r.version + 1 - 1 = r.version
      BY <2>1, <2>3, DatabaseAssumption DEF Migration
    <3>3. DatabaseTypeOK'
      BY <1>0, <1>2, <3>1, <3>2, Zenon DEF GoTo, DatabaseInv, DatabaseTypeOK, Stage
    <3>4. Reached(p)'
      <4>1. opening'[p] = "truncateDirty" /\ next'[p] = r.version + 1 /\ sessions'[p] = sessions[p]
        BY <1>0, <3>1, Zenon DEF GoTo
      <4> QED BY <1>0, <1>2, <1>3, <2>1, <3>2, <4>1 DEF Reached, Migrating
    <3>5. \A q \in Opener : Reached(q)'
      BY <1>0, <1>2, <3>1, <3>4, OthersReached, Zenon DEF GoTo
    <3>6. SchemaIsSound'
      BY <1>0, <1>2, <3>1, Zenon DEF GoTo, DatabaseInv, SchemaIsSound, Marked
    <3> QED BY <3>3, <3>5, <3>6, Zenon DEF DatabaseInv
  <2> QED BY <2>2, <2>3, Zenon
<1> QED BY <1>4, <1>5, Zenon

\* The statements of a migration before its second record.
LEMMA MigrationStep ==
  ASSUME DatabaseInv, NEW p \in Opener, Truncate(p) \/ InsertDirty(p) \/ Apply(p)
  PROVE  DatabaseInv'
<1>0. opening \in [Opener -> Stage] /\ sessions \in [Opener -> 0 .. 2] /\ Reached(p)
      /\ next \in [Opener -> Migration] /\ example \in BOOLEAN /\ tables \subseteq Migration
      /\ rows \subseteq [version : Migration, dirty : BOOLEAN]
  BY Zenon DEF DatabaseInv, DatabaseTypeOK
<1>1. CASE Truncate(p)
  <2> USE <1>1 DEF Truncate, GoTo, local, history
  <2>1. DatabaseTypeOK'
    BY <1>0, Zenon DEF DatabaseInv, DatabaseTypeOK, Stage
  <2>2. Reached(p)'
    BY <1>0, Zenon DEF Reached, Migrating
  <2>3. \A q \in Opener : Reached(q)'
    BY <1>0, <2>2, OthersReached, Zenon
  <2>4. SchemaIsSound'
    BY <1>0, Zenon DEF DatabaseInv, SchemaIsSound
  <2> QED BY <2>1, <2>3, <2>4, Zenon DEF DatabaseInv
<1>2. CASE InsertDirty(p)
  <2> USE <1>2 DEF InsertDirty, GoTo, local, history
  <2>1. DatabaseTypeOK'
    <3>1. rows' \subseteq [version : Migration, dirty : BOOLEAN]
      <4>1. [version |-> next[p], dirty |-> TRUE] \in [version : Migration, dirty : BOOLEAN]
        BY <1>0, Zenon
      <4> QED BY <1>0, <4>1, Zenon DEF Insert
    <3>2. opening' \in [Opener -> Stage]
      BY <1>0, Zenon DEF Stage
    <3> QED BY <3>1, <3>2, Zenon DEF DatabaseInv, DatabaseTypeOK
  <2>2. Reached(p)'
    BY <1>0, Zenon DEF Reached, Migrating
  <2>3. \A q \in Opener : Reached(q)'
    BY <1>0, <2>2, OthersReached, Zenon
  <2>4. SchemaIsSound'
    <3>1. opening'[p] = "apply" /\ \A q \in Opener : opening'[q] = "serving" => opening[q] = "serving"
      BY <1>0, Zenon
    <3>2. ASSUME NEW r \in rows'
          PROVE  1 .. (IF r.dirty THEN r.version - 1 ELSE r.version) \subseteq tables'
      <4>1. CASE r \in rows
        BY <4>1, Zenon DEF DatabaseInv, SchemaIsSound
      <4>2. CASE r = [version |-> next[p], dirty |-> TRUE]
        <5>1. 1 .. (next[p] - 1) \subseteq tables
          BY <1>0, Zenon DEF Reached
        <5>2. r.version = next[p] /\ r.dirty = TRUE
          BY <4>2, Zenon
        <5> QED BY <5>1, <5>2, Zenon
      <4> QED BY <3>2, <4>1, <4>2, Zenon DEF Insert
    <3>3. opening'[p] \in Marked
      BY <3>1, Zenon DEF Marked
    <3> QED BY <3>1, <3>2, <3>3, Zenon DEF DatabaseInv, SchemaIsSound
  <2> QED BY <2>1, <2>3, <2>4, Zenon DEF DatabaseInv
<1>3. CASE Apply(p)
  <2> USE <1>3 DEF Apply, GoTo, local, history
  <2>1. DatabaseTypeOK'
    BY <1>0, Zenon DEF DatabaseInv, DatabaseTypeOK, Stage
  <2>2. Reached(p)'
    BY <1>0, DatabaseAssumption DEF Reached, Migrating, Migration
  <2>3. \A q \in Opener : Reached(q)'
    BY <1>0, <2>1, <2>2, OthersReached, Zenon DEF DatabaseTypeOK
  <2>4. SchemaIsSound'
    <3>1. opening'[p] \in Marked /\ \A q \in Opener : opening'[q] = "serving" => opening[q] = "serving"
      BY <1>0, Zenon DEF Marked
    <3>2. tables \subseteq tables' /\ tables' \subseteq Migration /\ rows' = rows
      BY <2>1, Zenon DEF DatabaseTypeOK
    <3> QED BY <3>1, <3>2, Zenon DEF DatabaseInv, SchemaIsSound
  <2> QED BY <2>1, <2>3, <2>4, Zenon DEF DatabaseInv
<1> QED BY <1>1, <1>2, <1>3, Zenon

\* The second record of a migration: its table is there.
LEMMA RecordStep ==
  ASSUME DatabaseInv, NEW p \in Opener, InsertClean(p)
  PROVE  DatabaseInv'
<1>0. opening \in [Opener -> Stage] /\ sessions \in [Opener -> 0 .. 2] /\ Reached(p)
      /\ next \in [Opener -> Migration] /\ example \in BOOLEAN /\ tables \subseteq Migration
      /\ rows \subseteq [version : Migration, dirty : BOOLEAN]
  BY Zenon DEF DatabaseInv, DatabaseTypeOK
<1>1. /\ opening[p] = "insertClean" /\ Insert(next[p], FALSE)
      /\ UNCHANGED <<example, keyspace, tables, failures, cutOff>>
  BY Zenon DEF InsertClean, history
<1>2. keyspace /\ 1 .. next[p] \subseteq tables
  BY <1>0, <1>1, Zenon DEF Reached
<1>3. rows' \subseteq [version : Migration, dirty : BOOLEAN]
  <2>1. [version |-> next[p], dirty |-> FALSE] \in [version : Migration, dirty : BOOLEAN]
    BY <1>0, Zenon
  <2> QED BY <1>0, <1>1, <2>1, Zenon DEF Insert
<1>4. /\ \A r \in rows' : 1 .. (IF r.dirty THEN r.version - 1 ELSE r.version) \subseteq tables'
      /\ \A r \in rows' : r.dirty => r \in rows
  <2> SUFFICES ASSUME NEW r \in rows'
               PROVE  /\ 1 .. (IF r.dirty THEN r.version - 1 ELSE r.version) \subseteq tables'
                      /\ r.dirty => r \in rows
    BY Zenon
  <2>1. CASE r \in rows
    BY <1>1, <2>1, Zenon DEF DatabaseInv, SchemaIsSound
  <2>2. CASE r = [version |-> next[p], dirty |-> FALSE]
    <3>1. r.version = next[p] /\ r.dirty = FALSE
      BY <2>2, Zenon
    <3> QED BY <1>1, <1>2, <3>1, Zenon
  <2> QED BY <1>1, <2>1, <2>2, Zenon DEF Insert
<1>5. ASSUME opening'[p] \in {"version", "session", "dead", "truncateDirty"},
             \A q \in Opener \ {p} : opening'[q] = opening[q]
      PROVE  SchemaIsSound'
  <2>1. \A q \in Opener : opening'[q] = "serving" => opening[q] = "serving"
    BY <1>5, Zenon
  <2>2. \A q \in Opener : opening[q] \in Marked => opening'[q] \in Marked
    BY <1>1, <1>5, Zenon DEF Marked
  <2> QED BY <1>1, <1>4, <2>1, <2>2, Zenon DEF DatabaseInv, SchemaIsSound
<1>6. CASE next[p] = LastMigration
  <2>1. RunReturns(p) /\ UNCHANGED next
    BY <1>6, Zenon DEF InsertClean
  <2>2. tables = Migration
    BY <1>0, <1>2, <1>6, Zenon DEF Migration
  <2>3. /\ opening' \in [Opener -> Stage] /\ host' \in [Opener -> 1 .. Hosts]
        /\ sessions' \in [Opener -> 0 .. 2]
        /\ opening'[p] \in {"version", "session", "dead"}
        /\ \A q \in Opener \ {p} : opening'[q] = opening[q]
        /\ \A q \in Opener : Reached(q)'
    BY <1>1, <2>1, <2>2, RunReturned, Zenon
  <2>4. DatabaseTypeOK'
    BY <1>1, <1>3, <2>1, <2>3, Zenon DEF DatabaseInv, DatabaseTypeOK
  <2>5. SchemaIsSound'
    BY <1>5, <2>3, Zenon
  <2> QED BY <2>3, <2>4, <2>5, Zenon DEF DatabaseInv
<1>7. CASE next[p] # LastMigration
  <2>1. /\ next' = [next EXCEPT ![p] = @ + 1]
        /\ GoTo(p, "truncateDirty") /\ UNCHANGED <<host, sessions>>
    BY <1>7, Zenon DEF InsertClean
  <2>2. next[p] + 1 \in Migration /\ next[p] + 1 - 1 = next[p]
    BY <1>0, <1>7, DatabaseAssumption DEF Migration
  <2>3. opening'[p] = "truncateDirty" /\ next'[p] = next[p] + 1 /\ sessions'[p] = sessions[p]
    BY <1>0, <2>1, Zenon DEF GoTo
  <2>4. opening' \in [Opener -> Stage] /\ next' \in [Opener -> Migration]
    BY <1>0, <2>1, <2>2, Zenon DEF GoTo, Stage
  <2>5. DatabaseTypeOK'
    BY <1>1, <1>3, <2>1, <2>4, Zenon DEF DatabaseInv, DatabaseTypeOK
  <2>6. Reached(p)'
    <3>1. 1 .. (next'[p] - 1) \subseteq tables'
      <4>1. next'[p] - 1 = next[p] /\ tables' = tables
        BY <1>0, <1>1, <2>3, DatabaseAssumption DEF Migration
      <4> QED BY <1>2, <4>1, Zenon
    <3>2. example \/ sessions[p] <= 1
      BY <1>0, <1>1, Zenon DEF Reached, Migrating
    <3> QED BY <1>1, <1>2, <2>3, <3>1, <3>2, Zenon DEF Reached, Migrating
  <2>7. \A q \in Opener : Reached(q)'
    BY <1>0, <1>1, <2>1, <2>6, OthersReached, Zenon DEF GoTo
  <2>8. SchemaIsSound'
    BY <1>0, <1>5, <2>1, <2>3, Zenon DEF GoTo
  <2> QED BY <2>5, <2>7, <2>8, Zenon DEF DatabaseInv
<1> QED BY <1>6, <1>7, Zenon

LEMMA DatabaseHolds == DatabaseSpec => []DatabaseInv
<1>1. DatabaseInv /\ [DatabaseNext]_databaseVars => DatabaseInv'
  <2> SUFFICES ASSUME DatabaseInv, [DatabaseNext]_databaseVars PROVE DatabaseInv'
    BY Zenon
  <2>1. CASE UNCHANGED databaseVars
    <3> USE <2>1 DEF databaseVars, DatabaseInv
    <3>1. DatabaseTypeOK'
      BY Zenon DEF DatabaseTypeOK
    <3>2. \A p \in Opener : Reached(p)'
      BY Zenon DEF Reached, Migration
    <3>3. SchemaIsSound'
      BY Zenon DEF SchemaIsSound
    <3> QED BY <3>1, <3>2, <3>3, Zenon
  <2>2. CASE DatabaseNext
    <3> PICK p \in Opener :
          \/ CreateKeySpace(p) \/ createKeyspace(p) \/ GetConnection(p) \/ Up(p)
          \/ Truncate(p) \/ InsertDirty(p) \/ Apply(p) \/ InsertClean(p)
          \/ CallFails(p) \/ StartAgain(p)
      BY <2>2, Zenon DEF DatabaseNext
    <3>1. CASE CreateKeySpace(p) \/ createKeyspace(p) \/ GetConnection(p)
      BY <3>1, SessionStep, Zenon
    <3>2. CASE Up(p)
      BY <3>2, UpStep, Zenon
    <3>3. CASE Truncate(p) \/ InsertDirty(p) \/ Apply(p)
      BY <3>3, MigrationStep, Zenon
    <3>4. CASE InsertClean(p)
      BY <3>4, RecordStep, Zenon
    <3>5. CASE CallFails(p) \/ StartAgain(p)
      BY <3>5, FailureStep, Zenon
    <3> QED BY <3>1, <3>2, <3>3, <3>4, <3>5, Zenon
  <2> QED BY <2>1, <2>2, Zenon
<1> QED BY InitDatabase, <1>1, PTL DEF DatabaseSpec

\* scyllarepo.New and its migrations: a manager serves with the keyspace and all
\* tables, a record without a mark is never ahead of the tables, and a mark that
\* stays was left by a process that was cut off, for any number of processes
\* that migrate together, migrations and crashes.
THEOREM SchemaHolds == DatabaseSpec => []SchemaIsSound
<1>1. DatabaseInv => SchemaIsSound
  BY Zenon DEF DatabaseInv
<1> QED BY <1>1, DatabaseHolds, PTL

-----------------------------------------------------------------------------
(* The life of a program *)

\* The boot of a program that sends to done: Configure, NewTracer, and calls
\* that are neither.
Traces(boot) ==
  /\ Len(boot) >= 2
  /\ \A i \in 1 .. Len(boot) : /\ boot[i].name = "Configure" <=> i = 1
                               /\ boot[i].name = "NewTracer" <=> i = 2
                               /\ boot[i].name # "startService1"

LEMMA ProgramBoots ==
  \A q \in Program : Len(q.boot) \in Nat /\ (q.closes = "send" => Traces(q.boot))
<1> USE DEF Main, Call, NewWithContext, NewChannel
<1>1. Len(destination.boot) \in Nat /\ Traces(destination.boot)
  <2>1. Len(destination.boot) = 6
    BY Zenon DEF destination
  <2>2. ASSUME NEW i \in 1 .. 6
        PROVE  /\ destination.boot[i].name = "Configure" <=> i = 1
               /\ destination.boot[i].name = "NewTracer" <=> i = 2
               /\ destination.boot[i].name # "startService1"
    BY SMTT(30) DEF destination
  <2> QED BY <2>1, <2>2 DEF Traces
<1>2. Len(webhook_delivery_worker.boot) \in Nat /\ Traces(webhook_delivery_worker.boot)
  <2>1. Len(webhook_delivery_worker.boot) = 8
    BY Zenon DEF webhook_delivery_worker
  <2>2. ASSUME NEW i \in 1 .. 8
        PROVE  /\ webhook_delivery_worker.boot[i].name = "Configure" <=> i = 1
               /\ webhook_delivery_worker.boot[i].name = "NewTracer" <=> i = 2
               /\ webhook_delivery_worker.boot[i].name # "startService1"
    BY DEF webhook_delivery_worker
  <2> QED BY <2>1, <2>2 DEF Traces
<1>3. Len(faker.boot) \in Nat /\ faker.closes # "send"
  BY Zenon DEF faker
<1>4. Len(faker_bulk.boot) \in Nat /\ faker_bulk.closes # "send"
  BY Zenon DEF faker, faker_bulk
<1>5. Len(otel_example.boot) \in Nat /\ otel_example.closes # "send"
  BY Zenon DEF otel_example
<1>6. ASSUME NEW loop PROVE Len(rabbitmq_example(loop).boot) \in Nat /\ rabbitmq_example(loop).closes # "send"
  BY Zenon DEF rabbitmq_example
<1> QED BY <1>1, <1>2, <1>3, <1>4, <1>5, <1>6, Zenon DEF Program, consumer_example, publisher_example

\* Until done is closed no goroutine is woken, and the provider of a tracer has
\* a goroutine that waits.
Waiting ==
  /\ ~done
  /\ \A g \in Telemetry \cup Worker : goroutine[g] \in {"none", "waiting"}
  /\ tracer => \E g \in Telemetry : goroutine[g] = "waiting"

Waits == life \in {"booting", "serving", "interrupted"} => Waiting

\* A program that sends to done got past NewTracer and has kept the provider.
Traced ==
  program.closes = "send" =>
    /\ service2 = "none"
    /\ at > 2 => tracer
    /\ life \in {"serving", "interrupted"} => at > 2

LifeInv ==
  /\ LifeTypeOK /\ Waits /\ Traced
  /\ life = "interrupted" => program.closes = "send"

LEMMA InitLife == LifeInit => LifeInv
<1> SUFFICES ASSUME LifeInit PROVE LifeInv
  BY Zenon
<1>1. at \in 1 .. Len(program.boot) + 1 /\ ~(at > 2)
  BY ProgramBoots DEF LifeInit
<1>2. isConfigure \in BOOLEAN /\ tracer \in BOOLEAN /\ done \in BOOLEAN /\ ~done /\ ~tracer
  BY Zenon DEF LifeInit
<1>3. "booting" # "serving" /\ "booting" # "interrupted"
  BY Zenon
<1> QED BY <1>1, <1>2, <1>3, Zenon DEF LifeInit, LifeInv, LifeTypeOK, Waits, Waiting, Traced

\* Goroutines that start wait.
LEMMA StartTyped ==
  ASSUME LifeTypeOK, NEW started, Start(started)
  PROVE  /\ goroutine' \in [Telemetry \cup Worker -> {"none", "waiting", "woken", "ended"}]
         /\ \A g \in Telemetry \cup Worker :
              goroutine'[g] = IF g \in started THEN "waiting" ELSE goroutine[g]
  BY Zenon DEF LifeTypeOK, Start

\* The next call of the boot, or the end of the process.
LEMMA GoesOn ==
  ASSUME LifeTypeOK, at <= Len(program.boot), NEW ok, Goes(ok)
  PROVE  /\ at' \in 1 .. Len(program.boot) + 1
         /\ (ok /\ at' = at + 1 /\ life' = life) \/ (life' = "dead" /\ at' = at)
<1>1. CASE ok
  <2>1. at' = at + 1 /\ life' = life
    BY <1>1, Zenon DEF Goes
  <2> QED BY <1>1, <2>1, ProgramBoots DEF LifeTypeOK
<1>2. CASE ~ok
  BY <1>2, Zenon DEF Goes, LifeTypeOK
<1> QED BY <1>1, <1>2, Zenon

LEMMA TelemetryNames == \A k \in {1, 2} : <<"tracer", k>> \in Telemetry
  BY Zenon DEF Telemetry

\* Configure keeps the types; a provider that it leaves has a goroutine.
LEMMA ConfigureStep ==
  ASSUME LifeTypeOK, NEW k \in {1, 2}, NEW result \in ConfigureResult, Configure(k, result)
  PROVE  /\ isConfigure' \in BOOLEAN /\ tracer' \in BOOLEAN
         /\ server' \in {"none", "running", "ended"}
         /\ goroutine' \in [Telemetry \cup Worker -> {"none", "waiting", "woken", "ended"}]
         /\ \A g \in Telemetry \cup Worker : goroutine'[g] \in {"waiting", goroutine[g]}
         /\ tracer' => tracer \/ goroutine'[<<"tracer", k>>] = "waiting"
<1>1. isConfigure' \in BOOLEAN
  BY Zenon DEF Configure
<1>2. server' \in {"none", "running", "ended"}
  BY Zenon DEF Configure, LifeTypeOK
<1>3. PICK started : /\ Start(started)
                     /\ result \in {"ok", "initMetric"} => <<"tracer", k>> \in started
  BY Zenon DEF Configure, initTrace
<1>4. /\ goroutine' \in [Telemetry \cup Worker -> {"none", "waiting", "woken", "ended"}]
      /\ \A g \in Telemetry \cup Worker :
           goroutine'[g] = IF g \in started THEN "waiting" ELSE goroutine[g]
  BY <1>3, StartTyped, Zenon
<1>5. "initTrace" # "initConn" /\ "initMetric" # "initConn" /\ "initMetric" # "initTrace"
      /\ "ok" # "initConn" /\ "ok" # "initTrace"
  BY Zenon
<1>6. /\ result = "initConn" => tracer' = tracer
      /\ result = "initTrace" => tracer' = FALSE
      /\ result \in {"ok", "initMetric"} => tracer' = TRUE
  BY <1>5, Zenon DEF Configure
<1>7. tracer' \in BOOLEAN
  BY <1>6, Zenon DEF ConfigureResult, LifeTypeOK
<1>8. tracer' => tracer \/ goroutine'[<<"tracer", k>>] = "waiting"
  <2>1. CASE result \in {"ok", "initMetric"}
    BY <1>3, <1>4, <2>1, TelemetryNames, Zenon
  <2>2. CASE result \in {"initConn", "initTrace"}
    BY <1>6, <2>2, Zenon
  <2> QED BY <2>1, <2>2, Zenon DEF ConfigureResult
<1> QED BY <1>1, <1>2, <1>4, <1>7, <1>8, Zenon

\* The boot.
LEMMA BootStep ==
  ASSUME LifeInv, MainConfigure \/ MainNewTracer \/ MainCall \/ Booted
  PROVE  LifeInv'
<1> USE DEF LifeInv
<1>0. life = "booting" /\ Len(program.boot) \in Nat /\ at \in Nat /\ program' = program /\ done' = done
  <2>1. life = "booting" /\ program' = program /\ done' = done
    BY Zenon DEF MainConfigure, MainNewTracer, MainCall, Booted, Booting
  <2>2. Len(program.boot) \in Nat /\ at \in Nat
    BY ProgramBoots DEF LifeTypeOK
  <2> QED BY <2>1, <2>2, Zenon
<1>1. "dead" \notin {"booting", "serving", "interrupted"} /\ "booting" \notin {"serving", "interrupted"}
      /\ "closing" \notin {"booting", "serving", "interrupted"} /\ "serving" # "interrupted"
      /\ "Configure" # "NewTracer"
  BY Zenon
<1>2. CASE MainConfigure
  <2>1. PICK result \in ConfigureResult : Configure(1, result) /\ Goes(result = "ok" \/ Pending.error = "logged")
    BY <1>2, Zenon DEF MainConfigure
  <2>2. at <= Len(program.boot) /\ program.boot[at].name = "Configure" /\ service2' = service2
    BY <1>2, Zenon DEF MainConfigure, Booting, Pending
  <2>3. /\ isConfigure' \in BOOLEAN /\ tracer' \in BOOLEAN
        /\ server' \in {"none", "running", "ended"}
        /\ goroutine' \in [Telemetry \cup Worker -> {"none", "waiting", "woken", "ended"}]
        /\ \A g \in Telemetry \cup Worker : goroutine'[g] \in {"waiting", goroutine[g]}
        /\ tracer' => tracer \/ goroutine'[<<"tracer", 1>>] = "waiting"
    BY <2>1, ConfigureStep, Zenon
  <2>4. /\ at' \in 1 .. Len(program.boot) + 1
        /\ (at' = at + 1 /\ life' = life) \/ (life' = "dead" /\ at' = at)
    BY <2>1, <2>2, GoesOn, Zenon
  <2>5. LifeTypeOK'
    BY <1>0, <2>2, <2>3, <2>4, Zenon DEF LifeTypeOK
  <2>6. Waits'
    BY <1>0, <1>1, <2>3, <2>4, TelemetryNames, Zenon DEF Waits, Waiting
  <2>7. Traced'
    <3> SUFFICES ASSUME program.closes = "send" PROVE Traced'
      BY <1>0, Zenon DEF Traced
    <3>1. at = 1
      BY <1>0, <2>2, ProgramBoots DEF Traces, LifeTypeOK
    <3>2. ~(at' > 2)
      BY <2>4, <3>1
    <3> QED BY <1>0, <1>1, <2>2, <2>4, <3>2, Zenon DEF Traced
  <2> QED BY <1>0, <1>1, <2>4, <2>5, <2>6, <2>7, Zenon
<1>3. CASE MainNewTracer
  <2>1. /\ at <= Len(program.boot) /\ Goes(NewTracer)
        /\ UNCHANGED <<program, isConfigure, tracer, server, goroutine, service2, done>>
    BY <1>3, Zenon DEF MainNewTracer, Booting
  <2>2. /\ at' \in 1 .. Len(program.boot) + 1
        /\ (NewTracer /\ at' = at + 1 /\ life' = life) \/ (life' = "dead" /\ at' = at)
    BY <2>1, GoesOn, Zenon
  <2>3. LifeTypeOK'
    BY <2>1, <2>2, <1>0, Zenon DEF LifeTypeOK
  <2>4. Waits'
    BY <1>0, <2>1, Waiting, Waiting', Zenon DEF Waits, Waiting
  <2>5. Traced'
    BY <1>0, <1>1, <2>1, <2>2, Zenon DEF Traced, NewTracer
  <2> QED BY <1>0, <1>1, <2>2, <2>3, <2>4, <2>5, Zenon
<1>4. CASE MainCall
  <2>1. PICK ok : Goes(ok) /\ Start(IF ok THEN Pending.starts \X {0} ELSE {})
    BY <1>4, Zenon DEF MainCall
  <2>2. /\ at <= Len(program.boot) /\ program.boot[at].name \notin {"Configure", "NewTracer"}
        /\ service2' = IF program.boot[at].name = "startService1" THEN "ready" ELSE service2
        /\ UNCHANGED <<isConfigure, tracer, server>>
    BY <1>4, Zenon DEF MainCall, Pending
  <2>3. /\ goroutine' \in [Telemetry \cup Worker -> {"none", "waiting", "woken", "ended"}]
        /\ \A g \in Telemetry \cup Worker : goroutine'[g] \in {"waiting", goroutine[g]}
    BY <2>1, StartTyped, Zenon
  <2>4. /\ at' \in 1 .. Len(program.boot) + 1
        /\ (at' = at + 1 /\ life' = life) \/ (life' = "dead" /\ at' = at)
    BY <2>1, <2>2, GoesOn, Zenon
  <2>5. LifeTypeOK'
    BY <1>0, <2>2, <2>3, <2>4, Zenon DEF LifeTypeOK
  <2>6. Waits'
    BY <1>0, <1>1, <2>2, <2>3, <2>4, Zenon DEF Waits, Waiting
  <2>7. Traced'
    <3> SUFFICES ASSUME program.closes = "send" PROVE Traced'
      BY <1>0, Zenon DEF Traced
    <3>1. at > 2 /\ program.boot[at].name # "startService1"
      BY <1>0, <2>2, ProgramBoots DEF Traces, LifeTypeOK
    <3> QED BY <1>0, <1>1, <2>2, <2>4, <3>1, Zenon DEF Traced
  <2> QED BY <1>0, <1>1, <2>4, <2>5, <2>6, <2>7, Zenon
<1>5. CASE Booted
  <2>1. /\ at > Len(program.boot) /\ life' \in {"closing", "serving"}
        /\ UNCHANGED <<program, at, isConfigure, tracer, server, goroutine, service2, done>>
    BY <1>5, Zenon DEF Booted
  <2>2. LifeTypeOK'
    BY <2>1, Zenon DEF LifeTypeOK
  <2>3. Waits'
    BY <1>0, <2>1, Waiting, Waiting', Zenon DEF Waits, Waiting
  <2>4. program.closes = "send" => at > 2
    BY <1>0, <2>1, ProgramBoots DEF Traces, LifeTypeOK
  <2>5. Traced'
    BY <2>1, <2>4, Zenon DEF Traced
  <2> QED BY <1>1, <2>1, <2>2, <2>3, <2>5, Zenon
<1> QED BY <1>2, <1>3, <1>4, <1>5, Zenon

\* The second Configure is never that of a program that sends to done.
LEMMA Service2Step ==
  ASSUME LifeInv, Service2
  PROVE  LifeInv'
<1> USE DEF LifeInv
<1>1. PICK result \in ConfigureResult :
        Configure(2, result) /\ life' = IF result = "ok" THEN life ELSE "dead"
  BY Zenon DEF Service2
<1>2. service2 = "ready" /\ service2' = "ended" /\ UNCHANGED <<program, at, done>>
  BY Zenon DEF Service2
<1>3. /\ isConfigure' \in BOOLEAN /\ tracer' \in BOOLEAN
      /\ server' \in {"none", "running", "ended"}
      /\ goroutine' \in [Telemetry \cup Worker -> {"none", "waiting", "woken", "ended"}]
      /\ \A g \in Telemetry \cup Worker : goroutine'[g] \in {"waiting", goroutine[g]}
      /\ tracer' => tracer \/ goroutine'[<<"tracer", 2>>] = "waiting"
  BY <1>1, ConfigureStep, Zenon
<1>4. life' \in {life, "dead"}
  BY <1>1, Zenon
<1>5. "dead" \notin {"booting", "serving", "interrupted"} /\ "ready" # "none"
  BY Zenon
<1>6. LifeTypeOK'
  BY <1>2, <1>3, <1>4, Zenon DEF LifeTypeOK
<1>7. Waits'
  BY <1>2, <1>3, <1>4, <1>5, TelemetryNames, Zenon DEF Waits, Waiting
<1>8. Traced'
  BY <1>2, <1>5, Zenon DEF Traced
<1> QED BY <1>2, <1>4, <1>5, <1>6, <1>7, <1>8, Zenon

\* What only ends a life.
LEMMA LifeOnly ==
  ASSUME LifeInv, UNCHANGED <<program, at, isConfigure, tracer, server, goroutine, service2, done>>,
         \/ life' \in {"closing", "exited", "dead"}
         \/ life = "serving" /\ life' = "interrupted" /\ program.closes = "send"
  PROVE  LifeInv'
<1> USE DEF LifeInv
<1>1. \A w \in {"closing", "exited", "dead"} : w \notin {"booting", "serving", "interrupted"}
  BY Zenon
<1>2. LifeTypeOK'
  BY Zenon DEF LifeTypeOK
<1>3. Waits' /\ Traced'
  BY <1>1, Zenon DEF Waits, Waiting, Traced
<1> QED BY <1>2, <1>3, Zenon

\* The shutdown.
LEMMA ShutdownStep ==
  ASSUME LifeInv,
         \/ Interrupt \/ CloseDone \/ ListenAndServeFails \/ WorkerPanics \/ Exit
         \/ \E g \in DOMAIN goroutine : SendDone(g) \/ End(g) \/ Shutdown(g)
  PROVE  LifeInv'
<1> USE DEF LifeInv
<1>1. \A w \in {"closing", "waiting", "exited", "dead"} : w \notin {"booting", "serving", "interrupted"}
  BY Zenon
<1>2. CASE Interrupt
  <2>1. \/ life' \in {"closing", "exited", "dead"}
        \/ life = "serving" /\ life' = "interrupted" /\ program.closes = "send"
    BY <1>2, Zenon DEF Interrupt
  <2> QED BY <1>2, <2>1, LifeOnly, Zenon DEF Interrupt
<1>3. CASE ListenAndServeFails \/ WorkerPanics \/ Exit
  BY <1>3, LifeOnly, Zenon DEF ListenAndServeFails, WorkerPanics, Exit
<1>4. CASE CloseDone
  <2>1. done' \in BOOLEAN
    BY <1>4, Zenon DEF CloseDone
  <2> QED BY <1>1, <1>4, <2>1, Zenon DEF CloseDone, LifeTypeOK, Waits, Waiting, Traced
<1>5. ASSUME NEW g \in DOMAIN goroutine, SendDone(g) PROVE LifeInv'
  <2>1. goroutine' \in [Telemetry \cup Worker -> {"none", "waiting", "woken", "ended"}]
    BY <1>5, Zenon DEF SendDone, LifeTypeOK
  <2> QED BY <1>1, <1>5, <2>1, Zenon DEF SendDone, LifeTypeOK, Waits, Waiting, Traced
<1>6. ASSUME NEW g \in DOMAIN goroutine, End(g) \/ Shutdown(g) PROVE LifeInv'
  <2>1. life \notin {"booting", "serving", "interrupted"}
    <3>1. goroutine[g] = "woken" \/ done
      BY <1>6, Zenon DEF End, Shutdown, Awake
    <3>2. "woken" \notin {"none", "waiting"} /\ DOMAIN goroutine = Telemetry \cup Worker
      BY Zenon DEF LifeTypeOK
    <3> QED BY <3>1, <3>2, Zenon DEF Waits, Waiting
  <2>2. goroutine' \in [Telemetry \cup Worker -> {"none", "waiting", "woken", "ended"}]
    BY <1>6, Zenon DEF End, Shutdown, LifeTypeOK
  <2>3. life' \in {life, "dead"} /\ server' \in {server, "ended"}
        /\ UNCHANGED <<program, at, isConfigure, tracer, service2, done>>
    BY <1>6, Zenon DEF End, Shutdown
  <2>4. LifeTypeOK'
    BY <2>2, <2>3, Zenon DEF LifeTypeOK
  <2>5. Waits' /\ Traced'
    BY <1>1, <2>1, <2>3, Zenon DEF Waits, Waiting, Traced
  <2> QED BY <1>1, <2>1, <2>3, <2>4, <2>5, Zenon
<1> QED BY <1>2, <1>3, <1>4, <1>5, <1>6, Zenon

LEMMA LifeHolds == LifeSpec => []LifeInv
<1>1. LifeInv /\ [LifeNext]_lifeVars => LifeInv'
  <2> SUFFICES ASSUME LifeInv, [LifeNext]_lifeVars PROVE LifeInv'
    BY Zenon
  <2>1. CASE UNCHANGED lifeVars
    BY <2>1, ZenonT(40) DEF lifeVars, LifeInv, LifeTypeOK, Waits, Waiting, Traced
  <2> QED BY <2>1, BootStep, Service2Step, ShutdownStep, Zenon DEF LifeNext
<1> QED BY InitLife, <1>1, PTL DEF LifeSpec

\* A program that was interrupted and sends true to done has a receiver: the
\* send never blocks for want of one, because NewTracer panics in a program
\* whose Configure left no provider, and so no goroutine that waits for done.
SendHasReceiver ==
  life = "interrupted" => \E g \in Telemetry : goroutine[g] = "waiting"

\* In every interleaving of boot, workers and shutdown the send of
\* cmd/destination and of the worker finds a goroutine of the telemetry.
THEOREM InterruptFindsReceiver == LifeSpec => []SendHasReceiver
<1>1. LifeInv => SendHasReceiver
  BY Zenon DEF LifeInv, Waits, Waiting, Traced, SendHasReceiver
<1> QED BY LifeHolds, <1>1, PTL

-----------------------------------------------------------------------------
(* The declarations at the broker *)

\* How far NewChannel got: a declaration that was passed is in the broker, and a
\* channel was opened anew at most once for each.
DeclaredSoFar ==
  \A p \in Declarer :
    /\ ~up[p] => connection[p] < MaxLosses
    /\ connRead[p] <= connection[p]
    /\ making[p] \in {"read", "wait", "open", "exchange"} => reopened[p] = 0
    /\ making[p] = "queue" => reopened[p] <= 1 /\ exchange # "absent"
    /\ making[p] = "bind" => exchange # "absent" /\ queue # "absent"
    /\ making[p] = "started" => Started(p)

TopologyInv == TopologyTypeOK /\ DeclaredSoFar

LEMMA InitTopology == TopologyInit => TopologyInv
<1> SUFFICES ASSUME TopologyInit PROVE TopologyInv
  BY Zenon
<1>1. /\ connection = [p \in Declarer |-> 0] /\ connRead = [p \in Declarer |-> 0]
      /\ reopened = [p \in Declarer |-> 0]
      /\ making = [p \in Declarer |-> "read"]
      /\ exchange \in Entity /\ queue \in Entity
  BY Zenon DEF TopologyInit
<1>2. bound \in BOOLEAN /\ up \in [Declarer -> BOOLEAN] /\ \A p \in Declarer : up[p]
  BY Zenon DEF TopologyInit
<1>3. TopologyTypeOK
  BY <1>1, <1>2, LossesAssumption DEF TopologyTypeOK
<1>4. DeclaredSoFar
  BY <1>1, <1>2, LossesAssumption DEF DeclaredSoFar
<1> QED BY <1>3, <1>4, Zenon DEF TopologyInv

\* The connection of a process is lost or made again.
LEMMA ConnectionStep ==
  ASSUME TopologyInv, NEW p \in Declarer, LoseConnection(p) \/ Reconnect(p)
  PROVE  TopologyInv'
<1> USE LossesAssumption DEF TopologyInv, broker
<1>1. CASE LoseConnection(p)
  <2> USE <1>1 DEF LoseConnection
  <2>1. TopologyTypeOK' BY Zenon DEF TopologyTypeOK
  <2>2. DeclaredSoFar' BY Zenon DEF TopologyTypeOK, DeclaredSoFar, Started
  <2> QED BY <2>1, <2>2, Zenon
<1>2. CASE Reconnect(p)
  <2> USE <1>2 DEF Reconnect
  <2>1. TopologyTypeOK' BY DEF TopologyTypeOK, DeclaredSoFar
  <2>2. DeclaredSoFar' BY DEF TopologyTypeOK, DeclaredSoFar, Started
  <2> QED BY <2>1, <2>2, Zenon
<1> QED BY <1>1, <1>2, Zenon

\* newChannelWithContext before its first declaration.
LEMMA ChannelStep ==
  ASSUME TopologyInv, NEW p \in Declarer,
         ReadConnection(p) \/ WaitForConnection(p) \/ OpenChannel(p)
  PROVE  TopologyInv'
<1> USE DEF TopologyInv, broker, Reaches
<1>1. CASE ReadConnection(p)
  <2> USE <1>1 DEF ReadConnection
  <2>1. TopologyTypeOK' BY Zenon DEF TopologyTypeOK
  <2>2. DeclaredSoFar' BY LossesAssumption DEF TopologyTypeOK, DeclaredSoFar, Started
  <2> QED BY <2>1, <2>2, Zenon
<1>2. CASE WaitForConnection(p)
  <2> USE <1>2 DEF WaitForConnection
  <2>1. TopologyTypeOK' BY Zenon DEF TopologyTypeOK
  <2>2. DeclaredSoFar' BY Zenon DEF TopologyTypeOK, DeclaredSoFar, Started
  <2> QED BY <2>1, <2>2, Zenon
<1>3. CASE OpenChannel(p)
  <2> USE <1>3 DEF OpenChannel, Lost
  <2>1. TopologyTypeOK' BY Zenon DEF TopologyTypeOK
  <2>2. DeclaredSoFar' BY Zenon DEF TopologyTypeOK, DeclaredSoFar, Started
  <2> QED BY <2>1, <2>2, Zenon
<1> QED BY <1>1, <1>2, <1>3, Zenon

\* A declaration of an entity e, left as f: it is there when the process goes on,
\* and one channel was opened anew at most.
LEMMA DeclareIs ==
  ASSUME TopologyTypeOK, NEW p \in Declarer, NEW e \in Entity, NEW f, NEW target, Declare(p, e, f, target)
  PROVE  /\ f \in Entity
         /\ e # "absent" => f # "absent"
         /\ (making' = [making EXCEPT ![p] = target] /\ f # "absent")
            \/ making' = [making EXCEPT ![p] = "failed"]
         /\ reopened' = reopened \/ reopened' = [reopened EXCEPT ![p] = @ + 1]
<1>1. e \in {"absent", "declared", "other"}
  BY Zenon DEF Entity
<1>2. CASE Usable(p) /\ e # "other" /\ f = "declared" /\ Reaches(p, target) /\ UNCHANGED reopened
  BY <1>1, <1>2, Zenon DEF Reaches, Entity
<1>3. CASE /\ Usable(p) /\ f = e
           /\ reopened' = [reopened EXCEPT ![p] = @ + 1]
           /\ (e # "absent" /\ Reaches(p, target)) \/ Reaches(p, "failed")
  BY <1>1, <1>3, Zenon DEF Reaches, Entity
<1>4. CASE Lost(p) /\ f = e /\ UNCHANGED reopened
  BY <1>1, <1>4, Zenon DEF Lost, Reaches, Entity
<1> QED BY <1>2, <1>3, <1>4, Zenon DEF Declare

\* The declarations and the binding.
LEMMA DeclarationStep ==
  ASSUME TopologyInv, NEW p \in Declarer,
         declareExchange(p) \/ declareQueue(p) \/ bindExchangeToQueue(p)
  PROVE  TopologyInv'
<1> USE DEF TopologyInv
<1>0. exchange \in Entity /\ queue \in Entity
  BY Zenon DEF TopologyTypeOK
<1>1. CASE declareExchange(p)
  <2>1. /\ making[p] = "exchange"
        /\ UNCHANGED <<connection, up, connRead, queue, bound>>
        /\ exchange' \in Entity
        /\ exchange # "absent" => exchange' # "absent"
        /\ (making' = [making EXCEPT ![p] = "queue"] /\ exchange' # "absent")
           \/ making' = [making EXCEPT ![p] = "failed"]
        /\ reopened' = reopened \/ reopened' = [reopened EXCEPT ![p] = @ + 1]
    BY <1>0, <1>1, DeclareIs, Zenon DEF declareExchange
  <2>2. TopologyTypeOK' BY <2>1, SMTT(30) DEF TopologyTypeOK, DeclaredSoFar
  <2>3. DeclaredSoFar' BY <2>1, SMTT(30) DEF TopologyTypeOK, DeclaredSoFar, Started
  <2> QED BY <2>2, <2>3, Zenon
<1>2. CASE declareQueue(p)
  <2>1. /\ making[p] = "queue"
        /\ UNCHANGED <<connection, up, connRead, exchange, bound>>
        /\ queue' \in Entity
        /\ queue # "absent" => queue' # "absent"
        /\ (making' = [making EXCEPT ![p] = "bind"] /\ queue' # "absent")
           \/ making' = [making EXCEPT ![p] = "failed"]
        /\ reopened' = reopened \/ reopened' = [reopened EXCEPT ![p] = @ + 1]
    BY <1>0, <1>2, DeclareIs, Zenon DEF declareQueue
  <2>2. TopologyTypeOK' BY <2>1, SMTT(30) DEF TopologyTypeOK, DeclaredSoFar
  <2>3. DeclaredSoFar' BY <2>1, SMTT(30) DEF TopologyTypeOK, DeclaredSoFar, Started
  <2> QED BY <2>2, <2>3, Zenon
<1>3. CASE bindExchangeToQueue(p)
  <2> USE <1>3 DEF bindExchangeToQueue, Reaches
  <2>1. TopologyTypeOK' BY Zenon DEF TopologyTypeOK
  <2>2. DeclaredSoFar' BY Zenon DEF TopologyTypeOK, DeclaredSoFar, Started
  <2> QED BY <2>1, <2>2, Zenon
<1> QED BY <1>1, <1>2, <1>3, Zenon

LEMMA TopologyHolds == TopologySpec => []TopologyInv
<1>1. TopologyInv /\ [TopologyNext]_topologyVars => TopologyInv'
  <2> SUFFICES ASSUME TopologyInv, [TopologyNext]_topologyVars PROVE TopologyInv'
    BY Zenon
  <2>1. CASE UNCHANGED topologyVars
    BY <2>1, Zenon DEF topologyVars, TopologyInv, TopologyTypeOK, DeclaredSoFar, Started
  <2>2. CASE TopologyNext
    BY <2>2, ConnectionStep, ChannelStep, DeclarationStep, Zenon DEF TopologyNext, newChannelWithContext
  <2> QED BY <2>1, <2>2, Zenon
<1> QED BY InitTopology, <1>1, PTL DEF TopologySpec

\* NewChannel of the RabbitMQ adapter: a started channel has its exchange, its
\* queue and their binding, for any number of processes that declare the same
\* names, any lost connections and any refusals of the broker.  What it declared
\* on the way is still there when it binds.
THEOREM ChannelsAreDeclared ==
  TopologySpec => [](\A p \in Declarer : /\ making[p] = "started" => Started(p)
                                         /\ making[p] = "bind" => exchange # "absent" /\ queue # "absent")
<1>1. TopologyInv => \A p \in Declarer : /\ making[p] = "started" => Started(p)
                                         /\ making[p] = "bind" => exchange # "absent" /\ queue # "absent"
  BY Zenon DEF TopologyInv, DeclaredSoFar
<1> QED BY <1>1, TopologyHolds, PTL
=============================================================================
