------------------------------- MODULE MCManager -------------------------------
(***************************************************************************)
(* The internal broker, the accounts and the sources of the manager, each    *)
(* checked by itself: a behaviour is one of the broker, one of the accounts  *)
(* or one of the sources.                                                    *)
(*                                                                          *)
(* Accounts: two registrations of one email with different passwords and a   *)
(* login with the password of one of them, beside a registration with a weak *)
(* password and a login whose email is malformed.                            *)
(***************************************************************************)
EXTENDS SimpleChannel, Manager, TLC

CONSTANTS
  r1, r2, r3, l1, l2, ann, pw1, pw2,
  Focus  \* the parts of the manager that are checked

MCRegistration == {r1, r2, r3}
MCLogin == {l1, l2}
MCEmailOf == [r \in MCRegistration \cup MCLogin |-> ann]
MCPasswordOf == r1 :> pw1 @@ r2 :> pw2 @@ r3 :> pw1 @@ l1 :> pw1 @@ l2 :> pw2
MCFormOf == r1 :> "ok" @@ r2 :> "ok" @@ r3 :> "badField" @@ l1 :> "ok" @@ l2 :> "badEmail"

VARIABLE focus  \* the part of the manager that this behaviour is about

allVars == <<focus, vars, userVars, sourceVars>>

MCInit ==
  /\ focus \in Focus
  /\ Init /\ UserInit /\ SourceInit
  /\ focus # "broker" => ~hasErr
  /\ focus # "sources" => ~repoErr

Broker == focus = "broker" /\ UNCHANGED <<focus, userVars, sourceVars>>

Accounts == focus = "accounts" /\ UNCHANGED <<focus, vars, sourceVars>>

Sources == focus = "sources" /\ UNCHANGED <<focus, vars, userVars>>

MCNext ==
  \/ Broker /\ Next
  \/ Accounts /\ UserNext
  \/ Sources /\ SourceNext

\* The fairness of SimpleChannel: its actions are disabled in the other parts.
MCSpec == MCInit /\ [][MCNext]_allVars /\ Fairness
=============================================================================
