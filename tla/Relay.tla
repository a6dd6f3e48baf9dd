--------------------------------- MODULE Relay ---------------------------------
(***************************************************************************)
(* What a relay promises: the abstract specification that the plain task      *)
(* manager (PlainTaskManager), the broker library (BrokerLibrary) and the     *)
(* channel converter (Converter) are shown to implement.                     *)
(*                                                                          *)
(* A relay moves messages from a source to a destination.  While a message    *)
(* that was taken is unsettled, the source may offer it again, so that there  *)
(* may be several copies of it; once it is settled and no copy is left, it    *)
(* never comes back.  A message is sent twice only if it was offered again,   *)
(* and one that cannot be decoded is never sent.                             *)
(***************************************************************************)

CONSTANTS
  Message,  \* the messages
  Garbled   \* those that cannot be decoded

VARIABLES
  published,  \* the messages published so far
  offered,    \* those that the source offers
  held,       \* those that the relay has a copy of
  sent,       \* those that were sent
  unsettled,  \* those taken that the source may offer again
  returned    \* history: those that it did offer again

relayVars == <<published, offered, held, sent, unsettled, returned>>

Init ==
  /\ published = {} /\ offered = {} /\ held = {} /\ sent = {} /\ unsettled = {}
  /\ returned = {}

\* New messages are published; some of them never arrive.
Publish ==
  \E new \in SUBSET (Message \ published) : \E arrived \in SUBSET new :
    /\ published' = published \cup new
    /\ offered' = offered \cup arrived
    /\ UNCHANGED <<held, sent, unsettled, returned>>

\* The relay takes a message, to send it or, if it is garbled, to drop it.
Take(m) ==
  /\ m \in offered
  /\ offered' = offered \ {m}
  /\ held' = IF m \in Garbled THEN held ELSE held \cup {m}
  /\ unsettled' \in {unsettled, unsettled \cup {m}}
  /\ UNCHANGED <<published, sent, returned>>

\* It sends its copy; only of a message that was offered again it may have
\* another one left.
Send(m) ==
  /\ m \in held
  /\ \/ held' = held \ {m}
     \/ m \in returned /\ held' = held
  /\ sent' = sent \cup {m}
  /\ UNCHANGED <<published, offered, unsettled, returned>>

\* The source learns that the message was taken.
Settle(m) ==
  /\ m \in unsettled
  /\ unsettled' = unsettled \ {m}
  /\ UNCHANGED <<published, offered, held, sent, returned>>

\* The relay or its connection breaks: the source offers unsettled messages
\* again, and messages that were not sent may be lost.
Break ==
  \E back \in SUBSET unsettled : \E lost \in SUBSET offered :
    /\ offered' = (offered \ lost) \cup back
    /\ unsettled' \in SUBSET (unsettled \ back)
    /\ held' \in SUBSET held
    /\ returned' = returned \cup back
    /\ UNCHANGED <<published, sent>>

Next ==
  \/ Publish
  \/ \E m \in Message : Take(m) \/ Send(m) \/ Settle(m)
  \/ Break

Spec == Init /\ [][Next]_relayVars

-----------------------------------------------------------------------------

\* No copy of a published message is left that could still be sent.
Gone(m) == m \in published /\ m \notin offered \cup held \cup unsettled

\* Once no copy of a message is left, whether it was sent or not, none appears
\* again and it is not sent any more.
GoneForever ==
  [][\A m \in Message : Gone(m) => Gone(m)' /\ (m \in sent' => m \in sent)]_relayVars

\* A message that was sent is on its way a second time only if the source
\* offered it again: every other message is sent at most once.
SentOnce == \A m \in sent : m \in offered \cup held => m \in returned
=============================================================================
