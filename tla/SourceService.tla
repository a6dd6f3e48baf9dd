----------------------------- MODULE SourceService -----------------------------
(***************************************************************************)
(* Sources in the manager: the handlers under /sources, the validators, the  *)
(* source service and its only repository, sourcemock.                       *)
(*                                                                          *)
(* The repository is a slice of pointers: the service changes the source it  *)
(* looked up in place, and the repository then stores the pointer in the      *)
(* first slot whose source has the given id.  heap holds the sources, slots   *)
(* the slice.  CreateSource gives every source the id "".                     *)
(*                                                                          *)
(* Calls come over HTTP, or from code that holds the service and the          *)
(* validator, one after the other, as the tests of both packages do.         *)
(*                                                                          *)
(* Source: src/manager/delivery/httpserver/{middleware,sourcehandler},        *)
(*         src/manager/service/{sourceservice,authservice},                   *)
(*         src/manager/validator/sourcevalidator,                             *)
(*         src/manager/mockRepo/sourcemock                                    *)
(***************************************************************************)
EXTENDS RichError, Jwt, FiniteSets

CONSTANTS
  Owner,       \* user ids, the owner of the default source among them
  Name,        \* names of sources; one of them may be the text of an id
  MaxSources,  \* bound on the sources ever created
  MaxCalls     \* bound on the calls

DefaultOwner == "owner_id"
DefaultID == "source_id"

ID == {"", DefaultID}

\* What is assumed of the constants: the mock repository holds the default source.
ASSUME SourceAssumption ==
  /\ DefaultOwner \in Owner
  /\ MaxSources \in Nat \ {0}
  /\ MaxCalls \in Nat

VARIABLES
  repoErr,  \* MockRepo.hasErr: the repository fails every call
  heap,     \* every Source ever allocated
  slots,    \* MockRepo.sources: indexes of heap
  caller,   \* the user of the last call, "http" for a request
  outcome,  \* its outcome: an HTTP status, or 0 for success in code
  updated,  \* history: the ids that an update has succeeded for
  deleted,  \* history: the ids that a delete has succeeded for
  calls     \* calls so far

sourceVars == <<repoErr, heap, slots, caller, outcome, updated, deleted, calls>>

Source(id, name, owner) == [id |-> id, name |-> name, owner |-> owner]

\* The zero Source that DeleteSource leaves in the slot.
Tombstone == Source("", "", "")

SourceInit ==
  /\ repoErr \in BOOLEAN
  /\ heap = <<Source(DefaultID, "name name", DefaultOwner)>>
  /\ slots = <<1>>
  /\ caller = DefaultOwner
  /\ outcome = 0
  /\ updated = {}
  /\ deleted = {}
  /\ calls = 0

-----------------------------------------------------------------------------
(* The repository *)

\* The first slot whose source satisfies a condition, 0 if there is none.
First(Test(_)) ==
  LET hits == {i \in DOMAIN slots : Test(heap[slots[i]])}
  IN  IF hits = {} THEN 0 ELSE Min(hits)

IsSourceAlreadyCreatedByName(name) == First(LAMBDA s : s.name = name) # 0

GetUserSourceByID(owner, id) == First(LAMBDA s : s.id = id /\ s.owner = owner)

SlotOf(id) == First(LAMBDA s : s.id = id)

-----------------------------------------------------------------------------
(* The validators; the length and format rules are left to the forms *)

\* validation.By(v.isSourceAlreadyCreated): an error of the repository counts.
isSourceAlreadyCreated(value) == repoErr \/ IsSourceAlreadyCreatedByName(value)

ValidateCreateSourceForm(wellFormed, name) == wellFormed /\ ~isSourceAlreadyCreated(name)

ValidateUpdateSourceForm(wellFormed) == wellFormed

\* The id to delete is looked up among the names.
ValidateIDToDelete(id) == ~isSourceAlreadyCreated(id)

-----------------------------------------------------------------------------
(* The service *)

Unchanged == UNCHANGED <<heap, slots, updated, deleted>>

\* CreateSource and, with it, InsertSource.
CreateSource(name, owner) ==
  IF repoErr THEN outcome' = 500 /\ Unchanged
  ELSE /\ Len(heap) < MaxSources
       /\ heap' = Append(heap, Source("", name, owner))
       /\ slots' = Append(slots, Len(heap'))
       /\ outcome' = 0
       /\ UNCHANGED <<updated, deleted>>

\* Mutant: the pointer is stored in the slot after the one that was found.
UpdateSourceAfter(owner, id, name) ==
  LET slot == GetUserSourceByID(owner, id) IN
  IF repoErr \/ slot = 0 THEN outcome' = 400 /\ Unchanged
  ELSE /\ heap' = [heap EXCEPT ![slots[slot]].name = name]
       /\ slots' = [slots EXCEPT ![(SlotOf(id) % Len(slots)) + 1] = slots[slot]]
       /\ outcome' = 0
       /\ updated' = updated \cup {id}
       /\ UNCHANGED deleted

\* The source that GetUserSourceByID points to is changed in place; then the
\* pointer is stored in the first slot that has the id.
UpdateSource(owner, id, name) ==
  LET slot == GetUserSourceByID(owner, id) IN
  IF repoErr \/ slot = 0 THEN outcome' = 400 /\ Unchanged
  ELSE /\ heap' = [heap EXCEPT ![slots[slot]].name = name]
       /\ slots' = [slots EXCEPT ![SlotOf(id)] = slots[slot]]
       /\ outcome' = 0
       /\ updated' = updated \cup {id}
       /\ UNCHANGED deleted

\* The owner is not looked at.
DeleteSource(id) ==
  IF repoErr \/ SlotOf(id) = 0 THEN outcome' = 400 /\ Unchanged
  ELSE /\ Len(heap) < MaxSources
       /\ heap' = Append(heap, Tombstone)
       /\ slots' = [slots EXCEPT ![SlotOf(id)] = Len(heap')]
       /\ outcome' = 0
       /\ deleted' = deleted \cup {id}
       /\ UNCHANGED updated

\* Calls from code: the validator first, then the service.
CallCreate(owner, name) ==
  /\ calls < MaxCalls /\ calls' = calls + 1 /\ caller' = owner
  /\ ValidateCreateSourceForm(TRUE, name)
  /\ CreateSource(name, owner)
  /\ UNCHANGED repoErr

CallUpdate(owner, id, name) ==
  /\ calls < MaxCalls /\ calls' = calls + 1 /\ caller' = owner
  /\ ValidateUpdateSourceForm(TRUE)
  /\ UpdateSource(owner, id, name)
  /\ UNCHANGED repoErr

CallDelete(owner, id) ==
  /\ calls < MaxCalls /\ calls' = calls + 1 /\ caller' = owner
  /\ ValidateIDToDelete(id)
  /\ DeleteSource(id)
  /\ UNCHANGED repoErr

-----------------------------------------------------------------------------
(* The routes under /sources *)

\* The manager signs its tokens with the configured secret; New leaves the
\* source handler of the server, and with it the JWT that its routes use, zero.
ManagerJWT == NewJWT("secret", 7, 28)
HandlerJWT == NewJWT("", 0, 0)

NoToken == [key |-> "no cookie, or an empty one"]

Cookie == {NoToken} \cup {CreateAccessToken(ManagerJWT, o) : o \in Owner}

Nobody == [type |-> "nil", value |-> ""]

\* Decoding base64 gives bytes, and they are stored in the context as bytes.
DecodeString(encoded) == [type |-> "bytes", value |-> encoded.base64]

\* GetTokenFromCookie: the status it answers, or 0 and the user id it sets.
GetTokenFromCookie(cookie) ==
  CASE cookie = NoToken -> [status |-> 400, userID |-> Nobody]
    [] cookie # NoToken /\ ~ParseToken(HandlerJWT, cookie) -> [status |-> 500, userID |-> Nobody]
    [] OTHER -> [status |-> 0, userID |-> DecodeString(cookie.userID)]

\* Every handler first takes the user id from the context as a string.
IsString(userID) == userID.type = "string"

Refuse(status) == outcome' = status /\ Unchanged

CreateHandler(userID, wellFormed, name) ==
  IF ~IsString(userID) THEN Refuse(500)
  ELSE IF ~ValidateCreateSourceForm(wellFormed, name) THEN Refuse(400)
  ELSE CreateSource(name, userID.value)

UpdateHandler(userID, id, wellFormed, name) ==
  IF ~IsString(userID) THEN Refuse(500)
  ELSE IF ~ValidateUpdateSourceForm(wellFormed) THEN Refuse(400)
  ELSE UpdateSource(userID.value, id, name)

DeleteHandler(userID, id) ==
  IF ~IsString(userID) THEN Refuse(500)
  ELSE IF ~ValidateIDToDelete(id) THEN Refuse(400)
  ELSE DeleteSource(id)

HTTP ==
  /\ calls < MaxCalls /\ calls' = calls + 1 /\ caller' = "http"
  /\ UNCHANGED repoErr

PostSources(cookie, wellFormed, name) ==
  LET auth == GetTokenFromCookie(cookie) IN
  /\ HTTP
  /\ IF auth.status # 0 THEN Refuse(auth.status)
     ELSE CreateHandler(auth.userID, wellFormed, name)

PostSource(cookie, id, wellFormed, name) ==
  LET auth == GetTokenFromCookie(cookie) IN
  /\ HTTP
  /\ IF auth.status # 0 THEN Refuse(auth.status)
     ELSE UpdateHandler(auth.userID, id, wellFormed, name)

\* The route of DELETE has no middleware.
DeleteRoute(id) == HTTP /\ DeleteHandler(Nobody, id)

SourceNext ==
  \/ \E o \in Owner, n \in Name : CallCreate(o, n)
  \/ \E o \in Owner, i \in ID, n \in Name : CallUpdate(o, i, n)
  \/ \E o \in Owner, i \in ID : CallDelete(o, i)
  \/ \E c \in Cookie, b \in BOOLEAN, n \in Name : PostSources(c, b, n)
  \/ \E c \in Cookie, i \in ID, b \in BOOLEAN, n \in Name : PostSource(c, i, b, n)
  \/ \E i \in ID : DeleteRoute(i)

SourceSpec == SourceInit /\ [][SourceNext]_sourceVars

-----------------------------------------------------------------------------
(* Properties *)

Listed == {slots[i] : i \in DOMAIN slots}

\* The type of every variable of the sources.
SourceTypeOK ==
  /\ repoErr \in BOOLEAN
  /\ heap \in Seq([id : ID, name : Name \cup {"", "name name"}, owner : Owner \cup {""}])
  /\ Len(heap) <= MaxSources
  /\ slots \in Seq(1 .. Len(heap))
  /\ caller \in Owner \cup {"http"}
  /\ outcome \in {0, 400, 500}
  /\ updated \subseteq ID /\ deleted \subseteq ID
  /\ calls \in 0 .. MaxCalls

\* A source that is in no slot any more was deleted, or was displaced by an
\* update of another source with the id "": with any other id no sequence of
\* creates and updates loses a source.
LostHasCause ==
  \A k \in DOMAIN heap \ Listed :
    \/ heap[k].id \in deleted
    \/ heap[k].id = "" /\ "" \in updated
=============================================================================
