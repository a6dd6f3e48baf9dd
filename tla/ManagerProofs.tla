----------------------------- MODULE ManagerProofs -----------------------------
(***************************************************************************)
(* Proofs about the accounts and the sources of the manager.                *)
(*                                                                          *)
(* The accounts: how far a request is tells what was stored and answered,    *)
(* and what a registration on its way to the insert has not seen.           *)
(*                                                                          *)
(* The sources: only the first one has an id that is not "", so an update    *)
(* by that id displaces nothing.                                            *)
(***************************************************************************)
EXTENDS Manager, WellFoundedInduction, TLAPS

-----------------------------------------------------------------------------
(* Accounts *)

\* An email has a row once a registration with it was stored, and the row is
\* that of a stored registration with this email.
Rows ==
  /\ \A q \in Stored : users[EmailOf[q]] # NoUser
  /\ \A e \in Email : users[e] # NoUser => users[e] \in Stored /\ EmailOf[users[e]] = e

\* How far a request is tells what was stored and answered.
Progress ==
  /\ \A q \in Request : answer[q] # 0 => step[q] = "done"
  /\ \A q \in Stored : step[q] \in {"send", "done", "dead"}
  /\ \A q \in Registration : step[q] = "send" \/ answer[q] = 201 => q \in Stored
  /\ \A l \in Login : created[l] \subseteq Stored

\* A registration on its way to the insert saw no row of its email.
Unseen ==
  \A r \in Registration :
    step[r] \in {"hash", "insert"} /\ r \notin misled =>
      \A q \in ahead[r] : EmailOf[q] # EmailOf[r]

\* The row that a login has read is that of a stored user with its email.
ReadRow ==
  \A l \in Login :
    step[l] = "check" \/ answer[l] = 200 =>
      found[l] \in Stored /\ EmailOf[found[l]] = EmailOf[l]

\* A login that was answered 200 had the password of the row it read.
Owners == \A l \in Login : answer[l] = 200 => PasswordOf[l] = PasswordOf[found[l]]

AccountInv ==
  Rows /\ Progress /\ Unseen /\ ReadRow /\ Owners /\ OverwrittenHasCause /\ RefusedHasCause

\* An error of one node stays one when its message or its kind is set, and is the
\* first of two when it wraps another.
LEMMA MessageSet ==
  ASSUME NEW n, NEW m PROVE WithMessage(<<n>>, m) = <<[n EXCEPT !.message = m]>>
<1> DEFINE v == [n EXCEPT !.message = m]
<1>1. WithMessage(<<n>>, m) = [<<n>> EXCEPT ![1] = v]
  BY Zenon DEF WithMessage
<1> HIDE DEF v
<1>2. [<<n>> EXCEPT ![1] = v] = <<v>>
  OBVIOUS
<1> QED BY <1>1, <1>2, Zenon DEF v

LEMMA KindSet ==
  ASSUME NEW n, NEW k PROVE WithKind(<<n>>, k) = <<[n EXCEPT !.kind = k]>>
<1> DEFINE v == [n EXCEPT !.kind = k]
<1>1. WithKind(<<n>>, k) = [<<n>> EXCEPT ![1] = v]
  BY Zenon DEF WithKind
<1> HIDE DEF v
<1>2. [<<n>> EXCEPT ![1] = v] = <<v>>
  OBVIOUS
<1> QED BY <1>1, <1>2, Zenon DEF v

LEMMA ErrorWrapped ==
  ASSUME NEW n, NEW m
  PROVE  /\ Head(WithWrappedError(<<n>>, <<m>>)) = n
         /\ WithWrappedError(<<n>>, <<m>>)[1] = n
         /\ WithWrappedError(<<n>>, <<m>>)[2] = m
         /\ DOMAIN WithWrappedError(<<n>>, <<m>>) = {1, 2}
         /\ WithWrappedError(<<n>>, << >>) = <<n>>
<1>1. Head(<<n>>) = n
  OBVIOUS
<1>2. /\ Head(<<n>> \o <<m>>) = n /\ (<<n>> \o <<m>>)[1] = n /\ (<<n>> \o <<m>>)[2] = m
      /\ DOMAIN (<<n>> \o <<m>>) = {1, 2} /\ <<n>> \o << >> = <<n>>
  OBVIOUS
<1> QED BY <1>1, <1>2, Zenon DEF WithWrappedError

\* The HTTP codes of the errors on the way.
LEMMA Codes ==
  /\ HttpCode(ValidationError) = 422
  /\ LoginCode(WithWrappedError(New, Plain("gocql"))) = 400
  /\ LoginCode(WithMessage(WithWrappedError(New, Nil), ErrWrongCredentials)) = 401
<1> DEFINE zero == [rich |-> TRUE, message |-> "", kind |-> 0]
           plain(m) == [rich |-> FALSE, message |-> m, kind |-> 0]
           wrong == [zero EXCEPT !.message = ErrWrongCredentials]
           top == [[zero EXCEPT !.message = ErrorMsgInvalidInput] EXCEPT !.kind = 1]
           low == plain("validation.Errors")
           e == WithWrappedError(<<top>>, <<low>>)
<1>1. wrong.message = ErrWrongCredentials
  BY Zenon
<1>2. top.kind = 1 /\ top.rich = TRUE /\ low.rich = FALSE
  BY Zenon
<1>3. zero.message = ""
  BY Zenon
<1> HIDE DEF zero, plain, wrong, top, low
<1>4. New = <<zero>> /\ Nil = << >> /\ \A m : Plain(m) = <<plain(m)>>
  BY Zenon DEF New, Nil, Plain, zero, plain
<1>5. LoginCode(WithWrappedError(New, Plain("gocql"))) = 400
  <2>1. Head(WithWrappedError(<<zero>>, <<plain("gocql")>>)) = zero
    BY ErrorWrapped, Zenon
  <2>2. "" # ErrWrongCredentials
    BY Zenon DEF ErrWrongCredentials
  <2>3. ErrorText(WithWrappedError(New, Plain("gocql"))) = ""
    BY <1>3, <1>4, <2>1, Zenon DEF ErrorText
  <2>4. ErrorText(WithWrappedError(New, Plain("gocql"))) # ErrWrongCredentials
    BY <2>2, <2>3, Zenon
  <2> QED BY <2>4, Zenon DEF LoginCode
<1>6. LoginCode(WithMessage(WithWrappedError(New, Nil), ErrWrongCredentials)) = 401
  <2>1. WithWrappedError(<<zero>>, << >>) = <<zero>>
    BY ErrorWrapped, Zenon
  <2>2. WithMessage(<<zero>>, ErrWrongCredentials) = <<wrong>>
    BY MessageSet, Zenon DEF wrong
  <2>3. Head(<<wrong>>) = wrong
    OBVIOUS
  <2>4. WithMessage(WithWrappedError(New, Nil), ErrWrongCredentials) = <<wrong>>
    BY <1>4, <2>1, <2>2, Zenon
  <2>5. ErrorText(<<wrong>>) = ErrWrongCredentials
    BY <1>1, <2>3, Zenon DEF ErrorText
  <2> QED BY <2>4, <2>5, Zenon DEF LoginCode
<1>7. HttpCode(ValidationError) = 422
  <2>1. ValidationError = e
    <3>1. WithMessage(<<zero>>, ErrorMsgInvalidInput)
            = <<[zero EXCEPT !.message = ErrorMsgInvalidInput]>>
      BY MessageSet, Zenon
    <3>2. WithKind(<<[zero EXCEPT !.message = ErrorMsgInvalidInput]>>, 1) = <<top>>
      BY KindSet, Zenon DEF top
    <3> QED BY <1>4, <3>1, <3>2, Zenon DEF ValidationError, KindInvalid, low
  <2> HIDE DEF e
  <2>2. Head(e) = top /\ e[1] = top /\ e[2] = low /\ DOMAIN e = {1, 2}
    BY ErrorWrapped, Zenon DEF e
  <2>3. e # Nil
    <3>1. DOMAIN << >> = {}
      OBVIOUS
    <3> QED BY <2>2, <3>1, Zenon DEF Nil
  <2>4. AsRichError(e)
    BY <1>2, <2>2, <2>3, Zenon DEF AsRichError
  <2>5. Reached(e) = {1}
    <3>1. 1 .. 1 = {1} /\ 1 .. 2 = {1, 2}
      OBVIOUS
    <3>2. e[1].rich /\ ~e[2].rich
      BY <1>2, <2>2, Zenon
    <3>3. \A i \in {1, 2} : (\A j \in 1 .. i : e[j].rich) <=> i = 1
      BY <3>1, <3>2, Zenon
    <3> QED BY <2>2, <3>3, Zenon DEF Reached
  <2>6. {i \in Reached(e) : e[i].kind # 0} = {1}
    BY <1>2, <2>2, <2>5, Zenon
  <2>7. (CHOOSE i \in {1} : \A j \in {1} : i <= j) = 1
    OBVIOUS
  <2>8. KindOf(e) = 1
    <3> DEFINE with == {i \in Reached(e) : e[i].kind # 0}
    <3>1. KindOf(e) = IF with = {} THEN 0
                        ELSE e[CHOOSE i \in with : \A j \in with : i <= j].kind
      BY Zenon DEF KindOf
    <3>2. with = {1}
      BY <2>6, Zenon
    <3> HIDE DEF with
    <3>3. with # {}
      BY <3>2, Zenon
    <3>4. (CHOOSE i \in with : \A j \in with : i <= j) = 1
      BY <2>7, <3>2, Zenon
    <3> QED BY <1>2, <2>2, <3>1, <3>3, <3>4, Zenon
  <2>9. mapKindToHTTPStatusCode(1) = 422
    BY DEF mapKindToHTTPStatusCode, KindInvalid, KindNotFound, KindForbidden,
           KindUnexpected
  <2> QED BY <2>1, <2>4, <2>8, <2>9, Zenon DEF HttpCode
<1> QED BY <1>5, <1>6, <1>7, Zenon

-----------------------------------------------------------------------------

LEMMA Requests ==
  /\ \A r \in Registration : r \in Request /\ r \notin Login /\ r # NoUser
  /\ \A l \in Login : l \in Request /\ l \notin Registration
  /\ \A q \in Request : EmailOf[q] \in Email /\ FormOf[q] \in Form
  /\ MaxFailures \in Nat /\ MaxCrashes \in Nat
  BY UserAssumption, Zenon DEF Request, Email

LEMMA StoredTypes ==
  ASSUME UserTypeOK
  PROVE  /\ Stored \subseteq Registration
         /\ \A i \in DOMAIN writes : writes[i] \in Stored
  BY DEF UserTypeOK, Stored

\* An insert adds the registration to what was stored.
LEMMA StoredGrows ==
  ASSUME UserTypeOK, NEW r \in Registration, writes' = Append(writes, r)
  PROVE  /\ Stored' = Stored \cup {r}
         /\ DOMAIN writes' = DOMAIN writes \cup {Len(writes) + 1}
         /\ writes'[Len(writes) + 1] = r
         /\ \A i \in DOMAIN writes : writes'[i] = writes[i] /\ i < Len(writes) + 1
         /\ writes' \in Seq(Registration)
<1>1. writes \in Seq(Registration)
  BY Zenon DEF UserTypeOK
<1>2. /\ DOMAIN writes = 1 .. Len(writes) /\ Len(writes) \in Nat
      /\ DOMAIN writes' = 1 .. (Len(writes) + 1)
      /\ writes'[Len(writes) + 1] = r
      /\ \A i \in DOMAIN writes : writes'[i] = writes[i] /\ i < Len(writes) + 1
      /\ writes' \in Seq(Registration)
  BY <1>1
<1>3. DOMAIN writes' = DOMAIN writes \cup {Len(writes) + 1}
  BY <1>2
<1> QED BY <1>2, <1>3 DEF Stored

\* What the validator does to a request, whatever the lookup says.
LEMMA Validated ==
  ASSUME UserTypeOK, NEW r \in Request, NEW next \in {"hash", "get"}, Validate(r, next)
  PROVE  /\ step[r] = "new" /\ step' = [step EXCEPT ![r] = step'[r]]
         /\ \/ step'[r] = next /\ answer' = answer
            \/ /\ step'[r] = "done" /\ answer' = [answer EXCEPT ![r] = answer'[r]]
               /\ answer'[r] \in {401, 422}
         /\ step'[r] = next /\ r \in Registration
              => r \in misled' \/ users[EmailOf[r]] = NoUser
         /\ answer'[r] = 401 /\ step'[r] = "done"
              => r \in misled' \/ users[EmailOf[r]] = NoUser
         /\ misled \subseteq misled' /\ misled' \subseteq misled \cup {r}
         /\ failures' \in 0 .. MaxFailures
         /\ ahead' = [q \in Registration |-> IF q = r THEN Stored ELSE ahead[q]]
         /\ created' = [l \in Login |-> IF l = r THEN {q \in Registration : answer[q] = 201}
                                        ELSE created[l]]
         /\ UNCHANGED <<users, found, requested, writes, crashes>>
<1>0. /\ step \in [Request -> {"new", "hash", "insert", "send", "get", "check", "done", "dead"}]
      /\ answer \in [Request -> {0, 200, 201, 400, 401, 422}]
      /\ failures \in Nat /\ failures <= MaxFailures /\ MaxFailures \in Nat
  BY Requests DEF UserTypeOK
<1>1. PICK lookup \in Lookup(r) : Validate(r, next)!2!(lookup)
  BY Zenon DEF Validate
<1>2. /\ step[r] = "new"
      /\ ahead' = [q \in Registration |-> IF q = r THEN Stored ELSE ahead[q]]
      /\ created' = [l \in Login |-> IF l = r THEN {q \in Registration : answer[q] = 201}
                                     ELSE created[l]]
      /\ UNCHANGED <<users, found, requested, writes, crashes>>
  BY Zenon DEF Validate
<1>3. misled' = IF lookup.misleading THEN misled \cup {r} ELSE misled
  BY <1>1, Zenon
<1>4. lookup.exists \/ lookup.failed \/ lookup.misleading \/ users[EmailOf[r]] = NoUser
  <2>1. CASE lookup = [exists |-> users[EmailOf[r]] # NoUser, failed |-> FALSE, misleading |-> FALSE]
    BY <2>1, Zenon
  <2>2. CASE lookup = [exists |-> FALSE, failed |-> FALSE, misleading |-> TRUE]
    BY <2>2, Zenon
  <2>3. CASE lookup = [exists |-> FALSE, failed |-> TRUE, misleading |-> FALSE]
    BY <2>3, Zenon
  <2>4. CASE failures < MaxFailures
    BY <1>1, <2>1, <2>2, <2>3, <2>4, Zenon DEF Lookup
  <2>5. CASE ~(failures < MaxFailures)
    BY <1>1, <2>1, <2>5, Zenon DEF Lookup
  <2> QED BY <2>4, <2>5, Zenon
<1>5. failures' \in 0 .. MaxFailures
  <2>1. CASE failures < MaxFailures
    <3>1. failures' = failures + 1 \/ failures' = failures
      BY <1>1, Zenon
    <3> QED BY <1>0, <2>1, <3>1
  <2>2. CASE ~(failures < MaxFailures)
    <3>1. lookup = [exists |-> users[EmailOf[r]] # NoUser, failed |-> FALSE, misleading |-> FALSE]
      BY <1>1, <2>2, Zenon DEF Lookup
    <3>2. ~lookup.failed /\ ~lookup.misleading
      BY <3>1, Zenon
    <3>3. failures' = failures
      BY <1>1, <3>2, Zenon
    <3> QED BY <1>0, <3>3
  <2> QED BY <2>1, <2>2, Zenon
<1>6. ErrSomeThingWentWrong # "" /\ ErrAuthUserExisting # ""
      /\ ErrSomeThingWentWrong # ErrAuthUserNotFound
      /\ ErrEmailIsNotValid # ErrAuthUserNotFound /\ ErrEmailIsNotValid # ""
      /\ "" # ErrAuthUserNotFound
  BY Zenon DEF ErrSomeThingWentWrong, ErrAuthUserExisting, ErrAuthUserNotFound, ErrEmailIsNotValid
<1>7. CASE IsValid(r, lookup) /\ step' = [step EXCEPT ![r] = next] /\ UNCHANGED answer
  <2>1. step'[r] = next /\ step' = [step EXCEPT ![r] = step'[r]] /\ answer' = answer
    BY <1>0, <1>7
  <2>2. ASSUME r \in Registration PROVE r \in misled' \/ users[EmailOf[r]] = NoUser
    <3>1. EmailField(r, lookup) = ""
      BY <1>7, Zenon DEF IsValid
    <3>2. isEmailAlreadyRegistered(lookup) = ""
      BY <1>6, <2>2, <3>1, Zenon DEF EmailField
    <3>3. ~lookup.failed /\ ~lookup.exists
      BY <1>6, <3>2, Zenon DEF isEmailAlreadyRegistered
    <3> QED BY <1>3, <1>4, <3>3, Zenon
  <2>3. step'[r] # "done"
    BY <2>1, Zenon
  <2> QED BY <1>2, <1>3, <1>5, <2>1, <2>2, <2>3, Zenon
<1>8. CASE ~IsValid(r, lookup) /\ Reply(r, ValidationCode(r, lookup))
  <2> DEFINE code == ValidationCode(r, lookup)
  <2>1. step'[r] = "done" /\ step' = [step EXCEPT ![r] = step'[r]]
    BY <1>0, <1>8 DEF Reply
  <2>2. code \in {401, 422}
    BY Codes, Zenon DEF ValidationCode
  <2>3. ASSUME code = 401 PROVE r \in misled' \/ users[EmailOf[r]] = NoUser
    <3>1. EmailField(r, lookup) = ErrAuthUserNotFound /\ r \in Login
      <4> DEFINE unknown == r \in Login /\ EmailField(r, lookup) = ErrAuthUserNotFound
      <4>1. code = IF unknown THEN 401 ELSE 422
        BY Codes, ZenonT(40) DEF ValidationCode
      <4> HIDE DEF unknown, code
      <4>2. unknown
        BY <2>3, <4>1
      <4> QED BY <4>2, Zenon DEF unknown
    <3>2. r \notin Registration
      BY <3>1, Requests, Zenon
    <3>3. isUserRegistered(lookup) = ErrAuthUserNotFound
      BY <1>6, <3>1, <3>2, Zenon DEF EmailField
    <3>4. ~lookup.failed /\ ~lookup.exists
      BY <1>6, <3>3, Zenon DEF isUserRegistered
    <3> QED BY <1>3, <1>4, <3>4, Zenon
  <2> HIDE DEF code
  <2>4. answer' = [answer EXCEPT ![r] = code] /\ answer'[r] = code
    <3>1. answer' = [answer EXCEPT ![r] = code]
      BY <1>8, Zenon DEF Reply, code
    <3> QED BY <1>0, <3>1
  <2>5. step'[r] # next
    BY <2>1, Zenon
  <2>6. answer' = [answer EXCEPT ![r] = answer'[r]]
    <3> DEFINE now == answer'[r]
    <3>1. now = code
      BY <2>4, Zenon
    <3> HIDE DEF now
    <3>2. answer' = [answer EXCEPT ![r] = now]
      BY <2>4, <3>1, Zenon
    <3> QED BY <3>2, Zenon DEF now
  <2>7. /\ answer'[r] \in {401, 422}
        /\ answer'[r] = 401 => r \in misled' \/ users[EmailOf[r]] = NoUser
    BY <2>2, <2>3, <2>4
  <2> QED BY <1>2, <1>3, <1>5, <2>1, <2>5, <2>6, <2>7, Zenon
<1> QED BY <1>1, <1>7, <1>8, Zenon

\* Where nothing is inserted, the rows and the inserts stay as they are.
LEMMA NothingInserted ==
  ASSUME UNCHANGED <<users, writes>>
  PROVE  /\ Stored' = Stored
         /\ Rows => Rows'
<1>1. Stored' = Stored
  BY Zenon DEF Stored
<1> QED BY <1>1, Zenon DEF Rows

\* What was overwritten had a cause, and still has it where nothing is inserted.
LEMMA NothingOverwritten ==
  ASSUME OverwrittenHasCause, writes' = writes, misled \subseteq misled',
         \A i \in DOMAIN writes : ahead'[writes[i]] = ahead[writes[i]]
  PROVE  OverwrittenHasCause'
  BY Zenon DEF OverwrittenHasCause

\* A request that is not answered in this step keeps the cause of its answer.
LEMMA RefusalKept ==
  ASSUME RefusedHasCause, Stored \subseteq Stored', misled \subseteq misled',
         \A l \in Login : answer'[l] = 401 => answer[l] = 401 /\ created'[l] = created[l]
  PROVE  RefusedHasCause'
<1> SUFFICES ASSUME NEW l \in Login, NEW r \in created'[l], answer'[l] = 401,
                    EmailOf[l] = EmailOf[r], PasswordOf[l] = PasswordOf[r]
             PROVE  \/ l \in misled'
                    \/ \E q \in Stored' \ {r} : /\ EmailOf[q] = EmailOf[r]
                                                  /\ PasswordOf[q] # PasswordOf[r]
  BY DEF RefusedHasCause
<1>1. answer[l] = 401 /\ r \in created[l]
  BY ZenonT(40)
<1>2. \/ l \in misled
      \/ \E q \in Stored \ {r} : /\ EmailOf[q] = EmailOf[r] /\ PasswordOf[q] # PasswordOf[r]
  BY <1>1 DEF RefusedHasCause
<1> QED BY <1>2, Zenon

LEMMA ValidateStep ==
  ASSUME UserTypeOK, AccountInv, NEW r \in Request, NEW next \in {"hash", "get"},
         Validate(r, next)
  PROVE  AccountInv'
<1> USE DEF AccountInv
<1>0. /\ step \in [Request -> {"new", "hash", "insert", "send", "get", "check", "done", "dead"}]
      /\ answer \in [Request -> {0, 200, 201, 400, 401, 422}]
      /\ Stored \subseteq Registration /\ Registration \subseteq Request
      /\ Login \subseteq Request
  BY StoredTypes, Requests, ZenonT(40) DEF UserTypeOK
<1>1. /\ step[r] = "new"
      /\ \A q \in Request : q # r => step'[q] = step[q] /\ answer'[q] = answer[q]
      /\ \/ step'[r] = next /\ answer'[r] = answer[r]
         \/ step'[r] = "done" /\ answer'[r] \in {401, 422}
      /\ step'[r] = next /\ r \in Registration => r \in misled' \/ users[EmailOf[r]] = NoUser
      /\ answer'[r] = 401 /\ step'[r] = "done" => r \in misled' \/ users[EmailOf[r]] = NoUser
      /\ misled \subseteq misled' /\ misled' \subseteq misled \cup {r}
  BY <1>0, Validated
<1>2. /\ \A q \in Registration : ahead'[q] = IF q = r THEN Stored ELSE ahead[q]
      /\ \A l \in Login : l # r => created'[l] = created[l]
      /\ r \in Login => \A q \in created'[r] : q \in Registration /\ answer[q] = 201
      /\ UNCHANGED <<users, found, requested, writes>>
  BY Validated
<1>3. Stored' = Stored /\ Rows'
  BY <1>2, NothingInserted, Zenon
<1>4. answer[r] = 0 /\ r \notin Stored
  BY <1>1 DEF Progress
<1>5. Progress'
  <2>1. ASSUME NEW q \in Request, answer'[q] # 0 PROVE step'[q] = "done"
    BY <1>1, <1>4, <2>1 DEF Progress
  <2>2. ASSUME NEW q \in Stored PROVE step'[q] \in {"send", "done", "dead"}
    <3>1. q # r /\ q \in Request
      BY <1>0, <1>4
    <3>2. step'[q] = step[q]
      BY <1>1, <3>1, ZenonT(40)
    <3> QED BY <3>2, Zenon DEF Progress
  <2>3. ASSUME NEW q \in Registration, step'[q] = "send" \/ answer'[q] = 201 PROVE q \in Stored
    BY <1>0, <1>1, <1>4, <2>3 DEF Progress
  <2>4. ASSUME NEW l \in Login PROVE created'[l] \subseteq Stored
    <3>1. CASE l = r
      BY <1>2, <3>1 DEF Progress
    <3>2. CASE l # r
      BY <1>2, <3>2 DEF Progress
    <3> QED BY <3>1, <3>2, Zenon
  <2> QED BY <1>3, <2>1, <2>2, <2>3, <2>4, Zenon DEF Progress, Request
<1>6. Unseen'
  <2> SUFFICES ASSUME NEW s \in Registration, step'[s] \in {"hash", "insert"}, s \notin misled',
                      NEW q \in ahead'[s]
               PROVE  EmailOf[q] # EmailOf[s]
    BY Zenon DEF Unseen
  <2>1. CASE s = r
    <3>1. users[EmailOf[r]] = NoUser
      BY <1>1, <2>1, Zenon
    <3>2. q \in Stored
      BY <1>2, <2>1, Zenon
    <3> QED BY <2>1, <3>1, <3>2, Zenon DEF Rows
  <2>2. CASE s # r
    <3>1. step[s] \in {"hash", "insert"} /\ s \notin misled /\ q \in ahead[s]
      BY <1>0, <1>1, <1>2, <2>2
    <3> QED BY <3>1, Zenon DEF Unseen
  <2> QED BY <2>1, <2>2, Zenon
<1>7. ReadRow' /\ Owners'
  <2>1. \A l \in Login : /\ step'[l] = "check" => step[l] = "check"
                         /\ answer'[l] = 200 => answer[l] = 200
    BY <1>0, <1>1, <1>4
  <2>2. ReadRow'
    BY <1>2, <1>3, <2>1 DEF ReadRow
  <2>3. Owners'
    BY <1>2, <2>1, ZenonT(40) DEF Owners
  <2> QED BY <2>2, <2>3, Zenon
<1>8. OverwrittenHasCause'
  <2>1. \A i \in DOMAIN writes : writes[i] \in Registration /\ writes[i] # r
    BY <1>0, <1>4, StoredTypes
  <2> QED BY <1>1, <1>2, <2>1, NothingOverwritten
<1>9. RefusedHasCause'
  <2> SUFFICES ASSUME NEW l \in Login, NEW q \in created'[l], answer'[l] = 401,
                      EmailOf[l] = EmailOf[q], PasswordOf[l] = PasswordOf[q]
               PROVE  \/ l \in misled'
                      \/ \E p \in Stored \ {q} : /\ EmailOf[p] = EmailOf[q]
                                                   /\ PasswordOf[p] # PasswordOf[q]
    BY <1>3 DEF RefusedHasCause
  <2>1. CASE l = r
    <3>1. step'[r] = "done"
      BY <1>1, <1>4, <2>1
    <3>2. q \in Stored
      BY <1>2, <2>1 DEF Progress
    <3>3. users[EmailOf[r]] # NoUser
      BY <2>1, <3>2 DEF Rows
    <3> QED BY <1>1, <2>1, <3>1, <3>3, Zenon
  <2>2. CASE l # r
    <3>1. answer[l] = 401 /\ q \in created[l]
      BY <1>0, <1>1, <1>2, <2>2
    <3> QED BY <1>1, <3>1 DEF RefusedHasCause
  <2> QED BY <2>1, <2>2, Zenon
<1> QED BY <1>3, <1>5, <1>6, <1>7, <1>8, <1>9, Zenon

\* Steps of one request that insert nothing and answer neither 200 nor 401.
LEMMA QuietAccountStep ==
  ASSUME UserTypeOK, AccountInv, NEW r \in Request, 
         step[r] \in {"hash", "insert", "send", "get", "check"}, answer[r] = 0,
         \A q \in Request : q # r => step'[q] = step[q] /\ answer'[q] = answer[q],
         step[r] = "send" => step'[r] \in {"send", "done", "dead"},
         step'[r] # "hash", step'[r] = "insert" => step[r] = "hash",
         answer'[r] \in {0, 201, 400}, answer'[r] # 0 => step'[r] = "done",
         step'[r] = "send" \/ answer'[r] = 201 => step[r] = "send",
         \A l \in Login : found'[l] = found[l] \/ (l = r /\ step'[r] = "check"),
         step'[r] = "check" => r \in Login /\ found'[r] \in Stored /\ EmailOf[found'[r]] = EmailOf[r],
         UNCHANGED <<users, writes, ahead, created, misled>>
  PROVE  AccountInv'
<1> USE DEF AccountInv
<1>0. /\ Stored \subseteq Registration /\ Registration \subseteq Request
      /\ Login \subseteq Request
  BY StoredTypes, Requests
<1>1. Stored' = Stored /\ Rows'
  BY NothingInserted, Zenon
<1>2. Progress'
  <2>1. ASSUME NEW q \in Request, answer'[q] # 0 PROVE step'[q] = "done"
    BY <2>1 DEF Progress
  <2>2. ASSUME NEW q \in Stored PROVE step'[q] \in {"send", "done", "dead"}
    <3>1. CASE q = r
      BY <1>0, <3>1 DEF Progress
    <3>2. CASE q # r
      BY <1>0, <3>2 DEF Progress
    <3> QED BY <3>1, <3>2, Zenon
  <2>3. ASSUME NEW q \in Registration, step'[q] = "send" \/ answer'[q] = 201 PROVE q \in Stored
    BY <1>0, <2>3 DEF Progress
  <2> QED BY <1>1, <2>1, <2>2, <2>3 DEF Progress, Request
<1>3. Unseen'
  BY <1>0 DEF Unseen
<1>4. ReadRow'
  BY <1>0, <1>1 DEF ReadRow
<1>5. Owners'
  BY <1>0 DEF Owners
<1>6. OverwrittenHasCause'
  BY NothingOverwritten, Zenon
<1>7. RefusedHasCause'
  <2>1. \A l \in Login : answer'[l] = 401 => answer[l] = 401
    BY <1>0
  <2> QED BY <1>1, <2>1, RefusalKept
<1> QED BY <1>1, <1>2, <1>3, <1>4, <1>5, <1>6, <1>7, Zenon

\* An insert makes the registration known, and replaces only rows that it has
\* not seen.
LEMMA InsertStep ==
  ASSUME UserTypeOK, AccountInv, NEW r \in Registration, step[r] = "insert",
         \A q \in Request : q # r => step'[q] = step[q] /\ answer'[q] = answer[q],
         \/ step'[r] = "send" /\ answer'[r] = answer[r]
         \/ step'[r] = "done" /\ answer'[r] = 400,
         users' = [users EXCEPT ![EmailOf[r]] = r], writes' = Append(writes, r),
         UNCHANGED <<found, ahead, created, misled>>
  PROVE  AccountInv'
<1> USE DEF AccountInv
<1>0. /\ Stored \subseteq Registration /\ Registration \subseteq Request
      /\ Login \subseteq Request /\ r \in Request /\ r \notin Login /\ r # NoUser
      /\ EmailOf[r] \in Email /\ users \in [Email -> Registration \cup {NoUser}]
      /\ \A q \in Request : EmailOf[q] \in Email
  BY StoredTypes, Requests DEF UserTypeOK
<1>1. Stored' = Stored \cup {r}
  BY StoredGrows, Zenon
<1>2. answer[r] = 0
  BY <1>0, Zenon DEF Progress
<1>3. \A e \in Email : users'[e] = IF e = EmailOf[r] THEN r ELSE users[e]
  BY <1>0
<1>4. Rows'
  <2>1. ASSUME NEW q \in Stored' PROVE users'[EmailOf[q]] # NoUser
    <3>1. EmailOf[q] \in Email
      BY <1>0, <1>1
    <3>2. CASE EmailOf[q] = EmailOf[r]
      BY <1>0, <1>3, <3>2
    <3>3. CASE EmailOf[q] # EmailOf[r]
      <4>1. q \in Stored
        BY <1>1, <3>3, Zenon
      <4> QED BY <1>3, <3>1, <3>3, <4>1 DEF Rows
    <3> QED BY <3>2, <3>3, Zenon
  <2>2. ASSUME NEW e \in Email, users'[e] # NoUser
        PROVE  users'[e] \in Stored' /\ EmailOf[users'[e]] = e
    <3>1. CASE e = EmailOf[r]
      BY <1>1, <1>3, <3>1
    <3>2. CASE e # EmailOf[r]
      <4>1. users'[e] = users[e]
        BY <1>3, <3>2
      <4> QED BY <1>1, <2>2, <4>1 DEF Rows
    <3> QED BY <3>1, <3>2, Zenon
  <2> QED BY <2>1, <2>2, Zenon DEF Rows, Email, Request
<1>5. Progress'
  <2>1. ASSUME NEW q \in Request, answer'[q] # 0 PROVE step'[q] = "done"
    BY <1>2, <2>1 DEF Progress
  <2>2. ASSUME NEW q \in Stored' PROVE step'[q] \in {"send", "done", "dead"}
    <3>1. CASE q = r
      BY <3>1, Zenon
    <3>2. CASE q # r
      <4>1. q \in Stored /\ q \in Request
        BY <1>0, <1>1, <3>2, Zenon
      <4> QED BY <3>2, <4>1, ZenonT(40) DEF Progress
    <3> QED BY <3>1, <3>2, Zenon
  <2>3. ASSUME NEW q \in Registration, step'[q] = "send" \/ answer'[q] = 201 PROVE q \in Stored'
    BY <1>0, <1>1, <1>2, <2>3 DEF Progress
  <2>4. ASSUME NEW l \in Login PROVE created'[l] \subseteq Stored'
    BY <1>1, ZenonT(40) DEF Progress
  <2> QED BY <2>1, <2>2, <2>3, <2>4, Zenon DEF Progress, Request
<1>6. Unseen'
  BY <1>0, ZenonT(40) DEF Unseen
<1>7. ReadRow'
  <2>1. \A l \in Login : l # r /\ step'[l] = step[l] /\ answer'[l] = answer[l]
    BY <1>0
  <2> QED BY <1>1, <2>1 DEF ReadRow
<1>8. Owners'
  BY <1>0 DEF Owners
<1>9. OverwrittenHasCause'
  <2> SUFFICES ASSUME NEW i \in DOMAIN writes', NEW j \in DOMAIN writes',
                      i < j, EmailOf[writes'[i]] = EmailOf[writes'[j]]
               PROVE  writes'[i] \notin ahead[writes'[j]] \/ writes'[j] \in misled
    BY SMTT(30) DEF OverwrittenHasCause
  <2>1. /\ DOMAIN writes' = DOMAIN writes \cup {Len(writes) + 1}
        /\ writes'[Len(writes) + 1] = r
        /\ \A k \in DOMAIN writes : writes'[k] = writes[k] /\ k < Len(writes) + 1
        /\ DOMAIN writes = 1 .. Len(writes) /\ Len(writes) \in Nat
    BY StoredGrows, SMTT(30) DEF UserTypeOK
  <2>2. i \in DOMAIN writes
    BY <2>1, SMTT(30)
  <2>3. CASE j \in DOMAIN writes
    BY <2>1, <2>2, <2>3 DEF OverwrittenHasCause
  <2>4. CASE j = Len(writes) + 1
    BY <2>1, <2>2, <2>4 DEF Unseen
  <2> QED BY <2>1, <2>3, <2>4, Zenon
<1>10. RefusedHasCause'
  <2>1. \A l \in Login : answer'[l] = 401 => answer[l] = 401 /\ created'[l] = created[l]
    BY <1>0
  <2> QED BY <1>1, <2>1, RefusalKept, Zenon
<1> QED BY <1>4, <1>5, <1>6, <1>7, <1>8, <1>9, <1>10, Zenon

\* The comparison of the password decides a login by the row it has read.
LEMMA CheckStep ==
  ASSUME UserTypeOK, AccountInv, NEW l \in Login, CheckPasswordHash(l)
  PROVE  AccountInv'
<1> USE DEF AccountInv
<1>0. /\ step \in [Request -> {"new", "hash", "insert", "send", "get", "check", "done", "dead"}]
      /\ answer \in [Request -> {0, 200, 201, 400, 401, 422}]
      /\ Stored \subseteq Registration /\ Registration \subseteq Request
      /\ Login \subseteq Request /\ l \in Request /\ l \notin Registration
  BY StoredTypes, Requests, Zenon DEF UserTypeOK
<1>1. /\ step[l] = "check" /\ step'[l] = "done"
      /\ \A q \in Request : q # l => step'[q] = step[q] /\ answer'[q] = answer[q]
      /\ answer'[l] = IF PasswordOf[l] = PasswordOf[found[l]] THEN 200 ELSE 401
      /\ UNCHANGED <<users, writes, found, ahead, created, misled>>
  BY <1>0, Codes DEF CheckPasswordHash, Reply, db
<1>2. Stored' = Stored /\ Rows'
  BY <1>1, NothingInserted, Zenon
<1>3. found[l] \in Stored /\ EmailOf[found[l]] = EmailOf[l]
  BY <1>1, Zenon DEF ReadRow
<1>4. Progress'
  <2>1. ASSUME NEW q \in Request, answer'[q] # 0 PROVE step'[q] = "done"
    BY <1>1, <2>1, SMTT(30) DEF Progress
  <2>2. ASSUME NEW q \in Stored PROVE step'[q] \in {"send", "done", "dead"}
    BY <1>0, <1>1, ZenonT(40) DEF Progress
  <2>3. ASSUME NEW q \in Registration, step'[q] = "send" \/ answer'[q] = 201 PROVE q \in Stored
    BY <1>0, <1>1, <2>3 DEF Progress
  <2> QED BY <1>1, <1>2, <2>1, <2>2, <2>3, Zenon DEF Progress, Request
<1>5. Unseen'
  BY <1>0, <1>1 DEF Unseen
<1>6. ReadRow'
  BY <1>0, <1>1, <1>2, <1>3, SMTT(30) DEF ReadRow
<1>7. Owners'
  BY <1>0, <1>1 DEF Owners
<1>8. OverwrittenHasCause'
  BY <1>1, NothingOverwritten, Zenon
<1>9. RefusedHasCause'
  <2> SUFFICES ASSUME NEW k \in Login, NEW q \in created[k], answer'[k] = 401,
                      EmailOf[k] = EmailOf[q], PasswordOf[k] = PasswordOf[q]
               PROVE  \/ k \in misled
                      \/ \E p \in Stored \ {q} : /\ EmailOf[p] = EmailOf[q]
                                                   /\ PasswordOf[p] # PasswordOf[q]
    <3>1. created' = created /\ misled' = misled /\ Stored' = Stored
      BY <1>1, <1>2, Zenon
    <3> QED BY <3>1, ZenonT(40) DEF RefusedHasCause
  <2>1. CASE k = l
    <3>1. PasswordOf[l] # PasswordOf[found[l]]
      BY <1>1, <2>1, SMTT(30)
    <3>2. found[l] \in Stored \ {q}
      BY <1>3, <2>1, <3>1, Zenon
    <3> QED BY <1>3, <2>1, <3>1, <3>2, SMTT(30)
  <2>2. CASE k # l
    <3>1. answer[k] = 401
      BY <1>0, <1>1, <2>2
    <3> QED BY <3>1 DEF RefusedHasCause
  <2> QED BY <2>1, <2>2, Zenon
<1> QED BY <1>2, <1>4, <1>5, <1>6, <1>7, <1>8, <1>9, Zenon

\* A crash leaves the table as it is, and what was answered.
LEMMA ManagerCrashStep ==
  ASSUME UserTypeOK, AccountInv, Crash PROVE AccountInv'
<1> USE DEF AccountInv
<1>0. /\ Stored \subseteq Registration /\ Registration \subseteq Request
      /\ Login \subseteq Request
  BY StoredTypes, Requests, Zenon
<1>1. /\ \A q \in Request : step'[q] = IF step[q] \notin {"new", "done", "dead"} THEN "dead"
                                         ELSE step[q]
      /\ UNCHANGED <<users, writes, found, ahead, created, misled, answer>>
  BY Zenon DEF Crash, InFlight, db
<1>2. Stored' = Stored /\ Rows'
  BY <1>1, NothingInserted, Zenon
<1>3. Progress'
  <2>1. ASSUME NEW q \in Request, answer'[q] # 0 PROVE step'[q] = "done"
    BY <1>1, <2>1, Zenon DEF Progress
  <2>2. ASSUME NEW q \in Stored PROVE step'[q] \in {"send", "done", "dead"}
    BY <1>0, <1>1, Zenon DEF Progress
  <2>3. ASSUME NEW q \in Registration, step'[q] = "send" \/ answer'[q] = 201 PROVE q \in Stored
    BY <1>0, <1>1, <2>3, Zenon DEF Progress
  <2> QED BY <1>1, <1>2, <2>1, <2>2, <2>3, Zenon DEF Progress, Request
<1>4. Unseen'
  <2>1. \A q \in Registration : step'[q] \notin {"hash", "insert"}
    BY <1>0, <1>1, Zenon
  <2> QED BY <2>1, Zenon DEF Unseen
<1>5. ReadRow'
  <2>1. \A l \in Login : step'[l] # "check"
    BY <1>0, <1>1, Zenon
  <2> QED BY <1>1, <1>2, <2>1, Zenon DEF ReadRow
<1>6. Owners'
  BY <1>1, Zenon DEF Owners
<1>7. OverwrittenHasCause'
  BY <1>1, NothingOverwritten, Zenon
<1>8. RefusedHasCause'
  BY <1>1, <1>2, RefusalKept, Zenon
<1> QED BY <1>2, <1>3, <1>4, <1>5, <1>6, <1>7, <1>8, Zenon

LEMMA ValidateTyped ==
  ASSUME UserTypeOK, NEW r \in Request, NEW next \in {"hash", "get"}, Validate(r, next)
  PROVE  UserTypeOK'
<1> DEFINE Step == {"new", "hash", "insert", "send", "get", "check", "done", "dead"}
           Code == {0, 200, 201, 400, 401, 422}
<1>0. /\ step \in [Request -> Step] /\ answer \in [Request -> Code]
      /\ users \in [Email -> Registration \cup {NoUser}]
      /\ found \in [Login -> Registration \cup {NoUser}]
      /\ requested \subseteq Registration /\ writes \in Seq(Registration)
      /\ ahead \in [Registration -> SUBSET Registration]
      /\ created \in [Login -> SUBSET Registration]
      /\ misled \subseteq Request /\ failures \in 0 .. MaxFailures /\ crashes \in 0 .. MaxCrashes
  BY ZenonT(40) DEF UserTypeOK
<1>9. /\ step' = [step EXCEPT ![r] = step'[r]]
      /\ \/ step'[r] = next /\ answer' = answer
         \/ /\ step'[r] = "done" /\ answer' = [answer EXCEPT ![r] = answer'[r]]
            /\ answer'[r] \in {401, 422}
  BY Validated, SMTT(30)
<1>1. /\ misled' \subseteq misled \cup {r} /\ failures' \in 0 .. MaxFailures
      /\ ahead' = [q \in Registration |-> IF q = r THEN Stored ELSE ahead[q]]
      /\ created' = [l \in Login |-> IF l = r THEN {q \in Registration : answer[q] = 201}
                                     ELSE created[l]]
      /\ UNCHANGED <<users, found, requested, writes, crashes>>
  BY Validated
<1>2. step' \in [Request -> Step]
  BY <1>0, <1>9
<1>3. answer' \in [Request -> Code]
  BY <1>0, <1>9
<1>4. ahead' \in [Registration -> SUBSET Registration]
  BY <1>0, <1>1, StoredTypes, Zenon
<1>5. created' \in [Login -> SUBSET Registration]
  BY <1>0, <1>1, Zenon
<1>6. misled' \subseteq Request
  BY <1>0, <1>1
<1> QED BY <1>0, <1>1, <1>2, <1>3, <1>4, <1>5, <1>6 DEF UserTypeOK, Request, Email

LEMMA AccountsTypeStep == UserTypeOK /\ [UserNext]_(userVars) => UserTypeOK'
<1> SUFFICES ASSUME UserTypeOK, [UserNext]_(userVars) PROVE UserTypeOK'
  BY Zenon
<1> DEFINE Step == {"new", "hash", "insert", "send", "get", "check", "done", "dead"}
           Code == {0, 200, 201, 400, 401, 422}
<1>0. /\ step \in [Request -> Step] /\ answer \in [Request -> Code]
      /\ users \in [Email -> Registration \cup {NoUser}]
      /\ found \in [Login -> Registration \cup {NoUser}]
      /\ requested \subseteq Registration /\ writes \in Seq(Registration)
      /\ ahead \in [Registration -> SUBSET Registration]
      /\ created \in [Login -> SUBSET Registration]
      /\ misled \subseteq Request /\ failures \in 0 .. MaxFailures /\ crashes \in 0 .. MaxCrashes
  BY Zenon DEF UserTypeOK
<1>8. step \in [Request -> Step] /\ answer \in [Request -> Code]
  BY <1>0, ZenonT(40)
<1>1. ASSUME NEW r \in Request, NEW next \in {"hash", "get"}, Validate(r, next)
      PROVE  UserTypeOK'
  BY <1>1, ValidateTyped, Zenon
<1>2. ASSUME NEW r \in Registration, HashPassword(r) \/ RequestDefaultProject(r)
      PROVE  UserTypeOK'
  <2>1. r \in Request
    BY Requests, Zenon
  <2>2. step' \in [Request -> Step] /\ answer' \in [Request -> Code]
    <3>1. /\ step' = [step EXCEPT ![r] = "insert"] \/ step' = [step EXCEPT ![r] = "done"]
          /\ \/ answer' = answer
             \/ answer' = [answer EXCEPT ![r] = 400]
             \/ answer' = [answer EXCEPT ![r] = 201]
      BY <1>2, Zenon DEF HashPassword, RequestDefaultProject, Reply
    <3>2. "insert" \in Step /\ "done" \in Step
      BY Zenon
    <3>3. 400 \in Code /\ 201 \in Code
      OBVIOUS
    <3> HIDE DEF Step, Code
    <3>4. step' \in [Request -> Step]
      BY <1>8, <3>1, <3>2
    <3>5. answer' \in [Request -> Code]
      BY <1>8, <3>1, <3>3
    <3> QED BY <3>4, <3>5, Zenon
  <2>3. /\ requested' \subseteq Registration
        /\ UNCHANGED <<users, writes, found, ahead, created, misled, failures, crashes>>
    BY <1>0, <1>2, SMTT(30) DEF HashPassword, RequestDefaultProject, db
  <2> QED BY <1>0, <2>2, <2>3, SMTT(30) DEF UserTypeOK, Request, Email
<1>3. ASSUME NEW r \in Registration, InsertUser(r) PROVE UserTypeOK'
  <2>1. r \in Request /\ EmailOf[r] \in Email /\ MaxFailures \in Nat
    BY Requests, Zenon
  <2>2. /\ \/ step' = [step EXCEPT ![r] = "send"] /\ answer' = answer
           \/ step' = [step EXCEPT ![r] = "done"] /\ answer' = [answer EXCEPT ![r] = 400]
        /\ users' = users \/ users' = [users EXCEPT ![EmailOf[r]] = r]
        /\ writes' = writes \/ writes' = Append(writes, r)
    BY <1>3, Zenon DEF InsertUser, Reply
  <2>3. step' \in [Request -> Step] /\ answer' \in [Request -> Code]
    <3>1. "send" \in Step /\ "done" \in Step
      BY Zenon
    <3>2. 400 \in Code
      OBVIOUS
    <3> HIDE DEF Step, Code
    <3>3. step' \in [Request -> Step]
      BY <1>8, <2>2, <3>1
    <3>4. answer' \in [Request -> Code]
      BY <1>8, <2>2, <3>2
    <3> QED BY <3>3, <3>4, Zenon
  <2>4. users' \in [Email -> Registration \cup {NoUser}]
    <3>1. r \in Registration \cup {NoUser}
      BY Zenon
    <3>2. users \in [Email -> Registration \cup {NoUser}]
      BY <1>0, Zenon
    <3> QED BY <2>2, <3>1, <3>2
  <2>7. writes' \in Seq(Registration)
    <3>1. Append(writes, r) \in Seq(Registration)
      BY <1>0
    <3> QED BY <1>0, <2>2, <3>1, Zenon
  <2>5. failures' \in 0 .. MaxFailures
    BY <1>0, <1>3, <2>1 DEF InsertUser
  <2>6. UNCHANGED <<found, requested, ahead, created, misled, crashes>>
    BY <1>3, Zenon DEF InsertUser
  <2> QED BY <1>0, <2>3, <2>4, <2>5, <2>6, <2>7, SMTT(30) DEF UserTypeOK, Request, Email
<1>4. ASSUME NEW l \in Login, GetUserByEmail(l) \/ CheckPasswordHash(l) PROVE UserTypeOK'
  <2>1. l \in Request /\ EmailOf[l] \in Email /\ MaxFailures \in Nat
    BY Requests, Zenon
  <2>2. step' \in [Request -> Step]
    <3>1. step' = [step EXCEPT ![l] = "check"] \/ step' = [step EXCEPT ![l] = "done"]
      BY <1>4, Zenon DEF GetUserByEmail, CheckPasswordHash, Reply
    <3>2. "check" \in Step /\ "done" \in Step
      BY Zenon
    <3> HIDE DEF Step
    <3> QED BY <1>8, <3>1, <3>2
  <2>3. answer' \in [Request -> Code]
    <3>1. \/ answer' = answer
          \/ answer' = [answer EXCEPT ![l] = 200]
          \/ answer' = [answer EXCEPT ![l] = 400]
          \/ answer' = [answer EXCEPT ![l] = 401]
      BY <1>4, Codes, ZenonT(40) DEF GetUserByEmail, CheckPasswordHash, Reply
    <3>2. 200 \in Code /\ 400 \in Code /\ 401 \in Code
      OBVIOUS
    <3> HIDE DEF Code
    <3> QED BY <1>8, <3>1, <3>2
  <2>4. found' \in [Login -> Registration \cup {NoUser}] /\ failures' \in 0 .. MaxFailures
    <3>1. found' = found \/ found' = [found EXCEPT ![l] = users[EmailOf[l]]]
      BY <1>4, Zenon DEF GetUserByEmail, CheckPasswordHash
    <3>2. users[EmailOf[l]] \in Registration \cup {NoUser}
      BY <1>0, <2>1, Zenon
    <3>6. found \in [Login -> Registration \cup {NoUser}] /\ failures \in 0 .. MaxFailures
      BY <1>0, ZenonT(40)
    <3>3. found' \in [Login -> Registration \cup {NoUser}]
      BY <3>1, <3>2, <3>6
    <3>4. failures' = failures \/ (failures < MaxFailures /\ failures' = failures + 1)
      BY <1>4 DEF GetUserByEmail, CheckPasswordHash
    <3>5. failures' \in 0 .. MaxFailures
      BY <2>1, <3>4, <3>6
    <3> QED BY <3>3, <3>5, Zenon
  <2>5. UNCHANGED <<users, writes, requested, ahead, created, misled, crashes>>
    BY <1>4, Zenon DEF GetUserByEmail, CheckPasswordHash, db
  <2> QED BY <1>0, <2>2, <2>3, <2>4, <2>5, SMTT(30) DEF UserTypeOK, Request, Email
<1>5. CASE Crash
  <2>1. step' \in [Request -> Step]
    BY <1>0, <1>5 DEF Crash
  <2>2. crashes' \in 0 .. MaxCrashes
    BY <1>0, <1>5, Requests DEF Crash
  <2>3. UNCHANGED <<answer, users, writes, found, requested, ahead, created, misled, failures>>
    BY <1>5, Zenon DEF Crash, db
  <2> QED BY <1>0, <2>1, <2>2, <2>3, Zenon DEF UserTypeOK, Request, Email
<1>6. CASE UNCHANGED userVars
  BY <1>6, Zenon DEF userVars, UserTypeOK, Request, Email
<1> QED
  BY <1>1, <1>2, <1>3, <1>4, <1>5, <1>6, Requests, Zenon
  DEF UserNext, RegisterUser, UserLogin, ValidateRegisterRequest, ValidateLoginRequest

LEMMA AccountsStep ==
  ASSUME UserTypeOK, AccountInv, [UserNext]_(userVars) PROVE AccountInv'
<1>0. /\ step \in [Request -> {"new", "hash", "insert", "send", "get", "check", "done", "dead"}]
      /\ answer \in [Request -> {0, 200, 201, 400, 401, 422}]
      /\ found \in [Login -> Registration \cup {NoUser}]
  BY Zenon DEF UserTypeOK
<1>1. ASSUME NEW r \in Registration, ValidateRegisterRequest(r) PROVE AccountInv'
  BY <1>1, ValidateStep, Requests, Zenon DEF ValidateRegisterRequest
<1>2. ASSUME NEW l \in Login, ValidateLoginRequest(l) PROVE AccountInv'
  BY <1>2, ValidateStep, Requests, Zenon DEF ValidateLoginRequest
<1>3. ASSUME NEW r \in Registration, HashPassword(r) \/ RequestDefaultProject(r)
      PROVE  AccountInv'
  <2>1. r \in Request
    BY Requests, Zenon
  <2>2. /\ step[r] \in {"hash", "send"}
        /\ \A q \in Request : q # r => step'[q] = step[q] /\ answer'[q] = answer[q]
        /\ UNCHANGED <<users, writes, found, ahead, created, misled>>
        /\ step[r] = "hash" => \/ step'[r] = "insert" /\ answer'[r] = answer[r]
                               \/ step'[r] = "done" /\ answer'[r] = 400
        /\ step[r] = "send" => step'[r] = "done" /\ answer'[r] = 201
    BY <1>0, <1>3, <2>1 DEF HashPassword, RequestDefaultProject, Reply, db
  <2>3. answer[r] = 0
    BY <2>1, <2>2, Zenon DEF AccountInv, Progress
  <2> QED BY <2>1, <2>2, <2>3, QuietAccountStep, SMTT(30)
<1>4. ASSUME NEW r \in Registration, InsertUser(r) PROVE AccountInv'
  <2>1. r \in Request
    BY Requests, Zenon
  <2>2. /\ step[r] = "insert"
        /\ \A q \in Request : q # r => step'[q] = step[q] /\ answer'[q] = answer[q]
        /\ \/ step'[r] = "send" /\ answer'[r] = answer[r]
           \/ step'[r] = "done" /\ answer'[r] = 400
        /\ UNCHANGED <<found, ahead, created, misled>>
    BY <1>0, <1>4, <2>1 DEF InsertUser, Reply
  <2>3. CASE users' = [users EXCEPT ![EmailOf[r]] = r] /\ writes' = Append(writes, r)
    <3>1. UserTypeOK /\ AccountInv /\ r \in Registration
      BY Zenon
    <3>2. users' = [users EXCEPT ![EmailOf[r]] = r] /\ writes' = Append(writes, r)
      BY <2>3, Zenon
    <3> QED BY ONLY <2>2, <3>1, <3>2, InsertStep, ZenonT(40)
  <2>4. CASE UNCHANGED <<users, writes>> /\ step'[r] = "done" /\ answer'[r] = 400
    <3>1. answer[r] = 0
      BY <2>1, <2>2, ZenonT(40) DEF AccountInv, Progress
    <3> QED BY <2>1, <2>2, <2>4, <3>1, QuietAccountStep, SMTT(30)
  <2>5. \/ users' = [users EXCEPT ![EmailOf[r]] = r] /\ writes' = Append(writes, r)
        \/ UNCHANGED <<users, writes>> /\ step'[r] = "done" /\ answer'[r] = 400
    BY <1>0, <1>4, <2>1 DEF InsertUser, Reply
  <2> QED BY <2>3, <2>4, <2>5, Zenon
<1>5. ASSUME NEW l \in Login, GetUserByEmail(l) PROVE AccountInv'
  <2>1. l \in Request /\ l \notin Registration /\ EmailOf[l] \in Email
    BY Requests, Zenon
  <2>2. /\ step[l] = "get"
        /\ \A q \in Request : q # l => step'[q] = step[q] /\ answer'[q] = answer[q]
        /\ \A k \in Login : k # l => found'[k] = found[k]
        /\ \/ /\ step'[l] = "check" /\ answer'[l] = answer[l]
              /\ users[EmailOf[l]] # NoUser /\ found'[l] = users[EmailOf[l]]
           \/ step'[l] = "done" /\ answer'[l] = 400 /\ found'[l] = found[l]
        /\ UNCHANGED <<users, writes, ahead, created, misled>>
    BY <1>0, <1>5, <2>1, Codes, SMTT(30) DEF GetUserByEmail, Reply, db
  <2>3. answer[l] = 0
    BY <2>1, <2>2, Zenon DEF AccountInv, Progress
  <2>4. step'[l] = "check" => found'[l] \in Stored /\ EmailOf[found'[l]] = EmailOf[l]
    BY <2>1, <2>2, Zenon DEF AccountInv, Rows
  <2> QED BY <2>1, <2>2, <2>3, <2>4, QuietAccountStep, SMTT(30)
<1>6. ASSUME NEW l \in Login, CheckPasswordHash(l) PROVE AccountInv'
  BY <1>6, CheckStep, Zenon
<1>7. CASE Crash
  BY <1>7, ManagerCrashStep, Zenon
<1>8. CASE UNCHANGED userVars
  <2>1. Stored' = Stored /\ Email' = Email /\ Request' = Request
    BY <1>8, Zenon DEF userVars, Stored, Email, Request
  <2>2. Rows' /\ Progress' /\ Unseen' /\ ReadRow' /\ Owners'
    BY <1>8, <2>1, ZenonT(40) DEF userVars, AccountInv, Rows, Progress, Unseen, ReadRow, Owners
  <2>3. OverwrittenHasCause' /\ RefusedHasCause'
    BY <1>8, <2>1, ZenonT(40) DEF userVars, AccountInv, OverwrittenHasCause, RefusedHasCause
  <2> QED BY <2>2, <2>3, Zenon DEF AccountInv
<1> QED
  BY <1>1, <1>2, <1>3, <1>4, <1>5, <1>6, <1>7, <1>8, Zenon DEF UserNext, RegisterUser, UserLogin

LEMMA AccountsHold == UserSpec => [](UserTypeOK /\ AccountInv)
<1>1. UserInit => UserTypeOK /\ AccountInv
  <2> SUFFICES ASSUME UserInit PROVE UserTypeOK /\ AccountInv
    BY Zenon
  <2>0. /\ writes = << >> /\ requested = {} /\ misled = {} /\ failures = 0 /\ crashes = 0
        /\ step = [r \in Request |-> "new"] /\ answer = [r \in Request |-> 0]
        /\ users = [e \in Email |-> NoUser] /\ found = [l \in Login |-> NoUser]
        /\ ahead = [r \in Registration |-> {}] /\ created = [l \in Login |-> {}]
    BY Zenon DEF UserInit
  <2>1. UserTypeOK
    BY <2>0, Requests DEF UserTypeOK
  <2>2. Stored = {}
    BY <2>0 DEF Stored
  <2>3. Rows /\ OverwrittenHasCause
    BY <2>0, <2>2 DEF Rows, OverwrittenHasCause
  <2>4. Progress
    BY <2>0, <2>2, Requests DEF Progress
  <2>5. Unseen /\ ReadRow /\ Owners /\ RefusedHasCause
    BY <2>0, Requests DEF Unseen, ReadRow, Owners, RefusedHasCause
  <2> QED BY <2>1, <2>3, <2>4, <2>5, Zenon DEF AccountInv
<1> QED BY <1>1, AccountsTypeStep, AccountsStep, PTL DEF UserSpec

\* Every request keeps to the HTTP codes and every row to the types that the
\* handlers of users and scyllarepo give them.
THEOREM AccountsTypeCorrect == UserSpec => []UserTypeOK
  BY AccountsHold, PTL

\* Register replaces the row of another registration only when that came after its
\* own check of the email, or when DoesUserExistsByEmail failed unnoticed.
THEOREM OverwritesAreRaces == UserSpec => []OverwrittenHasCause
<1>1. AccountInv => OverwrittenHasCause
  BY Zenon DEF AccountInv, OverwrittenHasCause
<1> QED BY <1>1, AccountsHold, PTL

\* Login refuses a registered user only with a cause, and its tokens are those of
\* the user with that email and password, whatever is inserted meanwhile.
THEOREM LoginsAreRight == UserSpec => []LoginIsRight
<1>1. \A l \in Login : Tokens(l).access.userID.base64 = found[l]
  BY Zenon DEF Tokens, CreateAccessToken, createToken
<1>2. AccountInv => LoginIsRight
  <2> SUFFICES ASSUME AccountInv PROVE TokenIsOwners
    BY Zenon DEF AccountInv, LoginIsRight, LoginIsRight
  <2> QED BY <1>1 DEF AccountInv, ReadRow, Owners, TokenIsOwners
<1> QED BY <1>2, AccountsHold, PTL

-----------------------------------------------------------------------------
(* Sources *)

\* A set of natural numbers that is not empty has a least member.
LEMMA LeastMember ==
  ASSUME NEW T \in SUBSET Nat, T # {}
  PROVE  Min(T) \in T
<1> DEFINE Less == {p \in Nat \X Nat : p[1] < p[2]}
<1>1. IsWellFoundedOn(OpToRel(<, Nat), Nat)
  BY NatLessThanWellFounded, Zenon
<1>2. Less = OpToRel(<, Nat)
  BY Zenon DEF OpToRel
<1>3. PICK x \in T : \A y \in T : <<y, x>> \notin Less
  <2> HIDE DEF Less
  <2> QED BY <1>1, <1>2, WFMin, Zenon
<1>4. ASSUME NEW y \in T PROVE x =< y
  <2>1. <<y, x>> \notin Less
    BY <1>3, Zenon
  <2>2. ~(y < x)
    <3> SUFFICES ASSUME y < x PROVE <<y, x>> \in Less
      BY <2>1, Zenon
    <3>1. <<y, x>> \in Nat \X Nat /\ <<y, x>>[1] = y /\ <<y, x>>[2] = x
      BY Zenon
    <3> QED BY <3>1, Zenon
  <2> QED BY <2>2
<1> QED BY <1>4, Zenon DEF Min

\* A source as MockRepo keeps it.
Row == [id : ID, name : Name \cup {"", "name name"}, owner : Owner \cup {""}]

LEMMA SlotDomain ==
  ASSUME SourceTypeOK
  PROVE  /\ heap \in Seq(Row) /\ slots \in Seq(1 .. Len(heap)) /\ Len(heap) \in Nat
         /\ DOMAIN slots \subseteq Nat \ {0}
         /\ \A i \in DOMAIN slots : slots[i] \in DOMAIN heap
<1>0. heap \in Seq(Row) /\ slots \in Seq(1 .. Len(heap))
  BY Zenon DEF SourceTypeOK, Row
<1>1. Len(heap) \in Nat /\ DOMAIN heap = 1 .. Len(heap)
  BY <1>0
<1>2. DOMAIN slots = 1 .. Len(slots) /\ Len(slots) \in Nat
  BY <1>0
<1> QED BY <1>0, <1>1, <1>2

\* What the loops over MockRepo.sources return.
LEMMA SlotFound ==
  ASSUME SourceTypeOK, NEW id, SlotOf(id) # 0
  PROVE  SlotOf(id) \in DOMAIN slots /\ heap[slots[SlotOf(id)]].id = id
<1> DEFINE hits == {i \in DOMAIN slots : heap[slots[i]].id = id}
<1>1. SlotOf(id) = IF hits = {} THEN 0 ELSE Min(hits)
  BY Zenon DEF SlotOf, First
<1>2. hits \in SUBSET Nat
  BY SlotDomain, Zenon
<1>3. hits # {} /\ SlotOf(id) = Min(hits)
  <2> HIDE DEF hits
  <2> QED BY <1>1, Zenon
<1>4. SlotOf(id) \in hits
  <2> HIDE DEF hits
  <2> QED BY <1>2, <1>3, LeastMember, Zenon
<1> QED BY <1>4, Zenon

LEMMA SourceFound ==
  ASSUME SourceTypeOK, NEW owner, NEW id, GetUserSourceByID(owner, id) # 0
  PROVE  /\ GetUserSourceByID(owner, id) \in DOMAIN slots
         /\ heap[slots[GetUserSourceByID(owner, id)]].id = id
         /\ SlotOf(id) # 0
<1> DEFINE hits == {i \in DOMAIN slots : heap[slots[i]].id = id /\ heap[slots[i]].owner = owner}
           same == {i \in DOMAIN slots : heap[slots[i]].id = id}
<1>1. GetUserSourceByID(owner, id) = IF hits = {} THEN 0 ELSE Min(hits)
  BY Zenon DEF GetUserSourceByID, First
<1>2. SlotOf(id) = IF same = {} THEN 0 ELSE Min(same)
  BY Zenon DEF SlotOf, First
<1>3. hits \in SUBSET Nat /\ same \in SUBSET Nat /\ hits \subseteq same /\ 0 \notin same
  BY SlotDomain, Zenon
<1>4. GetUserSourceByID(owner, id) \in hits
  <2> HIDE DEF hits
  <2> QED BY <1>1, <1>3, LeastMember, Zenon
<1>5. SlotOf(id) \in same
  <2>1. same # {}
    BY <1>3, <1>4, Zenon
  <2> HIDE DEF hits, same
  <2> QED BY <1>2, <1>3, <2>1, LeastMember, Zenon
<1> QED BY <1>3, <1>4, <1>5, Zenon

\* No request under /sources gets as far as the service: the middleware refuses it,
\* or the handler does not find a string in the context.
LEMMA CookieRefused ==
  ASSUME NEW cookie
  PROVE  \/ GetTokenFromCookie(cookie).status \in {400, 500}
         \/ /\ GetTokenFromCookie(cookie).status = 0
            /\ ~IsString(GetTokenFromCookie(cookie).userID)
<1>1. CASE cookie = NoToken
  <2>1. GetTokenFromCookie(cookie) = [status |-> 400, userID |-> Nobody]
    BY <1>1, Zenon DEF GetTokenFromCookie
  <2> QED BY <2>1
<1>2. CASE cookie # NoToken /\ ~ParseToken(HandlerJWT, cookie)
  <2>1. GetTokenFromCookie(cookie) = [status |-> 500, userID |-> Nobody]
    BY <1>2, Zenon DEF GetTokenFromCookie
  <2> QED BY <2>1
<1>3. CASE cookie # NoToken /\ ParseToken(HandlerJWT, cookie)
  <2>1. GetTokenFromCookie(cookie)
          = [status |-> 0, userID |-> DecodeString(cookie.userID)]
    BY <1>3, Zenon DEF GetTokenFromCookie
  <2> QED BY <2>1 DEF DecodeString, IsString
<1> QED BY <1>1, <1>2, <1>3, Zenon

\* CreateSource, UpdateSource and DeleteSource by what they leave behind.
Refused == outcome' \in {400, 500} /\ Unchanged

LEMMA RouteRefused ==
  ASSUME \/ \E c \in Cookie, b \in BOOLEAN, n \in Name : PostSources(c, b, n)
         \/ \E c \in Cookie, i \in ID, b \in BOOLEAN, n \in Name : PostSource(c, i, b, n)
         \/ \E i \in ID : DeleteRoute(i)
  PROVE  HTTP /\ Refused
<1>1. ASSUME NEW c \in Cookie, NEW b \in BOOLEAN, NEW n \in Name, PostSources(c, b, n)
      PROVE  HTTP /\ Refused
  BY <1>1, CookieRefused DEF PostSources, CreateHandler, Refuse, Refused
<1>2. ASSUME NEW c \in Cookie, NEW i \in ID, NEW b \in BOOLEAN, NEW n \in Name,
             PostSource(c, i, b, n)
      PROVE  HTTP /\ Refused
  BY <1>2, CookieRefused DEF PostSource, UpdateHandler, Refuse, Refused
<1>3. ASSUME NEW i \in ID, DeleteRoute(i) PROVE HTTP /\ Refused
  BY <1>3 DEF DeleteRoute, DeleteHandler, Nobody, IsString, Refuse, Refused
<1> QED BY <1>1, <1>2, <1>3, Zenon

-----------------------------------------------------------------------------
(* Sources are not lost *)

\* Only the source of NewMockRepository has an id that is not "".
OneDefault == \A k \in DOMAIN heap : heap[k].id = DefaultID => k = 1

SourceInv == SourceTypeOK /\ OneDefault /\ LostHasCause

LEMMA SourcesInit == SourceInit => SourceInv
<1> SUFFICES ASSUME SourceInit PROVE SourceInv
  BY Zenon
<1> DEFINE first == Source(DefaultID, "name name", DefaultOwner)
<1>1. /\ repoErr \in BOOLEAN /\ caller = DefaultOwner /\ outcome = 0
      /\ updated = {} /\ deleted = {} /\ calls = 0 /\ slots = <<1>> /\ heap = <<first>>
  BY Zenon DEF SourceInit
<1>2. DefaultOwner \in Owner /\ MaxSources \in Nat \ {0} /\ MaxCalls \in Nat
  BY SourceAssumption, Zenon
<1>3. first \in Row
  BY <1>2, Zenon DEF Source, ID, Row
<1> HIDE DEF first
<1>4. DOMAIN heap = {1} /\ Len(heap) = 1 /\ heap \in Seq(Row) /\ slots \in Seq(1 .. 1)
  BY <1>1, <1>3
<1>5. SourceTypeOK
  <2>1. /\ Len(heap) <= MaxSources /\ slots \in Seq(1 .. Len(heap)) /\ calls \in 0 .. MaxCalls
        /\ caller \in Owner \cup {"http"} /\ outcome \in {0, 400, 500}
        /\ updated \subseteq ID /\ deleted \subseteq ID
    BY <1>1, <1>2, <1>4
  <2> QED BY <1>1, <1>4, <2>1, Zenon DEF SourceTypeOK, Row
<1>6. 1 \in Listed
  BY <1>1 DEF Listed
<1> QED BY <1>4, <1>5, <1>6, Zenon DEF SourceInv, OneDefault, LostHasCause

\* A call that is refused leaves the repository as it was.
LEMMA SourcesKept ==
  ASSUME SourceInv, UNCHANGED repoErr, outcome' \in {0, 400, 500},
         caller' \in Owner \cup {"http"}, calls' \in 0 .. MaxCalls, Unchanged
  PROVE  SourceInv'
<1>1. heap' = heap /\ slots' = slots /\ updated' = updated /\ deleted' = deleted
  BY Zenon DEF Unchanged
<1>2. SourceTypeOK'
  <2>1. /\ repoErr \in BOOLEAN /\ heap \in Seq(Row) /\ Len(heap) <= MaxSources
        /\ slots \in Seq(1 .. Len(heap)) /\ updated \subseteq ID /\ deleted \subseteq ID
    BY ZenonT(40) DEF SourceInv, SourceTypeOK, Row
  <2>2. /\ repoErr' \in BOOLEAN /\ heap' \in Seq(Row) /\ Len(heap') <= MaxSources
        /\ slots' \in Seq(1 .. Len(heap')) /\ updated' \subseteq ID /\ deleted' \subseteq ID
    BY <1>1, <2>1, Zenon
  <2> QED BY <2>2, Zenon DEF SourceTypeOK, Row
<1>3. OneDefault'
  BY <1>1, ZenonT(40) DEF SourceInv, OneDefault
<1>4. LostHasCause'
  <2>1. Listed' = Listed
    BY <1>1 DEF Listed
  <2> QED BY <1>1, <2>1, ZenonT(40) DEF SourceInv, LostHasCause
<1> QED BY <1>2, <1>3, <1>4, Zenon DEF SourceInv

\* A new source gets a slot of its own: CreateSource.
LEMMA CreateStep ==
  ASSUME SourceInv, NEW name \in Name, NEW owner \in Owner, CreateSource(name, owner),
         UNCHANGED repoErr, caller' \in Owner \cup {"http"}, calls' \in 0 .. MaxCalls
  PROVE  SourceInv'
<1>1. CASE repoErr
  BY <1>1, SourcesKept, Zenon DEF CreateSource
<1>2. CASE ~repoErr
  <2> DEFINE new == Source("", name, owner)
  <2>1. /\ Len(heap) < MaxSources /\ heap' = Append(heap, new)
        /\ slots' = Append(slots, Len(heap')) /\ outcome' = 0 /\ UNCHANGED <<updated, deleted>>
    BY <1>2, Zenon DEF CreateSource
  <2>2. new \in Row
    BY Zenon DEF Source, ID, Row
  <2>9. new.id = ""
    BY Zenon DEF Source
  <2>3. /\ heap \in Seq(Row) /\ slots \in Seq(1 .. Len(heap)) /\ Len(heap) \in Nat
        /\ MaxSources \in Nat
    <3>1. SourceTypeOK
      BY Zenon DEF SourceInv
    <3>2. MaxSources \in Nat
      BY SourceAssumption, Zenon
    <3> QED BY <3>1, <3>2, SlotDomain, Zenon
  <2> HIDE DEF new
  <2>4. /\ heap' \in Seq(Row) /\ Len(heap') = Len(heap) + 1 /\ Len(heap') <= MaxSources
        /\ DOMAIN heap' = DOMAIN heap \cup {Len(heap')} /\ heap'[Len(heap')] = new
        /\ \A k \in DOMAIN heap : heap'[k] = heap[k]
    <3>1. heap' \in Seq(Row) /\ Len(heap') = Len(heap) + 1 /\ heap'[Len(heap')] = new
      BY <2>1, <2>2, <2>3
    <3>2. \A k \in DOMAIN heap : heap'[k] = heap[k]
      BY <2>1, <2>3
    <3>3. DOMAIN heap' = DOMAIN heap \cup {Len(heap')} /\ Len(heap') <= MaxSources
      BY <2>1, <2>3, <3>1, SMTT(30)
    <3> QED BY <3>1, <3>2, <3>3, Zenon
  <2>5. /\ slots' \in Seq(1 .. Len(heap')) /\ DOMAIN slots \subseteq DOMAIN slots'
        /\ Len(slots) + 1 \in DOMAIN slots' /\ slots'[Len(slots) + 1] = Len(heap')
        /\ \A i \in DOMAIN slots : slots'[i] = slots[i]
    BY <2>1, <2>3, <2>4, SMTT(30)
  <2>6. SourceTypeOK'
    BY <2>1, <2>4, <2>5, Zenon DEF SourceInv, SourceTypeOK, Row
  <2>7. OneDefault'
    BY <2>4, <2>9, Zenon DEF SourceInv, OneDefault, DefaultID
  <2>8. LostHasCause'
    <3> SUFFICES ASSUME NEW k \in DOMAIN heap' \ Listed'
                 PROVE  heap'[k].id \in deleted' \/ (heap'[k].id = "" /\ "" \in updated')
      BY Zenon DEF LostHasCause
    <3>1. Listed \subseteq Listed' /\ Len(heap') \in Listed'
      BY <2>5, Zenon DEF Listed
    <3>2. k \in DOMAIN heap \ Listed
      BY <2>4, <3>1, Zenon
    <3>3. heap[k].id \in deleted \/ (heap[k].id = "" /\ "" \in updated)
      BY <3>2, Zenon DEF SourceInv, LostHasCause
    <3>4. heap'[k] = heap[k] /\ updated' = updated /\ deleted' = deleted
      BY <2>1, <2>4, <3>2, Zenon
    <3> QED BY <3>3, <3>4, Zenon
  <2> QED BY <2>6, <2>7, <2>8, Zenon DEF SourceInv
<1> QED BY <1>1, <1>2, Zenon

\* UpdateSource displaces a source with the id of the one it stores; the default
\* source it can only replace by itself.
LEMMA UpdateStep ==
  ASSUME SourceInv, NEW name \in Name, NEW owner \in Owner, NEW id \in ID,
         UpdateSource(owner, id, name),
         UNCHANGED repoErr, caller' \in Owner \cup {"http"}, calls' \in 0 .. MaxCalls
  PROVE  SourceInv'
<1> DEFINE at == GetUserSourceByID(owner, id)
<1>1. CASE repoErr \/ at = 0
  BY <1>1, SourcesKept, ZenonT(40) DEF UpdateSource
<1>2. CASE ~(repoErr \/ at = 0)
  <2> DEFINE to == SlotOf(id)
  <2>1. /\ heap' = [heap EXCEPT ![slots[at]].name = name]
        /\ slots' = [slots EXCEPT ![to] = slots[at]]
        /\ outcome' = 0 /\ updated' = updated \cup {id} /\ UNCHANGED deleted
    BY <1>2, Zenon DEF UpdateSource
  <2>2. /\ SourceTypeOK /\ heap \in Seq(Row) /\ slots \in Seq(1 .. Len(heap)) /\ Len(heap) \in Nat
        /\ DOMAIN heap = 1 .. Len(heap) /\ \A i \in DOMAIN slots : slots[i] \in DOMAIN heap
    <3>1. SourceTypeOK
      BY Zenon DEF SourceInv
    <3>2. heap \in Seq(Row) /\ slots \in Seq(1 .. Len(heap)) /\ Len(heap) \in Nat
      BY <3>1, SlotDomain, Zenon
    <3>3. DOMAIN heap = 1 .. Len(heap) /\ \A i \in DOMAIN slots : slots[i] \in DOMAIN heap
      BY <3>1, <3>2, SlotDomain
    <3> QED BY <3>1, <3>2, <3>3, Zenon
  <2>3. at \in DOMAIN slots /\ heap[slots[at]].id = id /\ to # 0
    BY <1>2, <2>2, SourceFound, Zenon
  <2>4. to \in DOMAIN slots /\ heap[slots[to]].id = id
    BY <2>2, <2>3, SlotFound, Zenon
  <2>5. slots[at] \in DOMAIN heap /\ slots[to] \in DOMAIN heap
    BY <2>2, <2>3, <2>4, Zenon
  <2> HIDE DEF at, to
  <2>6. /\ heap' \in Seq(Row) /\ Len(heap') = Len(heap) /\ DOMAIN heap' = DOMAIN heap
        /\ \A k \in DOMAIN heap : heap'[k].id = heap[k].id
    <3> DEFINE row == [heap[slots[at]] EXCEPT !.name = name]
    <3>1. heap' = [heap EXCEPT ![slots[at]] = row]
      BY <2>1, Zenon
    <3>2. heap[slots[at]] \in Row
      BY <2>2, <2>5
    <3>3. row \in Row /\ row.id = heap[slots[at]].id
      BY <3>2, Zenon DEF Row
    <3>4. row \in Row
      BY <3>3, Zenon
    <3> HIDE DEF row
    <3>5. heap' \in Seq(Row) /\ Len(heap') = Len(heap) /\ DOMAIN heap' = DOMAIN heap
      BY <2>2, <2>5, <3>1, <3>4
    <3>6. ASSUME NEW k \in DOMAIN heap PROVE heap'[k].id = heap[k].id
      <4>1. heap'[k] = IF k = slots[at] THEN row ELSE heap[k]
        BY <3>1, Zenon
      <4> QED BY <3>3, <4>1, Zenon
    <3> QED BY <3>5, <3>6, Zenon
  <2>7. /\ slots' \in Seq(1 .. Len(heap')) /\ DOMAIN slots' = DOMAIN slots
        /\ slots'[to] = slots[at] /\ \A i \in DOMAIN slots : i # to => slots'[i] = slots[i]
    BY <2>1, <2>2, <2>4, <2>5, <2>6
  <2>8. SourceTypeOK'
    <3>1. updated' \subseteq ID
      BY <2>1, ZenonT(40) DEF SourceInv, SourceTypeOK
    <3>2. /\ repoErr' \in BOOLEAN /\ Len(heap') <= MaxSources /\ outcome' \in {0, 400, 500}
          /\ deleted' \subseteq ID
      BY <2>1, <2>6, Zenon DEF SourceInv, SourceTypeOK
    <3> QED BY <2>6, <2>7, <3>1, <3>2, Zenon DEF SourceTypeOK, Row
  <2>9. OneDefault'
    BY <2>6, Zenon DEF SourceInv, OneDefault
  <2>10. ASSUME NEW k \in DOMAIN heap' \ Listed'
         PROVE  heap'[k].id \in deleted' \/ (heap'[k].id = "" /\ "" \in updated')
    <3>1. k \in DOMAIN heap /\ heap'[k].id = heap[k].id /\ deleted' = deleted
          /\ updated \subseteq updated' /\ id \in updated'
      BY <2>1, <2>6, Zenon
    <3>2. CASE k \notin Listed
      <4>1. heap[k].id \in deleted \/ (heap[k].id = "" /\ "" \in updated)
        BY <3>1, <3>2, Zenon DEF SourceInv, LostHasCause
      <4> QED BY <3>1, <4>1, Zenon
    <3>3. CASE k \in Listed
      <4>1. k = slots[to]
        BY <2>7, <3>3, Zenon DEF Listed
      <4>2. k # slots[at]
        BY <2>4, <2>7, Zenon DEF Listed
      <4>3. id # DefaultID
        BY <2>3, <2>4, <2>5, <4>1, <4>2, Zenon DEF SourceInv, OneDefault
      <4>4. id = ""
        BY <4>3, Zenon DEF ID
      <4> QED BY <2>4, <3>1, <4>1, <4>4, Zenon
    <3> QED BY <3>2, <3>3, Zenon
  <2> QED BY <2>8, <2>9, <2>10, Zenon DEF SourceInv, LostHasCause
<1> QED BY <1>1, <1>2, Zenon

\* DeleteSource puts a new tombstone in the slot of a source with the id.
LEMMA DeleteStep ==
  ASSUME SourceInv, NEW id \in ID, DeleteSource(id),
         UNCHANGED repoErr, caller' \in Owner \cup {"http"}, calls' \in 0 .. MaxCalls
  PROVE  SourceInv'
<1> DEFINE at == SlotOf(id)
<1>1. CASE repoErr \/ at = 0
  BY <1>1, SourcesKept, ZenonT(40) DEF DeleteSource
<1>2. CASE ~(repoErr \/ at = 0)
  <2> DEFINE new == Tombstone
  <2>1. /\ Len(heap) < MaxSources /\ heap' = Append(heap, new)
        /\ slots' = [slots EXCEPT ![at] = Len(heap')]
        /\ outcome' = 0 /\ deleted' = deleted \cup {id} /\ UNCHANGED updated
    BY <1>2, Zenon DEF DeleteSource
  <2>2. new \in Row
    BY Zenon DEF Tombstone, Source, ID, Row
  <2>3. new.id = ""
    BY Zenon DEF Tombstone, Source
  <2>4. /\ SourceTypeOK /\ heap \in Seq(Row) /\ slots \in Seq(1 .. Len(heap)) /\ Len(heap) \in Nat
        /\ MaxSources \in Nat
    <3>1. SourceTypeOK
      BY Zenon DEF SourceInv
    <3>2. MaxSources \in Nat
      BY SourceAssumption, Zenon
    <3> QED BY <3>1, <3>2, SlotDomain, Zenon
  <2>5. at \in DOMAIN slots /\ heap[slots[at]].id = id
    BY <1>2, <2>4, SlotFound, Zenon
  <2> HIDE DEF at, new
  <2>6. /\ heap' \in Seq(Row) /\ Len(heap') = Len(heap) + 1 /\ Len(heap') <= MaxSources
        /\ DOMAIN heap' = DOMAIN heap \cup {Len(heap')} /\ heap'[Len(heap')] = new
        /\ \A k \in DOMAIN heap : heap'[k] = heap[k]
    <3>1. heap' \in Seq(Row) /\ Len(heap') = Len(heap) + 1 /\ heap'[Len(heap')] = new
      BY <2>1, <2>2, <2>4
    <3>2. \A k \in DOMAIN heap : heap'[k] = heap[k]
      BY <2>1, <2>4, SMTT(30)
    <3>3. DOMAIN heap' = DOMAIN heap \cup {Len(heap')} /\ Len(heap') <= MaxSources
      BY <2>1, <2>4, <3>1, SMTT(30)
    <3> QED BY <3>1, <3>2, <3>3, Zenon
  <2>7. /\ slots' \in Seq(1 .. Len(heap')) /\ DOMAIN slots' = DOMAIN slots
        /\ slots'[at] = Len(heap') /\ \A i \in DOMAIN slots : i # at => slots'[i] = slots[i]
    <3>1. slots \in Seq(1 .. Len(heap')) /\ Len(heap') \in 1 .. Len(heap') /\ at \in DOMAIN slots
      BY <2>4, <2>5, <2>6
    <3> QED BY <2>1, <3>1
  <2>8. SourceTypeOK'
    <3>1. deleted' \subseteq ID
      BY <2>1, Zenon DEF SourceInv, SourceTypeOK
    <3>2. repoErr' \in BOOLEAN /\ outcome' \in {0, 400, 500} /\ updated' \subseteq ID
      BY <2>1, ZenonT(40) DEF SourceInv, SourceTypeOK
    <3> QED BY <2>6, <2>7, <3>1, <3>2, ZenonT(40) DEF SourceTypeOK, Row
  <2>9. OneDefault'
    BY <2>3, <2>6, Zenon DEF SourceInv, OneDefault, DefaultID
  <2>10. ASSUME NEW k \in DOMAIN heap' \ Listed'
         PROVE  heap'[k].id \in deleted' \/ (heap'[k].id = "" /\ "" \in updated')
    <3>1. k # Len(heap')
      BY <2>5, <2>7, Zenon DEF Listed
    <3>2. k \in DOMAIN heap /\ heap'[k] = heap[k] /\ updated' = updated
          /\ deleted \subseteq deleted' /\ id \in deleted'
      BY <2>1, <2>6, <3>1, Zenon
    <3>3. CASE k \notin Listed
      <4>1. heap[k].id \in deleted \/ (heap[k].id = "" /\ "" \in updated)
        BY <3>2, <3>3, Zenon DEF SourceInv, LostHasCause
      <4> QED BY <3>2, <4>1, Zenon
    <3>4. CASE k \in Listed
      <4>1. k = slots[at]
        BY <2>7, <3>4, Zenon DEF Listed
      <4> QED BY <2>5, <3>2, <4>1, Zenon
    <3> QED BY <3>3, <3>4, Zenon
  <2> QED BY <2>8, <2>9, <2>10, Zenon DEF SourceInv, LostHasCause
<1> QED BY <1>1, <1>2, Zenon

LEMMA SourcesHold == SourceSpec => []SourceInv
<1>1. SourceInv /\ [SourceNext]_(sourceVars) => SourceInv'
  <2> SUFFICES ASSUME SourceInv, [SourceNext]_(sourceVars) PROVE SourceInv'
    BY Zenon
  <2>0. calls \in 0 .. MaxCalls /\ MaxCalls \in Nat /\ caller \in Owner \cup {"http"}
        /\ outcome \in {0, 400, 500}
    <3>1. MaxCalls \in Nat
      BY SourceAssumption, Zenon
    <3> QED BY <3>1, Zenon DEF SourceInv, SourceTypeOK
  <2>1. ASSUME NEW o \in Owner, NEW n \in Name, CallCreate(o, n) PROVE SourceInv'
    <3>1. /\ CreateSource(n, o) /\ UNCHANGED repoErr
          /\ caller' \in Owner \cup {"http"} /\ calls' \in 0 .. MaxCalls
      BY <2>0, <2>1 DEF CallCreate
    <3> QED BY <3>1, CreateStep, Zenon
  <2>2. ASSUME NEW o \in Owner, NEW i \in ID, NEW n \in Name, CallUpdate(o, i, n)
        PROVE  SourceInv'
    <3>1. /\ UpdateSource(o, i, n) /\ UNCHANGED repoErr
          /\ caller' \in Owner \cup {"http"} /\ calls' \in 0 .. MaxCalls
      BY <2>0, <2>2 DEF CallUpdate
    <3> QED BY <3>1, UpdateStep, Zenon
  <2>3. ASSUME NEW o \in Owner, NEW i \in ID, CallDelete(o, i) PROVE SourceInv'
    <3>1. /\ DeleteSource(i) /\ UNCHANGED repoErr
          /\ caller' \in Owner \cup {"http"} /\ calls' \in 0 .. MaxCalls
      BY <2>0, <2>3 DEF CallDelete
    <3> QED BY <3>1, DeleteStep, Zenon
  <2>4. ASSUME HTTP, Refused PROVE SourceInv'
    <3>1. /\ Unchanged /\ outcome' \in {0, 400, 500} /\ UNCHANGED repoErr
          /\ caller' \in Owner \cup {"http"} /\ calls' \in 0 .. MaxCalls
      BY <2>0, <2>4 DEF HTTP, Refused
    <3> QED BY <3>1, SourcesKept, Zenon
  <2>5. CASE UNCHANGED sourceVars
    <3>1. /\ Unchanged /\ outcome' \in {0, 400, 500} /\ UNCHANGED repoErr
          /\ caller' \in Owner \cup {"http"} /\ calls' \in 0 .. MaxCalls
      BY <2>0, <2>5 DEF sourceVars, Unchanged
    <3> QED BY <3>1, SourcesKept, Zenon
  <2> QED BY <2>1, <2>2, <2>3, <2>4, <2>5, RouteRefused, Zenon DEF SourceNext
<1> QED BY <1>1, SourcesInit, PTL DEF SourceSpec

\* UpdateSource and DeleteSource make a source disappear from MockRepo only when it
\* was deleted or has the id "" that CreateSource gives.
THEOREM SourcesAreKept == SourceSpec => []LostHasCause
<1>1. SourceInv => LostHasCause
  BY Zenon DEF SourceInv, LostHasCause
<1> QED BY <1>1, SourcesHold, PTL

\* Every request and every call leaves users and sources with their declared types.
THEOREM ManagerTypeCorrect == UserSpec /\ SourceSpec => []ManagerTypeOK
<1>1. UserTypeOK /\ SourceInv => ManagerTypeOK
  BY Zenon DEF SourceInv, ManagerTypeOK
<1> QED BY <1>1, AccountsHold, SourcesHold, PTL
=============================================================================
