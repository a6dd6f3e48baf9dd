------------------------------ MODULE UserService ------------------------------
(***************************************************************************)
(* Accounts in the manager: POST /users/register and POST /users/login,     *)
(* from the HTTP handler through the validator and the service to ScyllaDB.  *)
(*                                                                          *)
(* Every request runs in a goroutine of its own.  Register first asks        *)
(* whether the email is taken and inserts the user two steps later; the     *)
(* table has the key (email, is_active), and an INSERT whose key exists      *)
(* replaces the row.                                                        *)
(*                                                                          *)
(* Source: src/manager/delivery/httpserver/userhandler,                      *)
(*         src/manager/service/userservice, authservice,                     *)
(*         src/manager/validator/uservalidator,                              *)
(*         src/manager/repository/scyllarepo                                 *)
(***************************************************************************)
EXTENDS RichError, Jwt, FiniteSets

CONSTANTS
  Registration,  \* requests to /users/register; each draws a fresh user id
  Login,         \* requests to /users/login
  EmailOf,       \* the email of each request
  PasswordOf,    \* the password of each request
  FormOf,        \* which fields of the request break a rule of the validator
  NoUser,        \* no row
  AccessDays,    \* access_expiration_time_in_day
  RefreshDays,   \* refresh_expiration_time_in_day
  MaxFailures,   \* bound on the queries that ScyllaDB fails
  MaxCrashes     \* bound on the crashes of the manager

Request == Registration \cup Login

Email == {EmailOf[r] : r \in Request}

\* "badEmail": the email is missing or does not match the pattern;
\* "badField": another field is missing, too long or too weak.
Form == {"ok", "badEmail", "badField"}

\* What is assumed of the constants.
ASSUME UserAssumption ==
  /\ Registration \cap Login = {}
  /\ FormOf \in [Request -> Form]
  /\ DOMAIN EmailOf = Request /\ DOMAIN PasswordOf = Request
  /\ NoUser \notin Registration
  /\ MaxFailures \in Nat
  /\ MaxCrashes \in Nat

VARIABLES
  step,       \* where the goroutine of each request is
  answer,     \* the HTTP status it answered, 0 before
  users,      \* ScyllaDB: the user id in the row of each email
  found,      \* the user id that GetUserByEmail returned to a login
  requested,  \* the users for whom a default project was requested
  writes,     \* history: the inserts that took effect, in order
  ahead,      \* history: the users stored when a registration was validated
  created,    \* history: the users answered 201 when a login began
  misled,     \* history: the requests whose lookup failed unnoticed
  failures,   \* failed queries so far
  crashes     \* crashes so far

userVars == <<step, answer, users, found, requested, writes, ahead, created, misled,
              failures, crashes>>

db == <<users, writes>>

Stored == {writes[i] : i \in DOMAIN writes}

UserInit ==
  /\ step = [r \in Request |-> "new"]
  /\ answer = [r \in Request |-> 0]
  /\ users = [e \in Email |-> NoUser]
  /\ found = [l \in Login |-> NoUser]
  /\ requested = {}
  /\ writes = << >>
  /\ ahead = [r \in Registration |-> {}]
  /\ created = [l \in Login |-> {}]
  /\ misled = {}
  /\ failures = 0
  /\ crashes = 0

\* The handler answers and its goroutine ends.
Reply(r, code) ==
  /\ step' = [step EXCEPT ![r] = "done"]
  /\ answer' = [answer EXCEPT ![r] = code]

-----------------------------------------------------------------------------
(* The validator *)

\* DoesUserExistsByEmail runs its query twice: the row is scanned from one
\* iterator and the error is read from another.  A scan that fails reports no
\* row, and reports no error unless the second query fails too.
Lookup(r) ==
  {[exists |-> users[EmailOf[r]] # NoUser, failed |-> FALSE, misleading |-> FALSE]}
  \cup (IF failures < MaxFailures
        THEN {[exists |-> FALSE, failed |-> FALSE, misleading |-> TRUE],
              [exists |-> FALSE, failed |-> TRUE, misleading |-> FALSE]}
        ELSE {})

\* Mutant: the answer of the lookup is not looked at.
isEmailAlreadyRegisteredNever(lookup) ==
  IF lookup.failed THEN ErrSomeThingWentWrong ELSE ""

isEmailAlreadyRegistered(lookup) ==
  IF lookup.failed THEN ErrSomeThingWentWrong
  ELSE IF lookup.exists THEN ErrAuthUserExisting ELSE ""

isUserRegistered(lookup) ==
  IF lookup.failed THEN ErrSomeThingWentWrong
  ELSE IF ~lookup.exists THEN ErrAuthUserNotFound ELSE ""

\* What is said of the email: its pattern comes first, and the lookup is made
\* only for an email that has it.
EmailField(r, lookup) ==
  IF FormOf[r] = "badEmail" THEN ErrEmailIsNotValid
  ELSE IF r \in Registration THEN isEmailAlreadyRegistered(lookup)
  ELSE isUserRegistered(lookup)

IsValid(r, lookup) == FormOf[r] # "badField" /\ EmailField(r, lookup) = ""

\* The error of ValidateRegisterRequest and ValidateLoginRequest.
ValidationError ==
  WithWrappedError(WithKind(WithMessage(New, ErrorMsgInvalidInput), KindInvalid),
                   Plain("validation.Errors"))

\* Mutant: the validation error has the kind of an internal one.
ValidationCodeUnexpected(r, lookup) == HttpCode(WithKind(New, KindUnexpected))

\* The handlers turn a validation error into its HTTP code; UserLogin answers
\* 401 when the email is unknown.
ValidationCode(r, lookup) ==
  IF r \in Login /\ EmailField(r, lookup) = ErrAuthUserNotFound
  THEN 401 ELSE HttpCode(ValidationError)

\* Validation begins every request: it succeeds, or the request is answered.
Validate(r, next) ==
  /\ step[r] = "new"
  /\ \E lookup \in Lookup(r) :
       /\ FormOf[r] = "badEmail" => ~lookup.failed /\ ~lookup.misleading
       /\ \/ /\ IsValid(r, lookup)
             /\ step' = [step EXCEPT ![r] = next]
             /\ UNCHANGED answer
          \/ /\ ~IsValid(r, lookup)
             /\ Reply(r, ValidationCode(r, lookup))
       /\ misled' = IF lookup.misleading THEN misled \cup {r} ELSE misled
       /\ failures' = IF lookup.failed \/ lookup.misleading THEN failures + 1 ELSE failures
  /\ ahead' = [q \in Registration |-> IF q = r THEN Stored ELSE ahead[q]]
  /\ created' = [l \in Login |-> IF l = r THEN {q \in Registration : answer[q] = 201}
                                 ELSE created[l]]
  /\ UNCHANGED <<users, found, requested, writes, crashes>>

-----------------------------------------------------------------------------
(* Register *)

ValidateRegisterRequest(r) == Validate(r, "hash")

\* bcrypt; an error becomes a RichError without a message.
HashPassword(r) ==
  /\ step[r] = "hash"
  /\ \/ /\ step' = [step EXCEPT ![r] = "insert"]
        /\ UNCHANGED answer
     \/ Reply(r, 400)
  /\ UNCHANGED <<db, found, requested, ahead, created, misled, failures, crashes>>

\* The INSERT of scyllarepo.Register: the row of the email, if there is one, is
\* replaced.  A query that reports an error may have taken effect.
InsertUser(r) ==
  /\ step[r] = "insert"
  /\ \/ /\ users' = [users EXCEPT ![EmailOf[r]] = r]
        /\ writes' = Append(writes, r)
        /\ step' = [step EXCEPT ![r] = "send"]
        /\ UNCHANGED <<answer, failures>>
     \/ /\ failures < MaxFailures
        /\ failures' = failures + 1
        /\ Reply(r, 400)
        /\ \/ UNCHANGED <<users, writes>>
           \/ /\ users' = [users EXCEPT ![EmailOf[r]] = r]
              /\ writes' = Append(writes, r)
  /\ UNCHANGED <<found, requested, ahead, created, misled, crashes>>

\* The user id is sent to the internal broker, and the request is answered.
RequestDefaultProject(r) ==
  /\ step[r] = "send"
  /\ requested' = requested \cup {r}
  /\ Reply(r, 201)
  /\ UNCHANGED <<db, found, ahead, created, misled, failures, crashes>>

-----------------------------------------------------------------------------
(* Login *)

ValidateLoginRequest(l) == Validate(l, "get")

\* UserLogin answers an error of the service by its text.
LoginCode(err) == IF ErrorText(err) = ErrWrongCredentials THEN 401 ELSE 400

\* GetUserByEmail reads the row; an error, or a row that is not there, is
\* wrapped in a RichError without a message.
GetUserByEmail(l) ==
  /\ step[l] = "get"
  /\ \/ /\ users[EmailOf[l]] # NoUser
        /\ found' = [found EXCEPT ![l] = users[EmailOf[l]]]
        /\ step' = [step EXCEPT ![l] = "check"]
        /\ UNCHANGED <<answer, failures>>
     \/ /\ failures < MaxFailures
        /\ failures' = failures + 1
        /\ Reply(l, LoginCode(WithWrappedError(New, Plain("gocql"))))
        /\ UNCHANGED found
  /\ UNCHANGED <<db, requested, ahead, created, misled, crashes>>

TheJWT == NewJWT("secret", AccessDays, RefreshDays)

\* The tokens of the answer to a login; the row that was read has an id.
Tokens(l) == [access |-> CreateAccessToken(TheJWT, found[l]),
              refresh |-> CreateRefreshToken(TheJWT, found[l])]

\* Mutant: the password is not compared.
CheckPasswordHashAlways(l) ==
  /\ step[l] = "check"
  /\ Reply(l, 200)
  /\ UNCHANGED <<db, found, requested, ahead, created, misled, failures, crashes>>

\* bcrypt accepts the password that the stored hash was made from; then the
\* answer carries Tokens(l).
CheckPasswordHash(l) ==
  /\ step[l] = "check"
  /\ Reply(l, IF PasswordOf[l] = PasswordOf[found[l]] THEN 200
              ELSE LoginCode(WithMessage(WithWrappedError(New, Nil), ErrWrongCredentials)))
  /\ UNCHANGED <<db, found, requested, ahead, created, misled, failures, crashes>>

-----------------------------------------------------------------------------

InFlight(r) == step[r] \notin {"new", "done", "dead"}

\* The manager dies: the requests in progress are never answered, and the table
\* keeps what was inserted.
Crash ==
  /\ crashes < MaxCrashes
  /\ crashes' = crashes + 1
  /\ step' = [r \in Request |-> IF InFlight(r) THEN "dead" ELSE step[r]]
  /\ UNCHANGED <<answer, db, found, requested, ahead, created, misled, failures>>

RegisterUser(r) ==
  \/ ValidateRegisterRequest(r)
  \/ HashPassword(r)
  \/ InsertUser(r)
  \/ RequestDefaultProject(r)

UserLogin(l) ==
  \/ ValidateLoginRequest(l)
  \/ GetUserByEmail(l)
  \/ CheckPasswordHash(l)

UserNext ==
  \/ \E r \in Registration : RegisterUser(r)
  \/ \E l \in Login : UserLogin(l)
  \/ Crash

UserSpec == UserInit /\ [][UserNext]_userVars

-----------------------------------------------------------------------------
(* Properties *)

\* The type of every variable, for the requests of register and login.
UserTypeOK ==
  /\ step \in [Request -> {"new", "hash", "insert", "send", "get", "check", "done", "dead"}]
  /\ answer \in [Request -> {0, 200, 201, 400, 401, 422}]
  /\ users \in [Email -> Registration \cup {NoUser}]
  /\ found \in [Login -> Registration \cup {NoUser}]
  /\ requested \subseteq Registration
  /\ writes \in Seq(Registration)
  /\ ahead \in [Registration -> SUBSET Registration]
  /\ created \in [Login -> SUBSET Registration]
  /\ misled \subseteq Request
  /\ failures \in 0..MaxFailures
  /\ crashes \in 0..MaxCrashes

\* One registration replaces the row of another only in two ways: the insert it
\* replaces came after its own check of the email (register validates and
\* inserts in separate steps), or its check failed and the failure was lost
\* (DoesUserExistsByEmail).
OverwrittenHasCause ==
  \A i, j \in DOMAIN writes :
    i < j /\ EmailOf[writes[i]] = EmailOf[writes[j]]
      => writes[i] \notin ahead[writes[j]] \/ writes[j] \in misled

\* Refusing a user who was answered 201 before logging in, with the email and
\* password of the registration, has a cause: another registration of the email
\* has replaced the row, or the login's lookup failed unnoticed.
RefusedHasCause ==
  \A l \in Login : \A r \in created[l] :
    answer[l] = 401 /\ EmailOf[l] = EmailOf[r] /\ PasswordOf[l] = PasswordOf[r]
      => \/ l \in misled
         \/ \E q \in Stored \ {r} : /\ EmailOf[q] = EmailOf[r]
                                    /\ PasswordOf[q] # PasswordOf[r]

\* The tokens of a login answered 200 are for a stored user whose registration
\* had the email and the password of the login.
TokenIsOwners ==
  \A l \in Login :
    answer[l] = 200 => LET owner == Tokens(l).access.userID.base64 IN
                       /\ owner \in Stored
                       /\ EmailOf[owner] = EmailOf[l]
                       /\ PasswordOf[owner] = PasswordOf[l]

\* A login is decided rightly, whatever was inserted between its three steps:
\* it is refused only with a cause and accepted only for the owner.
LoginIsRight == RefusedHasCause /\ TokenIsOwners

\* What the comments on the lifetimes in config.yml promise, 7 and 28 days: the
\* tokens of a login are accepted when they are handed out.
TokensAreUsable ==
  \A l \in Login : answer[l] = 200 => /\ ParseToken(TheJWT, Tokens(l).access)
                                      /\ ParseToken(TheJWT, Tokens(l).refresh)
=============================================================================
