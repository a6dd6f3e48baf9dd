------------------------------- MODULE RichError -------------------------------
(***************************************************************************)
(* The errors of the manager and the HTTP answers made from them.           *)
(*                                                                          *)
(* An error is the chain of its nodes, the outermost first: the node after   *)
(* a RichError is the error it wraps.  RichError has no Unwrap method, so    *)
(* errors.As looks at the first node of a chain and no further.              *)
(*                                                                          *)
(* Source: src/pkg/richerror, src/pkg/httpmsg, src/pkg/errmsg                *)
(***************************************************************************)
EXTENDS Naturals, Sequences

KindInvalid == 1
KindForbidden == 2
KindNotFound == 3
KindUnexpected == 4

Kind == 0 .. 4

ErrWrongCredentials == "username or password isn't correct"
ErrSomeThingWentWrong == "some thing went wrong"
ErrAuthUserNotFound == "user not found"
ErrEmailIsNotValid == "email is not valid"
ErrAuthUserExisting == "a user with this email is already registered"
ErrorMsgInvalidInput == "invalid input"

Nil == << >>

Plain(message) == <<[rich |-> FALSE, message |-> message, kind |-> 0]>>

New == <<[rich |-> TRUE, message |-> "", kind |-> 0]>>

WithMessage(e, message) == [e EXCEPT ![1].message = message]

WithKind(e, kind) == [e EXCEPT ![1].kind = kind]

WithWrappedError(e, wrapped) == <<Head(e)>> \o wrapped

\* errors.As(e, &re)
AsRichError(e) == e # Nil /\ Head(e).rich

\* The nodes that Kind and Message can reach.
Reached(e) == {i \in DOMAIN e : \A j \in 1 .. i : e[j].rich}

\* The first node that carries a value decides; 0 when there is none.
KindOf(e) ==
  LET with == {i \in Reached(e) : e[i].kind # 0} IN
  IF with = {} THEN 0 ELSE e[CHOOSE i \in with : \A j \in with : i <= j].kind

\* Error() of a RichError is its own message, set or not.
ErrorText(e) == Head(e).message

mapKindToHTTPStatusCode(kind) ==
  CASE kind = KindInvalid -> 422
    [] kind = KindNotFound -> 404
    [] kind = KindForbidden -> 403
    [] kind = KindUnexpected -> 500
    [] OTHER -> 400

\* httpmsg.Error
HttpCode(e) == IF AsRichError(e) THEN mapKindToHTTPStatusCode(KindOf(e)) ELSE 400
=============================================================================
