------------------------------ MODULE TaskEntity ------------------------------
(***************************************************************************)
(* The task entity of the destination service: the delivery status of a    *)
(* task, the questions HandleTask asks of it, its encoding in Redis, and    *)
(* the task value itself.                                                   *)
(*                                                                          *)
(* Source: src/destination/entity/taskentity/task.go                        *)
(***************************************************************************)
EXTENDS Naturals

InvalidTaskStatus == 0
NotExecutedTaskStatus == 1
RetriableFailedTaskStatus == 2
UnRetriableFailedTaskStatus == 3
SuccessTaskStatus == 4

IntegrationDeliveryStatus == 0 .. 4

\* Task.Attempts is a uint8.
AttemptsModulus == 256

Attempts == 0 .. AttemptsModulus - 1

\* The fields of taskentity.Task that the delivery path reads or writes: the
\* ID is the key the task is stored under, the event travels separately.
TaskRecord == [DeliveryStatus : IntegrationDeliveryStatus, Attempts : Attempts]

\* Mutant: a failed task is not tried again.
CanBeExecutedOnce(s) == s = NotExecutedTaskStatus

CanBeExecuted(s) == s \in {NotExecutedTaskStatus, RetriableFailedTaskStatus}

IsBroadcast(s) == s \notin {InvalidTaskStatus, NotExecutedTaskStatus}

MakeTaskUsingProcessedEvent ==
  [DeliveryStatus |-> NotExecutedTaskStatus, Attempts |-> 0]

-----------------------------------------------------------------------------
(* The status is kept in Redis as a one digit string. *)

NumericString == {"0", "1", "2", "3", "4"}

ToNumericString(s) ==
  CASE s = InvalidTaskStatus -> "0"
    [] s = NotExecutedTaskStatus -> "1"
    [] s = RetriableFailedTaskStatus -> "2"
    [] s = UnRetriableFailedTaskStatus -> "3"
    [] s = SuccessTaskStatus -> "4"

\* Any other text is read as the invalid status, which is never executed.
NumericStringToIntegrationDeliveryStatus(str) ==
  CASE str = "0" -> InvalidTaskStatus
    [] str = "1" -> NotExecutedTaskStatus
    [] str = "2" -> RetriableFailedTaskStatus
    [] str = "3" -> UnRetriableFailedTaskStatus
    [] str = "4" -> SuccessTaskStatus
    [] OTHER -> InvalidTaskStatus
=============================================================================
