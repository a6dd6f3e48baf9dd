-------------------------------- MODULE Manager --------------------------------
(***************************************************************************)
(* The accounts and the sources of the manager beside each other.           *)
(***************************************************************************)
EXTENDS UserService, SourceService

\* The types of UserService and of SourceService: what their requests and calls
\* leave in every variable.
ManagerTypeOK == UserTypeOK /\ SourceTypeOK
=============================================================================
