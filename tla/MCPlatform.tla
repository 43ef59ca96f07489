------------------------------ MODULE MCPlatform ------------------------------
(* Platform on a small instance.                                           *)
EXTENDS Platform

(* One for whatever connection is best, and two through a chosen one.      *)
SomePayloads == {[size |-> 1, session |-> None], [size |-> 2, session |-> 1]}

(* A notification with its timeline, which can be cancelled.               *)
SomeScreens == {NotificationPage}
=============================================================================
