------------------------------ MODULE MCProcess ------------------------------
(* Task and process ids as the kernel hands them out: 1 is the first user  *)
(* process and its task, 2 the idle process and task.                      *)
EXTENDS Process

Ids3 == {1, 3, 4}
Ids4 == {1, 3, 4, 5}
Ids5 == {1, 3, 4, 5, 6}
=============================================================================
