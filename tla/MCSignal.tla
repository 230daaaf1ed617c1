------------------------------ MODULE MCSignal -------------------------------
(***************************************************************************)
(* Instances of Signal: SIGKILL, SIGUSR1 (terminates by default) and       *)
(* SIGCHLD (ignored by default).                                           *)
(***************************************************************************)
EXTENDS Signal

User(info, reset, mask) ==
    [sa_handler |-> "user", siginfo |-> info, resethand |-> reset, sa_mask |-> mask]

\* Handlers with and without siginfo.
TwoLayouts == {User(TRUE, FALSE, {}), User(FALSE, FALSE, {})}

\* A handler that blocks everything.
FillMask == {User(FALSE, FALSE, Sigs)}

\* A handler that blocks SIGCHLD and is reset when it is called; programs
\* install it again, also while it runs.
OneShot == {User(TRUE, TRUE, {17})}

BlockAll == {Sigs}
=============================================================================
