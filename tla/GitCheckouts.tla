---------------------------- MODULE GitCheckouts ----------------------------
(***************************************************************************)
(* The checkouts of a Git repository below the Git cache bucket, which the *)
(* tasks of all processes share, and what their users rely on.  How the    *)
(* checkouts come about is in GitResolver.                                 *)
(***************************************************************************)
EXTENDS Naturals

CONSTANTS
    Tasks,      \* tasks that want the branch
    MaxPushes   \* bound on how often the branch moves

Commits == 0..MaxPushes

VARIABLES
    checkout,  \* checkout[c]: how far the checkout of c has come
    marker,    \* marker[c]: whether the `.ok` file of c exists
    stage,     \* stage[t]: where the task is, "using" when it has its checkout
    rev        \* rev[t]: the commit being checked out, or None

(* The `.ok` file vouches for the checkout beside it: at every moment,     *)
(* that of a crash between any two file operations included, it exists     *)
(* only when the checkout is complete.                                     *)
MarkerVouches == \A c \in Commits : marker[c] => checkout[c] = "full"

(* The source tree a task builds from, after it has dropped the lock, is   *)
(* complete and stays so: no other task or process, none that is started   *)
(* after a crash either, takes it away or rewrites it.                     *)
UsedCheckoutsComplete == \A t \in Tasks : stage[t] = "using" => checkout[rev[t]] = "full"
=============================================================================
