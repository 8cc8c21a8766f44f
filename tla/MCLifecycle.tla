---------------------------- MODULE MCLifecycle ----------------------------
(***************************************************************************)
(* A small instance of Lifecycle: an executor (1), a service on it (2) and *)
(* a service (3) that depends on the other; the executor and the first     *)
(* service may be aborted.  One registration runs on the executor for 3,   *)
(* one on the system workqueue for 2, and two threads call boot() and      *)
(* stop().                                                                 *)
(***************************************************************************)
EXTENDS Lifecycle

Chain == <<{}, {1}, {2}>>
Targets == <<1, SystemWorkQueue>>
Owners == <<{1, 3}, {2}>>

(* Closure is what the recursion of mark_dependency_closure marks.         *)
Marked[c \in Components] == {c} \cup UNION {Marked[d] : d \in Deps[c]}

ASSUME \A S \in SUBSET Components : Closure(S) = UNION {Marked[c] : c \in S}
============================================================================
