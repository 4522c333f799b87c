-------------------------- MODULE ExecutionService --------------------------
(***************************************************************************)
(* What ProcessExecutor promises its callers, without workers, channels,   *)
(* timers or crashes: a first-come first-served queue with one server.     *)
(* Calls join the line; the server takes them in order, one at a time; a   *)
(* call that leaves the line unserved is rejected; a call that was served  *)
(* is settled when it leaves the server.  Nothing is served twice and no   *)
(* verdict is ever taken back.                                             *)
(***************************************************************************)
EXTENDS Naturals, Sequences

CONSTANTS Calls,     \* the calls, numbered in the order they are made
          Verdicts   \* how a served call may settle

VARIABLES promise,   \* promise[c]: "none", "waiting" or a verdict
          line,      \* calls accepted and not served yet
          serving    \* the call being served, if any

svars == <<promise, line, serving>>

Init ==
    /\ promise = [c \in Calls |-> "none"]
    /\ line = <<>>
    /\ serving = {}

\* The line moves: all joins the end, the first k calls leave it, and those of
\* them that are not in served are rejected.  The call that was being served
\* may settle in the same step, and must before another one is served.
Move(all, k, served, verdict) ==
    LET leaving == {all[i] : i \in 1..k}
        joined  == {all[i] : i \in 1..Len(all)} \ {line[i] : i \in 1..Len(line)}
    IN  /\ line' = SubSeq(all, k + 1, Len(all))
        /\ \/ served \subseteq serving
           \/ k > 0 /\ served = {all[k]}
        /\ serving' = served
        /\ promise' = [c \in Calls |->
                         CASE c \in serving \ served -> verdict
                           [] c \in leaving \ (served \cup serving) -> "hostfault"
                           [] c \in joined \ (leaving \ served) -> "waiting"
                           [] OTHER -> promise[c]]

Next ==
    \E joining \in {<<>>} \cup {<<c>> : c \in {d \in Calls : promise[d] = "none"}} :
    \E k \in 0..Len(line \o joining), v \in Verdicts :
    \E served \in {{}, serving} \cup {{c} : c \in Calls} :
        Move(line \o joining, k, served, v)

Spec == Init /\ [][Next]_svars

=============================================================================
