----------------------------- MODULE AtomicStore -----------------------------
(***************************************************************************)
(* What store.go promises the daemon: state.json changes only by whole     *)
(* updates, one at a time.  An update reported as done is in the file, one *)
(* reported as failed is not, and one whose caller dies before the report  *)
(* is in the file entirely or not at all.  Flushing the state changes      *)
(* nothing.                                                                *)
(***************************************************************************)
EXTENDS Naturals

CONSTANT Callers        \* goroutines that call store.Update

VARIABLES
    contents,   \* contents[c]: how many of c's updates are in state.json
    request,    \* where the update of each caller is
    reported    \* how many updates each caller was told are done

vars == <<contents, request, reported>>

Init == /\ contents = [c \in Callers |-> 0]
        /\ request = [c \in Callers |-> "none"]
        /\ reported = [c \in Callers |-> 0]

Ask(c) == /\ request[c] = "none"
          /\ request' = [request EXCEPT ![c] = "pending"]
          /\ UNCHANGED <<contents, reported>>

\* The rename that replaces state.json.
Apply(c) == /\ request[c] = "pending"
            /\ contents' = [contents EXCEPT ![c] = @ + 1]
            /\ request' = [request EXCEPT ![c] = "applied"]
            /\ UNCHANGED reported

ReportDone(c) == /\ request[c] = "applied"
                 /\ request' = [request EXCEPT ![c] = "none"]
                 /\ reported' = [reported EXCEPT ![c] = @ + 1]
                 /\ UNCHANGED contents

ReportFailed(c) == /\ request[c] = "pending"
                   /\ request' = [request EXCEPT ![c] = "none"]
                   /\ UNCHANGED <<contents, reported>>

\* The process dies: nobody is told anything.
Crash == /\ request' = [c \in Callers |-> "none"]
         /\ UNCHANGED <<contents, reported>>

Next == \/ \E c \in Callers : \/ Ask(c)
                              \/ Apply(c)
                              \/ ReportDone(c)
                              \/ ReportFailed(c)
        \/ Crash

Spec == Init /\ [][Next]_vars
=============================================================================
