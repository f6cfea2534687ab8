--------------------------- MODULE ReportAbstract ---------------------------
(***************************************************************************)
(* What main() of gdpruler_benchmark_plot.py promises, without the        *)
(* DataFrame, the charts or the savefig calls: it goes through the views   *)
(* in a fixed order, and each one either adds its complete artifacts to    *)
(* the output or, for the one optional view only, adds nothing.  At any    *)
(* point an uncaught exception may end the run with exit status 1; after   *)
(* the last view it ends with exit status 0.                               *)
(***************************************************************************)
EXTENDS Naturals, Sequences

CONSTANTS
    Order,     \* the views in the order main() calls them
    Optional   \* the one view that may return without writing anything

VARIABLES
    done,      \* how many views of Order main() has returned from
    out,       \* the views whose artifacts this run has written
    result     \* "running", "exit0" or "exit1"

avars == <<done, out, result>>

Init ==
    /\ done = 0
    /\ out = {}
    /\ result = "running"

(* The next view returns after writing its artifacts. *)
Produce ==
    /\ result = "running" /\ done < Len(Order)
    /\ done' = done + 1
    /\ out' = out \cup {Order[done + 1]}
    /\ UNCHANGED result

(* The next view is the optional one and returns without writing. *)
Skip ==
    /\ result = "running" /\ done < Len(Order)
    /\ Order[done + 1] = Optional
    /\ done' = done + 1
    /\ UNCHANGED <<out, result>>

(* An exception escapes main(): what was written stays written. *)
Fail ==
    /\ result = "running"
    /\ result' = "exit1"
    /\ UNCHANGED <<done, out>>

(* Every view has returned: main() ends normally. *)
Finish ==
    /\ result = "running" /\ done = Len(Order)
    /\ result' = "exit0"
    /\ UNCHANGED <<done, out>>

Next == Produce \/ Skip \/ Fail \/ Finish

SafetySpec == Init /\ [][Next]_avars

Spec == SafetySpec /\ WF_avars(Next)

=============================================================================
