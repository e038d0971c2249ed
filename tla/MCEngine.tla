------------------------------ MODULE MCEngine ------------------------------
(* Small instances of Engine.  The plans put next to each other the steps   *)
(* whose handling differs; the default policy asks for everything beyond    *)
(* the machine.                                                             *)
EXTENDS Engine, TLC

CONSTANTS p1, p2

Tool(risk) == [tool |-> "known", risk |-> risk, always |-> FALSE, network |-> FALSE]

think == [Tool("read") EXCEPT !.tool = "none"]
bad   == [Tool("read") EXCEPT !.tool = "bad"]
read  == Tool("read")
write == Tool("reversible")
send  == [Tool("external") EXCEPT !.network = TRUE]
pay   == Tool("financial")
wipe  == Tool("destructive")
ask   == [Tool("read") EXCEPT !.always = TRUE]
fetch == [Tool("read") EXCEPT !.network = TRUE]

DefaultPolicy == [read |-> "auto", reversible |-> "auto", external |-> "approve",
                  financial |-> "approve"]
StrictPolicy  == [DefaultPolicy EXCEPT !.financial = "deny"]

SerialPlans == {<<think, read, send>>, <<>>, <<bad, read>>, <<bad, write, wipe>>, <<send, wipe, read>>,
                <<wipe, send>>, <<ask, pay, write>>, <<read, fetch, fetch>>}
Mixed       == {<<read, send>>}
TwoAsks     == {<<send, wipe>>}
OneRead     == {<<read>>}

Plain == {[check |-> "none", unbacked |-> FALSE]}
Rich  == Plain \cup {[check |-> "PASS", unbacked |-> FALSE],
                     [check |-> "FAIL", unbacked |-> FALSE],
                     [check |-> "UNVERIFIABLE", unbacked |-> FALSE],
                     [check |-> "none", unbacked |-> TRUE]}

\* The calls differ in nothing but their names.
CallSymmetry == Permutations(Procs)
=============================================================================
