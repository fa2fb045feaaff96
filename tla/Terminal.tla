------------------------------ MODULE Terminal ------------------------------
(***************************************************************************)
(* What a console promises the user and the program: two pipes.            *)
(***************************************************************************)
EXTENDS Integers, Sequences

VARIABLES input,   \* typed and not yet read by the program
          output,  \* printed and not yet shown
          shown

Init == input = <<>> /\ output = <<>> /\ shown = <<>>

Last(q) == q[Len(q)]

Types ==
  /\ Len(input') > Len(input) /\ input' = Append(input, Last(input'))
  /\ UNCHANGED <<output, shown>>
Reads ==
  input # <<>> /\ input' = Tail(input) /\ UNCHANGED <<output, shown>>
ProgramPrints ==
  /\ Len(output') > Len(output) /\ output' = Append(output, Last(output'))
  /\ UNCHANGED <<input, shown>>
Shows ==
  /\ shown' \o output' = shown \o output /\ Len(shown') > Len(shown)
  /\ UNCHANGED input

Next == Types \/ Reads \/ ProgramPrints \/ Shows

Spec == Init /\ [][Next]_<<input, output, shown>>

=============================================================================
