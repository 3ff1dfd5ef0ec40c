------------------------------ MODULE MCSeats ------------------------------
(* Model values for the run of Seats.                                       *)
EXTENDS Seats

CONSTANTS u1, u2, u3

Caps == [p \in {"free", "comp"} |-> 2]
None == [what \in Counted |-> 0]
Case(members, p, limits) ==
  [team |-> members, former |-> {u2, u3} \ members, owners |-> {u1}, plan |-> p, editable |-> FALSE, limits |-> limits]

\* A crash or a failed call while the plan starts, ends or stays; a plan switched;
\* an edit, a sign-up or an assignment that overlaps the requests. The seats of a
\* checkout are the buyer's to edit in one case and not in the other.
SmallCases ==
  {[Case({u1}, "free", [None EXCEPT !["checkouts"] = 1, !["subs"] = 1, !["faults"] = 1])
      EXCEPT !.former = {u2}, !.editable = TRUE],
   [Case({u1, u2}, "free", [None EXCEPT !["joins"] = 1, !["faults"] = 1]) EXCEPT !.former = {}],
   [Case({u1}, "comp", [None EXCEPT !["checkouts"] = 1, !["subs"] = 1]) EXCEPT !.former = {u2}],
   Case({u1, u2}, "pro", [None EXCEPT !["swaps"] = 1]),
   [Case({u1}, "enterprise", [None EXCEPT !["swaps"] = 1]) EXCEPT !.former = {u2}],
   Case({u1, u2}, "enterprise", [None EXCEPT !["faults"] = 1]),
   [Case({u1, u2}, "pro", [None EXCEPT !["subs"] = 1, !["faults"] = 1]) EXCEPT !.former = {}],
   Case({u1, u2}, "pro", [None EXCEPT !["edits"] = 1]),
   Case({u1, u2}, "pro", [None EXCEPT !["assigns"] = 1])}
=============================================================================
