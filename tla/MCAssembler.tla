----------------------------- MODULE MCAssembler -----------------------------
(* Lines of small programs: two functions with a local label of the same   *)
(* name, data that leaves the position misaligned by one or by three, and  *)
(* instructions that refer to labels behind and ahead.                     *)
EXTENDS Assembler

Label(r)   == [kind |-> "label", name |-> <<r, "">>]
LocalOf(l) == [kind |-> "label", name |-> <<"", l>>]
Data(n)    == [kind |-> "data", size |-> n, zero |-> FALSE]
Resv(n)    == [kind |-> "data", size |-> n, zero |-> TRUE]
Ins(ref, field) == [kind |-> "ins", ref |-> ref, field |-> field]

Everything ==
  {Label("f"), Label("g"), LocalOf("a"),
   Data(1), Resv(3), Resv(0),
   [kind |-> "org", addr |-> 4], [kind |-> "org", addr |-> 9],
   [kind |-> "value", name |-> <<"g", "">>],
   [kind |-> "export", name |-> <<"g", "">>],
   Ins(NoRef, 2), Ins(<<"g", "">>, 1), Ins(<<"", "a">>, 2),
   [kind |-> "bad"]}

(* A program with an origin that is not 0.                                 *)
Based == {[kind |-> "org", addr |-> 4], Label("f"), LocalOf("a"), Data(1), Resv(3),
          Ins(<<"f", "">>, 2)}

=============================================================================
