------------------------------- MODULE MCLinker -------------------------------
(* Inputs of the linker for a memory of a few bytes.                       *)
EXTENDS Linker

Plain(fixed, origin, size) ==
  [fixed |-> fixed, origin |-> origin, size |-> size,
   exports |-> <<>>, symbols |-> <<>>, links |-> <<>>]

MovableSections(sizes) == {Plain(FALSE, 0, n) : n \in sizes}
StaticSections(origins, sizes) ==
  {Plain(TRUE, o, n) : o \in origins, n \in sizes}

(* Every list of up to three sections, of any size and in any order.       *)
AnyInputs ==
  LET S == MovableSections({0, 1, 2, 3}) \cup StaticSections({0, 2, 4, 5}, {0, 1, 2, 3})
  IN  UNION {[1 .. n -> S] : n \in 1 .. 3}

(* Fixed sections only, in any order of their origins.                     *)
FixedInputs == [1 .. 2 -> StaticSections({1, 4}, {2})]

(* Sections that export, define and link the same names.  A section's      *)
(* exports are among its own symbols, as the assembler makes them.         *)
Name(name, off) == [name |-> name, off |-> off]

LinkedSections ==
  {[fixed |-> FALSE, origin |-> 0, size |-> n, exports |-> x,
    symbols |-> x \o y, links |-> l] :
      n \in {3, 4},
      x \in {<<>>, <<Name("f", 1)>>},
      y \in {<<>>, <<Name("g", 2)>>, <<Name("f", 2)>>},
      l \in {<<>>, <<Name("f", 0)>>, <<Name("g", 1)>>, <<Name("g", 2), Name("f", 0)>>}}

LinkInputs == UNION {[1 .. n -> LinkedSections] : n \in 1 .. 2}

(* Two sections that export the same name, at different offsets, and one   *)
(* that links it without a symbol of its own, in any order.                *)
Exporter(off) ==
  [Plain(FALSE, 0, 2) EXCEPT !.exports = <<Name("f", off)>>, !.symbols = <<Name("f", off)>>]
User == [Plain(FALSE, 0, 3) EXCEPT !.links = <<Name("f", 1)>>]

Rivals ==
  {input \in [1 .. 3 -> {Exporter(0), Exporter(1), User}] :
     \A j, k \in 1 .. 3 : j # k => input[j] # input[k]}

(* A section of no bytes that exports a name gets no region.               *)
EmptyExport ==
  [Plain(FALSE, 0, 0) EXCEPT !.exports = <<Name("g", 0)>>, !.symbols = <<Name("g", 0)>>]

AllInputs == AnyInputs \cup LinkInputs \cup Rivals \cup {<<EmptyExport>>}

=============================================================================
