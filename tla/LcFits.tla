------------------------------- MODULE LcFits -------------------------------
(***************************************************************************)
(* The theorems of LcProofs ask something of the code that is loaded, that *)
(* it is Loaded, and of the values in a block: that they come behind their *)
(* parts, have a place, and can be computed in the register they are for.  *)
(* Here TLC checks that the programs it runs meet that, their blocks in a  *)
(* memory that has a word everywhere above some stack pointer, and in the  *)
(* data.  The programs of run lc_index do not: they index an array with an *)
(* operation, which is computed in r4.                                     *)
(***************************************************************************)
EXTENDS Lc, LcValues

CONSTANTS
  Frames,     (* bytes of the stack that are in use under the caller       *)
  Fitting     (* the outcomes whose blocks are to fit                      *)

FullMemory ==
  [a \in StackTop - Frames .. StackTop + CallerSize - 1 \cup DataStart .. MaxWord |-> 8]

(* The circumstances of the blocks of a function, one after the other.     *)
Circumstances(o, fn) ==
  LET x == [e |-> [options |-> o.program.options, c |-> o.compiled, fn |-> fn, size |-> 0,
                   off |-> [i \in 1 .. Len(fn.locals) |-> 0]],
            g |-> Addresses(o.asm.data), m |-> FullMemory, bp |-> MainBp]
  IN  FoldLeft(LAMBDA xs, b : Append(xs, [Last(xs) EXCEPT !.e = Placed(@, b)]), <<x>>, fn.blocks)

(* What a block reads has its place, and what it stores into, if it        *)
(* stores.                                                                 *)
BlockFits(x, b) ==
  LET values == InMemory(<<>>, b.vals \o b.index)
      vs == values.vs
      at == values.at
      w  == Meaning(x, vs)
  IN  /\ Sound(x, vs)
      /\ b.type = "STORE" =>
           /\ Writable(x, b, KindOf(x.e, b), SizeOf(x.e, b),
                       IF b.index = <<>> THEN 0 ELSE w[at[2]])
           /\ b.index # <<>> /\ KindOf(x.e, b) = "ARRAY" => Computable(x.e, vs, vs[at[2]], "r4")
      /\ b.type \in {"STORE_RESULT", "STORE_ARG"} => b.index = <<>> /\ Writable(x, b, "", 0, 0)

ASSUME BlocksFit ==
  \A o \in Fitting : o.phase = "emitted" =>
    /\ CodeFits(o.code)
    /\ IsState([regs |-> CallerRegs, cf |-> FALSE, mem |-> o.mem])
    /\ \A fn \in Range(o.compiled.units) :
         LET xs == Circumstances(o, fn)
         IN  \A i \in DOMAIN fn.blocks : BlockFits(xs[i], fn.blocks[i])

=============================================================================
