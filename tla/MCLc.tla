-------------------------------- MODULE MCLc --------------------------------
(***************************************************************************)
(* Small leaf programs.  Every one has a type and a global, the functions  *)
(* it calls, and a main that gets x and y, runs some statements and        *)
(* returns a value.  The values are picked so that an index from a         *)
(* variable is in its array, and arithmetic leaves the 16 bits.            *)
(***************************************************************************)
EXTENDS LcFits

V(x)       == Label(x)
N(n)       == Integer(n)
Bin(op, l, r) == Node(op, "", <<l, r>>)
Add(l, r)  == Bin("ADD", l, r)
Sub(l, r)  == Bin("SUB", l, r)
Mul(l, r)  == Bin("MUL", l, r)
Set(l, r)  == Bin("ASSIGN", l, r)
At(a, i)   == Bin("INDEX", a, i)
Dot(s, f)  == Bin("FIELD", V(s), V(f))
Adr(x)     == Node("ADDR", x, <<>>)
Do(f, args) == Node("CALL", "", <<V(f)>> \o args)
If(op, l, r, body)  == Node("IF", "", <<Bin(op, l, r)>> \o body)
For(i, a, b, body)  == Node("LOOP", i, <<a, b>> \o body)
Return(v)  == Node("RETURN", "", <<v>>)
ReturnNothing == Node("RETURN", "", <<>>)
Cast(v, type) == [v EXCEPT !.cast = type]
Str(s)     == Node("LITERAL_STRING", s, <<>>)

Num     == [NoType EXCEPT !.name = "int"]
Nums(n) == [Num EXCEPT !.count = n]
IntPtr  == [Num EXCEPT !.ptr = TRUE]
CharPtr == [NoType EXCEPT !.name = "char", !.ptr = TRUE]
Pair    == [NoType EXCEPT !.name = "pair"]
PairPtr == [Pair EXCEPT !.ptr = TRUE]

(* A declaration, and a definition with the declaration in front of it.    *)
Head_(name, params, type, attrs) ==
  [Node("FUNC_DECL", name, <<>>) EXCEPT !.fields = params, !.vtype = type, !.attrs = attrs]
Func(name, params, type, attrs, body) ==
  LET decl == Head_(name, params, type, attrs)
  IN  << decl, [decl EXCEPT !.type = "FUNC_DEF", !.kids = body] >>

Param(name, type) == [name |-> name, type |-> type]

(* What is called: inline assembly, a local function, one that stores      *)
(* through a pointer, one that gets a structure, one that ends early, a    *)
(* recursive one, one that reads a string, a variadic one.                 *)
Seven == Func("seven", <<>>, Num, {"naked"}, <<Do("__asm", <<Str("mov r0, 7")>>)>>)
Less  == Func("less", <<Param("a", Num), Param("b", Num)>>, Num, {"local"},
              <<Return(Sub(V("a"), V("b")))>>)
Put   == Func("put", <<Param("p", IntPtr), Param("i", Num), Param("v", Num)>>, NoType, {},
              << Set(At(V("p"), V("i")), V("v")),
                 Set(At(V("p"), Add(V("i"), N(1))), Add(At(V("p"), V("i")), N(4))) >>)
Last2 == Func("last", <<Param("q", PairPtr)>>, Num, {},
              << VarDecl(Num, "t"), Set(V("t"), Dot("q", "c")),
                 Return(Sub(V("t"), At(Dot("q", "b"), N(1)))) >>)
Reset == Func("reset", <<Param("p", IntPtr)>>, NoType, {},
              << If("CMPEQ", At(V("p"), N(0)), N(5), <<ReturnNothing>>),
                 Set(At(V("p"), N(0)), N(5)) >>)
Fact  == Func("fact", <<Param("n", Num)>>, Num, {},
              << If("CMPEQ", V("n"), N(0), <<Return(N(1))>>),
                 Return(Mul(V("n"), Do("fact", <<Sub(V("n"), N(1))>>))) >>)
First == Func("first", <<Param("t", CharPtr)>>, Num, {}, <<Return(At(V("t"), N(0)))>>)
Many  == Func("many", <<Param("a", Num)>>, Num, {"variadic"}, <<Return(V("a"))>>)

Main(body, result) ==
  Func("main", <<Param("x", Num), Param("y", Num)>>, Num, {}, body \o <<Return(result)>>)

PairDecl ==
  [Node("TYPE_DECL", "pair", <<>>) EXCEPT !.fields =
     <<Param("a", Num), Param("b", Nums(2)), Param("c", Num)>>]

File(funcs, body, result) ==
  Node("FILE", "", <<PairDecl, VarDecl(Num, "g")>> \o funcs \o Main(body, result))

Both    == [fold |-> TRUE, cmp |-> TRUE]
Neither == [fold |-> FALSE, cmp |-> FALSE]

Program(funcs, body, result, o) == [file |-> File(funcs, body, result), options |-> o]

MCText      == [t \in {"hi"} |-> <<104, 105>>]
MCAsmValue  == [t \in {"mov r0, 7"} |-> 7]
MCArguments == <<1, 300>>

-----------------------------------------------------------------------------
(* Trees of operations on a parameter, a global, literals and an array.    *)
Array  == << VarDecl(Nums(2), "arr"), Set(At(V("arr"), N(0)), V("x")),
             Set(At(V("arr"), V("x")), N(300)) >>
Leaves == {V("x"), V("y"), V("g"), N(5), At(V("arr"), V("x"))}
Flat   == {Sub(l, r) : l, r \in Leaves} \cup {Mul(V("y"), r) : r \in Leaves}
Deep   == {Sub(N(5), Sub(V("x"), r)) : r \in Leaves}
            \cup {Sub(Sub(l, V("x")), Mul(V("x"), r)) : l, r \in Leaves}
            \cup {At(V("arr"), Sub(N(1), At(V("arr"), N(0)))),
                  Add(N(300), N(5)), Sub(N(300), N(5)), Mul(N(5), N(5)), Cast(V("y"), Num)}

Trees == {Program(<<>>, Array, e, o) : e \in Flat \cup Deep, o \in {Both, Neither}}

(* Calls, with calls among their arguments and in operations.              *)
Calls2 ==
  { Program(Less, <<>>, Sub(Do("less", <<V("x"), l>>), Do("less", <<r, V("x")>>)), o) :
      l, r \in {V("y"), N(5), Do("less", <<V("y"), V("x")>>)}, o \in {Both, Neither} }
  \cup { Program(f[1], <<>>, f[2], Both) :
            f \in { <<Fact, Do("fact", <<N(4)>>)>>, <<Seven, Add(V("x"), Do("seven", <<>>))>>,
                    <<First, Do("first", <<Str("hi")>>)>>,
                    <<Many, Do("many", <<V("y"), V("x"), Str("hi")>>)>> } }

(* Statements, on main's variables of every type.                          *)
Variables == << VarDecl(Nums(2), "arr"), VarDecl(Pair, "s"), VarDecl(IntPtr, "p"),
                VarDecl(Num, "z"), VarDecl(CharPtr, "t"), Set(V("t"), Str("hi")),
                Do("put", <<V("arr"), N(0), V("y")>>), Do("put", <<Dot("s", "b"), N(0), N(8)>>),
                Set(Dot("s", "a"), N(1)), Set(Dot("s", "c"), V("y")), Set(V("p"), Adr("y")) >>
Functions2 == Put \o Last2 \o Reset

Simple == { Set(V("g"), Sub(At(V("arr"), V("x")), V("g"))),
            Set(At(V("arr"), V("x")), Dot("s", "c")),
            Set(Dot("s", "c"), At(Dot("s", "b"), V("x"))),
            Set(At(V("p"), N(0)), At(V("t"), N(1))),
            Set(V("p"), Adr("z")),
            Set(V("g"), Do("last", <<Adr("s")>>)),
            Do("put", <<V("arr"), Sub(V("x"), V("x")), V("g")>>),
            Do("reset", <<V("arr")>>) }
Nested == { If(op, l, r, <<s>>) : op \in {"CMPEQ", "CMPNEQ"}, l \in {V("x"), At(V("arr"), N(0))},
              r \in {N(1), Dot("s", "c")}, s \in {Set(V("g"), V("y"))} }
          \cup { For("i", N(0), r, <<Set(At(V("arr"), V("i")), Sub(V("i"), V("g"))), s>>) :
                    r \in {N(2), Add(V("x"), N(1))}, s \in Simple }

Statements ==
  { Program(Functions2, Variables \o <<s, t>>, V("x"), Both) :
      s \in Simple \cup Nested, t \in Simple }
  \cup { Program(Functions2, Variables \o <<s>>, V("x"), Neither) : s \in Nested }

(* Blocks in blocks, with a loop in a loop and a return from the middle.   *)
Blocks ==
  { Program(<<>>,
      << For("i", N(0), V("x"), <<For("j", V("i"), N(2),
           << If("CMPEQ", Add(V("i"), V("j")), n, <<Set(V("g"), Add(V("g"), V("y"))), s>>),
              Set(V("g"), Add(V("g"), V("j"))) >>)>>) >>, V("g"), o) :
        n \in {N(0), N(1), V("y")}, s \in {Return(V("i")), Set(V("j"), N(1))},
        o \in {Both, Neither} }

(* Loops whose body moves the end, down or up, and one whose end depends   *)
(* on the index.                                                           *)
Ends ==
  { Program(<<>>,
      << VarDecl(Num, "z"), Set(V("z"), N(3)),
         For("i", N(0), V("z"),
           << If("CMPEQ", V("i"), N(1), <<Set(V("z"), n)>>),
              Set(V("g"), Add(V("g"), Add(V("i"), V("y")))) >>) >>, V("g"), o) :
        n \in {N(2), Add(V("z"), N(1))}, o \in {Both, Neither} }
  \cup { Program(<<>>, << For("i", N(0), Sub(N(4), V("i")),
                             <<Set(V("g"), Add(V("g"), V("y")))>>) >>, V("g"), o) :
            o \in {Both, Neither} }

(* Programs without what the compiler is known to get wrong (README, 7).   *)
TidyPrograms == Trees \cup Calls2 \cup Statements \cup Blocks \cup Ends
TidyOutcomes == {OutcomeOf(p) : p \in TidyPrograms}

(* An array that is filled in a loop.                                      *)
FilledArrays ==
  { Program(<<>>, << VarDecl(Nums(4), "arr"),
                     For("i", N(0), N(2), <<Set(At(V("arr"), n), V("i"))>>) >>, V("x"), o) :
      n \in {V("i"), Add(V("i"), N(1)), Sub(N(3), V("i"))}, o \in {Both, Neither} }
FilledOutcomes == {OutcomeOf(p) : p \in FilledArrays}

=============================================================================
