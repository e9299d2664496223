------------------------------ MODULE LeafText ------------------------------
(***************************************************************************)
(* What a programmer writes: the tokens of a tree of nodes, in the grammar *)
(* of doc/lc/grammar.  Every operation stands in parentheses, the form in  *)
(* which the grammar has it.                                               *)
(***************************************************************************)
EXTENDS Integers, SequencesExt

Token(t)  == [t |-> t, s |-> "", n |-> 0]
Symbol(s) == [Token("SYM") EXCEPT !.s = s]
Number(n) == [Token("NUM") EXCEPT !.n = n]

(* The texts of a sequence, with a token between two of them.              *)
Listed(texts, between) ==
  FoldLeft(LAMBDA text, i : text \o (IF i = 1 THEN <<>> ELSE <<between>>) \o texts[i],
           <<>>, [i \in 1 .. Len(texts) |-> i])

WrittenType(ty) ==
  <<Symbol(ty.name)>> \o (IF ty.ptr THEN <<Token("AMPERSAND")>> ELSE <<>>)

WrittenCount(ty) ==
  IF ty.count = 0 THEN <<>>
  ELSE <<Token("LBRACKET"), Number(ty.count), Token("RBRACKET")>>

Sign(type) ==
  CASE type = "ADD" -> "PLUS"      [] type = "SUB"    -> "MINUS"
    [] type = "MUL" -> "STAR"      [] type = "DIV"    -> "SLASH"
    [] type = "MOD" -> "PERCENT"   [] type = "CMPEQ"  -> "CMPEQ"
    [] type = "CMPNEQ" -> "CMPNEQ" [] type = "ASSIGN" -> "EQ"

RECURSIVE WrittenExpr(_), WrittenBody(_)

WrittenExpr(node) ==
  LET kid(i) == WrittenExpr(node.kids[i])
      kids   == [i \in 1 .. Len(node.kids) |-> kid(i)]
      Bare ==
        CASE node.type = "LABEL"           -> <<Symbol(node.name)>>
          [] node.type = "LITERAL_INTEGER" -> <<Number(node.num)>>
          [] node.type = "LITERAL_STRING"  -> <<[Token("STR") EXCEPT !.s = node.name]>>
          [] node.type = "ADDR"  -> <<Token("AMPERSAND"), Symbol(node.name)>>
          [] node.type = "FIELD" -> kid(1) \o <<Token("DOT")>> \o kid(2)
          [] node.type = "INDEX" ->
               kid(1) \o <<Token("LBRACKET")>> \o kid(2) \o <<Token("RBRACKET")>>
          [] node.type = "CALL"  ->
               kid(1) \o <<Token("LPAREN")>> \o Listed(Tail(kids), Token("COMMA"))
                 \o <<Token("RPAREN")>>
          [] OTHER ->
               <<Token("LPAREN")>> \o kid(1) \o <<Token(Sign(node.type))>> \o kid(2)
                 \o <<Token("RPAREN")>>
  IN  IF node.cast.name = "" THEN Bare
      ELSE <<Token("LBRACKET")>> \o WrittenType(node.cast) \o Bare \o <<Token("RBRACKET")>>

Braced(nodes) == <<Token("LBRACE")>> \o WrittenBody(nodes) \o <<Token("RBRACE")>>

WrittenVar(node) ==
  <<Token("KW_LET")>> \o WrittenType(node.vtype) \o <<Symbol(node.name)>>
    \o WrittenCount(node.vtype) \o <<Token("SEMICOLON")>>

WrittenStatement(node) ==
  CASE node.type = "VAR_DECL" -> WrittenVar(node)
    [] node.type = "RETURN" ->
         <<Token("KW_RETURN")>>
           \o (IF node.kids = <<>> THEN <<>> ELSE WrittenExpr(node.kids[1]))
           \o <<Token("SEMICOLON")>>
    [] node.type = "IF" ->
         <<Token("KW_IF")>> \o WrittenExpr(node.kids[1]) \o Braced(Tail(node.kids))
    [] node.type = "LOOP" ->
         <<Token("KW_FOR"), Token("LPAREN"), Symbol(node.name), Token("COMMA")>>
           \o WrittenExpr(node.kids[1]) \o <<Token("COMMA")>> \o WrittenExpr(node.kids[2])
           \o <<Token("RPAREN")>> \o Braced(SubSeq(node.kids, 3, Len(node.kids)))
    [] node.type = "ASSIGN" ->
         WrittenExpr(node.kids[1]) \o <<Token("EQ")>> \o WrittenExpr(node.kids[2])
           \o <<Token("SEMICOLON")>>
    [] OTHER -> WrittenExpr(node) \o <<Token("SEMICOLON")>>

WrittenBody(nodes) ==
  FlattenSeq([i \in 1 .. Len(nodes) |-> WrittenStatement(nodes[i])])

WrittenAttributes(attrs) ==
  LET names == SetToSeq(attrs \ {"variadic"})
  IN  IF names = <<>> THEN <<>>
      ELSE <<Token("LBRACKET")>>
             \o Listed([i \in 1 .. Len(names) |-> <<Symbol(names[i])>>], Token("COMMA"))
             \o <<Token("RBRACKET")>>

(* The head of a function, without the semicolon or the body.              *)
WrittenHead(node) ==
  LET Param(p) == WrittenType(p.type) \o <<Symbol(p.name)>>
      params == [i \in 1 .. Len(node.fields) |-> Param(node.fields[i])]
                  \o (IF "variadic" \in node.attrs THEN << <<Token("THREEDOT")>> >> ELSE <<>>)
  IN  <<Token("KW_FUNC"), Symbol(node.name), Token("LPAREN")>>
        \o Listed(params, Token("COMMA")) \o <<Token("RPAREN")>>
        \o (IF node.vtype.name = "" THEN <<>> ELSE <<Token("ARROW")>> \o WrittenType(node.vtype))
        \o WrittenAttributes(node.attrs)

WrittenTypeDecl(node) ==
  LET Field(f) == WrittenType(f.type) \o <<Symbol(f.name)>> \o WrittenCount(f.type)
                    \o <<Token("SEMICOLON")>>
  IN  <<Token("KW_TYPE"), Symbol(node.name), Token("LBRACE")>>
        \o FlattenSeq([i \in 1 .. Len(node.fields) |-> Field(node.fields[i])])
        \o <<Token("RBRACE")>>

(* A file: a definition stands for the declaration in front of it, too.    *)
Written(file) ==
  LET kids == file.kids
      IsDefined(i) == i < Len(kids) /\ kids[i + 1].type = "FUNC_DEF"
                        /\ kids[i + 1].name = kids[i].name
      Item(i) ==
        CASE kids[i].type = "TYPE_DECL" -> WrittenTypeDecl(kids[i])
          [] kids[i].type = "VAR_DECL"  -> WrittenVar(kids[i])
          [] kids[i].type = "FUNC_DEF"  -> WrittenHead(kids[i]) \o Braced(kids[i].kids)
          [] kids[i].type = "FUNC_DECL" ->
               IF IsDefined(i) THEN <<>> ELSE WrittenHead(kids[i]) \o <<Token("SEMICOLON")>>
  IN  FlattenSeq([i \in 1 .. Len(kids) |-> Item(i)]) \o <<Token("NULL")>>

=============================================================================
