------------------------------ MODULE LcParser ------------------------------
(***************************************************************************)
(* The parser of the leaf compiler (lc/src/parser.c, node.c): a recursive  *)
(* descent over the tokens of a file, with a cursor (sel_tok), to a tree   *)
(* of nodes.                                                               *)
(*                                                                         *)
(* A token is [t, s, n]: its type without TOK_, the text of a symbol or a  *)
(* string, the value of a number or a character.                           *)
(* What a function of the parser leaves behind is [ok, sel, node]: whether *)
(* it reported an error and ended the compiler, the cursor, and what it    *)
(* read.                                                                   *)
(***************************************************************************)
EXTENDS Integers, Sequences, LcNodes

CONSTANT tokens     (* the tokens of the file; the last one is TOK_NULL    *)

T(sel) == tokens[sel].t

(* toknext: the cursor stays on the last token.                            *)
Nxt(sel) == IF sel = Len(tokens) THEN sel ELSE sel + 1

(* tokpeek: on the last token the cursor itself moves back by one.         *)
Peeked(sel) == IF sel = Len(tokens) THEN sel - 1 ELSE sel

Fail           == [ok |-> FALSE, sel |-> 1, node |-> Label("")]
Got(sel, node) == [ok |-> TRUE, sel |-> sel, node |-> node]

(* The next step of a function, unless one before it failed.               *)
Then(r, F(_)) == IF r.ok THEN F(r) ELSE r

Expect(type, sel) == T(sel) = type

(* parse_type: a name and possibly an ampersand; the type comes in vtype.  *)
ParseType(sel) ==
  LET at  == Peeked(sel)
      ptr == T(at + 1) = "AMPERSAND"
  IN  IF ~Expect("SYM", sel) THEN Fail
      ELSE Got(IF ptr THEN Nxt(at) ELSE at,
               VarDecl([name |-> tokens[sel].s, ptr |-> ptr, count |-> 0], ""))

(* Mutant of OperatorNode: the comparisons are mixed up.                   *)
OperatorNodeMixed(t) ==
  CASE t = "PLUS"    -> "ADD"     [] t = "MINUS"  -> "SUB"
    [] t = "STAR"    -> "MUL"     [] t = "SLASH"  -> "DIV"
    [] t = "PERCENT" -> "MOD"     [] t = "CMPEQ"  -> "CMPNEQ"
    [] t = "CMPNEQ"  -> "CMPEQ"   [] OTHER -> "NULL"

(* The operators of an expression.                                         *)
OperatorNode(t) ==
  CASE t = "PLUS"    -> "ADD"     [] t = "MINUS"  -> "SUB"
    [] t = "STAR"    -> "MUL"     [] t = "SLASH"  -> "DIV"
    [] t = "PERCENT" -> "MOD"     [] t = "CMPEQ"  -> "CMPEQ"
    [] t = "CMPNEQ"  -> "CMPNEQ"  [] OTHER -> "NULL"

RECURSIVE ParseExpr(_), ParseArgs(_, _)

(* The first part of an expression.  What stands where the parenthesis is  *)
(* closed is not looked at.                                                *)
Primary(sel) ==
  LET t == T(sel)
  IN  CASE t = "LPAREN" ->
             Then(ParseExpr(Nxt(sel)), LAMBDA r : Got(Nxt(r.sel), r.node))
        [] t = "SYM" -> Got(sel, Label(tokens[sel].s))
        [] t \in {"NUM", "CHAR"} -> Got(sel, Integer(tokens[sel].n))
        [] t = "STR" -> Got(sel, Node("LITERAL_STRING", tokens[sel].s, <<>>))
        [] t = "AMPERSAND" ->
             IF Expect("SYM", Nxt(sel))
               THEN Got(Nxt(sel), Node("ADDR", tokens[Nxt(sel)].s, <<>>))
               ELSE Fail
        [] t = "LBRACKET" ->
             Then(ParseType(Nxt(sel)), LAMBDA ty :
             Then(ParseExpr(Nxt(ty.sel)), LAMBDA r :
               IF Expect("RBRACKET", Nxt(r.sel))
                 THEN Got(Nxt(r.sel), [r.node EXCEPT !.cast = ty.node.vtype])
                 ELSE Fail))
        [] OTHER -> Fail

(* expr '.' symbol                                                         *)
Dotted(r) ==
  LET at == Peeked(r.sel)
      to == Nxt(Nxt(at))
  IN  IF T(at + 1) # "DOT" THEN Got(at, r.node)
      ELSE IF ~Expect("SYM", to) THEN Fail
      ELSE Got(to, Node("FIELD", "", <<r.node, Label(tokens[to].s)>>))

(* expr '(' [ expr ( ',' expr )* ] ')', with parse_call_args.              *)
ParseArgs(sel, call) ==
  IF T(sel) = "RPAREN" THEN Got(sel, call)
  ELSE Then(ParseExpr(sel), LAMBDA r :
         LET more == [call EXCEPT !.kids = Append(@, r.node)]
             at   == Nxt(r.sel)
         IN  CASE T(at) = "RPAREN" -> Got(at, more)
               [] T(at) = "COMMA"  -> ParseArgs(Nxt(at), more)
               [] OTHER            -> Fail)

Called(r) ==
  LET at == Peeked(r.sel)
  IN  IF T(at + 1) # "LPAREN" THEN Got(at, r.node)
      ELSE ParseArgs(Nxt(Nxt(at)), Node("CALL", "", <<r.node>>))

(* expr '[' expr ']'; what stands where the bracket is closed is not       *)
(* looked at.                                                              *)
Indexed(r) ==
  LET at == Peeked(r.sel)
  IN  IF T(at + 1) # "LBRACKET" THEN Got(at, r.node)
      ELSE Then(ParseExpr(Nxt(Nxt(at))), LAMBDA i :
             Got(Nxt(i.sel), Node("INDEX", "", <<r.node, i.node>>)))

(* expr op expr: all that follows is the right operand, whatever the       *)
(* operators are.                                                          *)
Operated(r) ==
  LET at == Peeked(r.sel)
      op == OperatorNode(T(at + 1))
  IN  IF op = "NULL" THEN Got(at, r.node)
      ELSE Then(ParseExpr(Nxt(Nxt(at))), LAMBDA right :
             Got(right.sel, Node(op, "", <<r.node, right.node>>)))

(* expr '=' expr                                                           *)
Assigned(r) ==
  LET at == Peeked(r.sel)
  IN  IF T(at + 1) # "EQ" THEN Got(at, r.node)
      ELSE Then(ParseExpr(Nxt(Nxt(at))), LAMBDA right :
             Got(right.sel, Node("ASSIGN", "", <<r.node, right.node>>)))

(* parse_expr_inside.                                                      *)
ParseExpr(sel) ==
  Then(Then(Then(Then(Then(Primary(sel), Dotted), Called), Indexed), Operated), Assigned)

-----------------------------------------------------------------------------
(* '[' NUMBER ']' at sel, the count of an array: it goes to the type.      *)
ParseCount(sel, decl) ==
  LET n == Nxt(sel)
  IN  IF Expect("NUM", n) /\ Expect("RBRACKET", Nxt(n))
        THEN Got(Nxt(n), [decl EXCEPT !.vtype.count = tokens[n].n])
        ELSE Fail

(* parse_var_decl, from the let on; at the top of a file it takes the      *)
(* semicolon, too.                                                         *)
ParseVarDecl(sel, semicolon) ==
  LET declared ==
        Then(ParseType(Nxt(sel)), LAMBDA ty :
          LET name == Nxt(ty.sel)
              at   == Peeked(name)
              decl == [ty.node EXCEPT !.name = tokens[name].s]
          IN  IF ~Expect("SYM", name) THEN Fail
              ELSE IF T(at + 1) = "LBRACKET" THEN ParseCount(Nxt(at), decl)
              ELSE Got(at, decl))
  IN  IF ~semicolon THEN declared
      ELSE Then(declared, LAMBDA r :
             IF Expect("SEMICOLON", Nxt(r.sel)) THEN Got(Nxt(r.sel), r.node) ELSE Fail)

(* parse_return: with a semicolon right after it, that is taken as well.   *)
ParseReturn(sel) ==
  LET at == Nxt(sel)
  IN  IF T(at) = "SEMICOLON" THEN Got(at, Node("RETURN", "", <<>>))
      ELSE Then(ParseExpr(at), LAMBDA r : Got(r.sel, Node("RETURN", "", <<r.node>>)))

RECURSIVE ParseBlock(_, _)

(* parse_if: the parentheses are those of the expression.                  *)
ParseIf(sel) ==
  IF ~Expect("LPAREN", Nxt(sel)) THEN Fail
  ELSE Then(ParseExpr(Nxt(sel)), LAMBDA cond :
         IF Expect("LBRACE", Nxt(cond.sel))
           THEN ParseBlock(Nxt(cond.sel), Node("IF", "", <<cond.node>>))
           ELSE Fail)

(* parse_for.                                                              *)
ParseFor(sel) ==
  LET open  == Nxt(sel)
      index == Nxt(open)
      comma == Nxt(index)
  IN  IF ~(Expect("LPAREN", open) /\ Expect("SYM", index) /\ Expect("COMMA", comma))
        THEN Fail
      ELSE Then(ParseExpr(Nxt(comma)), LAMBDA from :
             IF ~Expect("COMMA", Nxt(from.sel)) THEN Fail
             ELSE Then(ParseExpr(Nxt(Nxt(from.sel))), LAMBDA to :
               LET close == Nxt(to.sel)
               IN  IF Expect("RPAREN", close) /\ Expect("LBRACE", Nxt(close))
                     THEN ParseBlock(Nxt(close), Node("LOOP", tokens[index].s,
                                                      <<from.node, to.node>>))
                     ELSE Fail))

(* parse_block, from the brace or the semicolon before a statement on: the *)
(* statements are added to the parent.                                     *)
ParseBlock(sel, parent) ==
  LET at   == Nxt(sel)
      t    == T(at)
      With(r) == [parent EXCEPT !.kids = Append(@, r.node)]
      Ended(r) ==
        LET end == Nxt(r.sel)
        IN  CASE T(end) = "RBRACE"    -> Got(end, With(r))
              [] T(end) = "SEMICOLON" -> ParseBlock(end, With(r))
              [] OTHER                -> Fail
      Compound(r) == ParseBlock(r.sel, With(r))
  IN  CASE t = "RBRACE"    -> Got(at, parent)
        [] t = "KW_LET"    -> Then(ParseVarDecl(at, FALSE), Ended)
        [] t = "KW_RETURN" -> Then(ParseReturn(at), Ended)
        [] t = "KW_IF"     -> Then(ParseIf(at), Compound)
        [] t = "KW_FOR"    -> Then(ParseFor(at), Compound)
        [] OTHER           -> Then(ParseExpr(at), Ended)

-----------------------------------------------------------------------------
RECURSIVE ParseParams(_, _), ParseAttributes(_, _), ParseFields(_, _), ParseFile(_, _)

(* func_decl_collect_params, at the first token of a parameter.            *)
ParseParams(sel, decl) ==
  IF T(sel) = "THREEDOT" THEN Got(Nxt(sel), [decl EXCEPT !.attrs = @ \cup {"variadic"}])
  ELSE Then(ParseType(sel), LAMBDA ty :
         LET name == Nxt(ty.sel)
             end  == Nxt(name)
             more == [decl EXCEPT !.fields =
                        Append(@, [name |-> tokens[name].s, type |-> ty.node.vtype])]
         IN  IF ~Expect("SYM", name) THEN Fail
             ELSE CASE T(end) = "RPAREN" -> Got(end, more)
                    [] T(end) = "COMMA"  -> ParseParams(end + 1, more)
                    [] OTHER             -> Fail)

(* parse_func_head, from the func on.                                      *)
ParseFuncHead(sel) ==
  LET name  == Nxt(sel)
      first == Nxt(Nxt(name))
      decl  == Node("FUNC_DECL", tokens[name].s, <<>>)
      Returns(r) ==
        LET at == Peeked(r.sel)
        IN  IF ~Expect("RPAREN", r.sel) THEN Fail
            ELSE IF T(at + 1) # "ARROW" THEN Got(at, r.node)
            ELSE Then(ParseType(Nxt(Nxt(at))), LAMBDA ty :
                   Got(ty.sel, [r.node EXCEPT !.vtype = ty.node.vtype]))
  IN  IF ~(Expect("SYM", name) /\ Expect("LPAREN", Nxt(name))) THEN Fail
      ELSE Then(IF T(first) = "RPAREN" THEN Got(first, decl) ELSE ParseParams(first, decl),
                Returns)

(* parse_attributes, from the bracket or a comma on.                       *)
ParseAttributes(sel, decl) ==
  LET attr == Nxt(sel)
      end  == Nxt(attr)
      more == [decl EXCEPT !.attrs = @ \cup {tokens[attr].s}]
  IN  IF T(attr) = "RBRACKET" THEN Got(attr, decl)
      ELSE IF ~(Expect("SYM", attr) /\ tokens[attr].s \in {"naked", "local"}) THEN Fail
      ELSE CASE T(end) = "RBRACKET" -> Got(end, more)
             [] T(end) = "COMMA"    -> ParseAttributes(end, more)
             [] OTHER               -> Fail

(* parse_func: the declaration and, unless it ends there, the definition.  *)
(* The node is a list of both.                                             *)
ParseFunc(sel) ==
  Then(ParseFuncHead(sel), LAMBDA head :
    LET at == Nxt(head.sel)
        Body(r) ==
          IF ~Expect("LBRACE", r.sel) THEN Fail
          ELSE Then(ParseBlock(r.sel, [r.node EXCEPT !.type = "FUNC_DEF"]), LAMBDA def :
                 Got(def.sel, Node("", "", <<r.node, def.node>>)))
    IN  CASE T(at) = "SEMICOLON" -> Got(at, Node("", "", <<head.node>>))
          [] T(at) = "LBRACKET"  ->
               Then(ParseAttributes(at, head.node), LAMBDA r : Body(Got(Nxt(r.sel), r.node)))
          [] OTHER -> Body(Got(at, head.node)))

(* parse_type_decl_body, at the first token of a field.                    *)
ParseFields(sel, decl) ==
  IF T(sel) = "RBRACE" THEN Got(sel, decl)
  ELSE Then(ParseType(sel), LAMBDA ty :
         LET name == Nxt(ty.sel)
             at   == Nxt(name)
         IN  IF ~Expect("SYM", name) THEN Fail
             ELSE Then(IF T(at) = "LBRACKET"
                         THEN Then(ParseCount(at, ty.node), LAMBDA r : Got(Nxt(r.sel), r.node))
                         ELSE Got(at, ty.node), LAMBDA r :
               LET more == [decl EXCEPT !.fields =
                              Append(@, [name |-> tokens[name].s, type |-> r.node.vtype])]
               IN  CASE T(r.sel) = "RBRACE"    -> Got(r.sel, more)
                     [] T(r.sel) = "SEMICOLON" -> ParseFields(Nxt(r.sel), more)
                     [] OTHER                  -> Fail))

(* parse_type_decl.                                                        *)
ParseTypeDecl(sel) ==
  LET name == Nxt(sel)
      open == Nxt(name)
  IN  IF Expect("SYM", name) /\ Expect("LBRACE", open)
        THEN ParseFields(Nxt(open), Node("TYPE_DECL", tokens[name].s, <<>>))
        ELSE Fail

(* parser_parse, from this token on.                                       *)
ParseFile(sel, file) ==
  LET With(r)  == [file EXCEPT !.kids = Append(@, r.node)]
      t == T(sel)
  IN  CASE t = "NULL"    -> Got(sel, file)
        [] t = "KW_FUNC" -> Then(ParseFunc(sel), LAMBDA r :
                              ParseFile(r.sel + 1, [file EXCEPT !.kids = @ \o r.node.kids]))
        [] t = "KW_TYPE" -> Then(ParseTypeDecl(sel), LAMBDA r : ParseFile(r.sel + 1, With(r)))
        [] t = "KW_LET"  -> Then(ParseVarDecl(sel, TRUE), LAMBDA r :
                              ParseFile(r.sel + 1, With(r)))
        [] OTHER         -> Fail

Parsed == ParseFile(1, Node("FILE", "", <<>>))

=============================================================================
