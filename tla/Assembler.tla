------------------------------ MODULE Assembler ------------------------------
(***************************************************************************)
(* The assembler (as/src/assembler.cc): it reads a program line by line,   *)
(* places what a line stands for at the current position, moves an         *)
(* instruction to the next multiple of four, remembers where labels are    *)
(* and where their addresses belong, and ends with a raw binary or with    *)
(* the section of an object file.  One action is one line.                 *)
(*                                                                         *)
(* A line is a record:                                                     *)
(*   label      name                      regular, or local to the last    *)
(*   data       size, zero                .byte, .string; .resv is zeroes  *)
(*   org        addr                                                       *)
(*   value      name                      .value, and each of a .valuefile *)
(*   export     name                                                       *)
(*   ins        ref, field                an instruction; ref is the name  *)
(*                                        in its operand, or NoRef, field  *)
(*                                        where the address belongs in it  *)
(*   bad                                  any line that is rejected        *)
(* A name is <<regular, local>>; "" stands for the part that is not there. *)
(***************************************************************************)
EXTENDS Integers, Sequences, FiniteSetsExt

CONSTANTS
  Line,         (* the lines a program is made of                          *)
  AddrSize,     (* 2^16: addresses are written in two bytes                *)
  MaxLines      (* bound: lines of a program                               *)

NoRef == <<"", "">>

(* A name is regular, or it starts with @ and is local: no character of a  *)
(* symbol behind the first is an @ (is_valid_symbol).                      *)
IsName(name) ==
  \/ name = <<name[1], "">> /\ name[1] # ""
  \/ name = <<"", name[2]>> /\ name[2] # ""

ASSUME AssemblerAssumption ==
  /\ AddrSize \in Nat \ {0} /\ MaxLines \in Nat
  /\ \A l \in Line :
       /\ l.kind \in {"label", "data", "org", "value", "export", "ins", "bad"}
       /\ l.kind = "data" => l.size \in Nat /\ l.zero \in BOOLEAN
       /\ l.kind = "org"  => l.addr \in Nat
       /\ l.kind = "label" => IsName(l.name)
       /\ l.kind = "ins"  => l.field \in {1, 2} /\ (l.ref = NoRef \/ IsName(l.ref))

VARIABLES
  code,         (* m_code, a sequence: the byte of address a is code[a + 1]*)
  pos,          (* m_pos                                                   *)
  origin,       (* m_origin, -1 when it is INVALID_ORIGIN                  *)
  labels,       (* m_labels: [name, off]                                   *)
  links,        (* m_link_points: [name, off]                              *)
  values,       (* m_values: their names                                   *)
  exports,      (* m_exports: their names                                  *)
  lastLabel,    (* m_last_label                                            *)
  section,      (* the section of the object file that was built           *)
  phase,        (* "lines", "object", "raw" or "failed"                    *)
  program,      (* history: the lines read                                 *)
  place         (* history: for each line, where its bytes went            *)

output == <<section, phase>>
tables == <<origin, labels, links, values, exports, lastLabel>>
vars   == <<code, pos, tables, output, program, place>>

-----------------------------------------------------------------------------
(* What a byte of the code is: byte b of what line k stands for, a zero,   *)
(* or half of an address.                                                  *)
Of(k, b)   == <<"item", k, b>>
Zero       == <<"zero", 0, 0>>
Low(addr)  == <<"low",  addr % AddrSize, 0>>
High(addr) == <<"high", addr % AddrSize, 0>>

(* bytebuffer::insert_range, insert_fill and insert: the buffer grows to   *)
(* what is written, and a gap is zero.                                     *)
Put(buffer, at, bytes) ==
  [a \in 1 .. IF at + Len(bytes) > Len(buffer) THEN at + Len(bytes)
                                               ELSE Len(buffer) |->
     IF at < a /\ a <= at + Len(bytes) THEN bytes[a - at]
     ELSE IF a <= Len(buffer) THEN buffer[a] ELSE Zero]

Init ==
  /\ code = <<>> /\ pos = 0 /\ origin = -1
  /\ labels = <<>> /\ links = <<>> /\ values = {} /\ exports = <<>>
  /\ lastLabel = ""
  /\ section = <<>> /\ phase = "lines"
  /\ program = <<>> /\ place = <<>>

(* A line is read; its bytes, if it has any, go to address at.             *)
Read(l, at) ==
  /\ phase = "lines" /\ Len(program) < MaxLines
  /\ program' = Append(program, l)
  /\ place'   = Append(place, at)

(* error(): the assembler exits without output.                            *)
Fail ==
  /\ phase' = "failed"
  /\ UNCHANGED <<code, pos, tables, section>>

Local(name) == name[1] = ""

(* m_last_label + name, for a local name.                                  *)
Resolved(name) == IF Local(name) THEN <<lastLabel, name[2]>> ELSE name

-----------------------------------------------------------------------------
(* parse_label: whether the name is taken is asked before the last label   *)
(* is put in front of it.                                                  *)
ReadLabel(l) ==
  /\ l.kind = "label"
  /\ Read(l, pos)
  /\ IF \/ Local(l.name) /\ lastLabel = ""
        \/ \E k \in DOMAIN labels : labels[k].name = l.name
       THEN Fail
       ELSE /\ labels' = Append(labels, [name |-> Resolved(l.name), off |-> pos])
            /\ lastLabel' = IF Local(l.name) THEN lastLabel ELSE l.name[1]
            /\ UNCHANGED <<code, pos, origin, links, values, exports, output>>

(* directive_byte, directive_string and directive_resv.                    *)
ReadData(l) ==
  /\ l.kind = "data"
  /\ Read(l, pos)
  /\ code' = Put(code, pos, [b \in 1 .. l.size |->
                   IF l.zero THEN Zero ELSE Of(Len(program'), b)])
  /\ pos'  = pos + l.size
  /\ UNCHANGED <<tables, output>>

(* directive_org: the origin is the lowest of all.                         *)
ReadOrg(l) ==
  /\ l.kind = "org"
  /\ Read(l, pos)
  /\ pos'    = l.addr
  /\ origin' = IF origin = -1 \/ origin > l.addr THEN l.addr ELSE origin
  /\ UNCHANGED <<code, labels, links, values, exports, lastLabel, output>>

ReadValue(l) ==
  /\ l.kind = "value"
  /\ Read(l, pos)
  /\ values' = values \cup {l.name}
  /\ UNCHANGED <<code, pos, origin, labels, links, exports, lastLabel, output>>

ReadExport(l) ==
  /\ l.kind = "export"
  /\ Read(l, pos)
  /\ exports' = Append(exports, l.name)
  /\ UNCHANGED <<code, pos, origin, labels, links, values, lastLabel, output>>

(* Mutant of Aligned: the distance to the last multiple of four.           *)
AlignedBack(at) == IF at % 4 = 0 THEN at ELSE at + (at % 4)

Aligned(at) == IF at % 4 = 0 THEN at ELSE at + (4 - (at % 4))

(* Mutant of AlignLabels: the label stays.                                 *)
AlignLabelsNever(to) == labels

(* The labels when an instruction is moved: the first one at the position  *)
(* moves with it.                                                          *)
AlignLabels(to) ==
  LET here == {k \in DOMAIN labels : labels[k].off = pos}
  IN  [k \in DOMAIN labels |->
         IF k \in here /\ \A j \in here : k <= j
           THEN [labels[k] EXCEPT !.off = to] ELSE labels[k]]

(* Mutant of LinkPoint: the address is put where the other form has it.    *)
LinkPointSwapped(l) == [name |-> Resolved(l.ref), off |-> pos + (3 - l.field)]

(* Mutant of LinkPoint: it is recorded behind the instruction.             *)
LinkPointAfter(l) == [name |-> Resolved(l.ref), off |-> Aligned(pos) + 4 + l.field]

(* resolve_address_or_link, with the position before the move.             *)
LinkPoint(l) == [name |-> Resolved(l.ref), off |-> pos + l.field]

Links(l) == l.ref # NoRef /\ l.ref \notin values

(* The methods of the instructions and insert_instruction.                 *)
ReadInstruction(l) ==
  /\ l.kind = "ins"
  /\ Read(l, Aligned(pos))
  /\ IF Links(l) /\ Local(l.ref) /\ lastLabel = ""
       THEN Fail
       ELSE /\ links'  = IF Links(l) THEN Append(links, LinkPoint(l)) ELSE links
            /\ labels' = AlignLabels(Aligned(pos))
            /\ code'   = Put(code, Aligned(pos), [b \in 1 .. 4 |-> Of(Len(program'), b)])
            /\ pos'    = Aligned(pos) + 4
            /\ UNCHANGED <<origin, values, exports, lastLabel, output>>

ReadBad(l) ==
  l.kind = "bad" /\ Read(l, pos) /\ Fail

ReadLine(l) ==
  \/ ReadLabel(l) \/ ReadData(l) \/ ReadOrg(l) \/ ReadValue(l)
  \/ ReadExport(l) \/ ReadInstruction(l) \/ ReadBad(l)

-----------------------------------------------------------------------------
(* The first label of the name, if any.                                    *)
Declared(name) ==
  {k \in DOMAIN labels : /\ labels[k].name = name
                         /\ \A j \in 1 .. k - 1 : labels[j].name # name}

(* link(), of one point.                                                   *)
Link(buffer, point) ==
  LET off == labels[CHOOSE k \in Declared(point.name) : TRUE].off
  IN  Put(buffer, point.off, <<Low(off), High(off)>>)

(* The loop over the link points: after k of them.                         *)
Linked ==
  LET after[k \in 0 .. Len(links)] ==
        IF k = 0 THEN code ELSE Link(after[k - 1], links[k])
  IN  after[Len(links)]

(* as_raw_binary.                                                          *)
AsRaw ==
  /\ phase = "lines" /\ UNCHANGED <<program, place>>
  /\ IF \E k \in DOMAIN links : Declared(links[k].name) = {}
       THEN Fail
       ELSE /\ code' = Linked
            /\ phase' = "raw"
            /\ UNCHANGED <<pos, tables, section>>

(* The address of the first byte of the section.                           *)
Base == IF origin = -1 THEN 0 ELSE origin

(* Mutant of Stripped: one byte too many goes.                             *)
StrippedMore == SubSeq(code, Base + 2, Len(code))

(* iof_section_builder::build drops what is before the origin.             *)
Stripped == SubSeq(code, Base + 1, Len(code))

(* as_object: an exception ends the assembler when the origin is behind    *)
(* all the code.                                                           *)
AsObject ==
  /\ phase = "lines" /\ UNCHANGED <<program, place>>
  /\ IF \/ \E k \in DOMAIN exports : Declared(exports[k]) = {}
        \/ code # <<>> /\ origin >= Len(code)
       THEN Fail
       ELSE /\ section' =
                 [code    |-> Stripped,
                  size    |-> (Len(code) - Base) % AddrSize,
                  origin  |-> origin,
                  symbols |-> labels,
                  links   |-> links,
                  exports |-> [k \in DOMAIN exports |->
                    labels[CHOOSE j \in Declared(exports[k]) : TRUE]]]
            /\ phase' = "object"
            /\ UNCHANGED <<code, pos, tables>>

Finished ==
  /\ phase # "lines"
  /\ UNCHANGED vars

Next == (\E l \in Line : ReadLine(l)) \/ AsRaw \/ AsObject \/ Finished

Spec == Init /\ [][Next]_vars

(* Programs the assembler places without a warning and in which nothing    *)
(* has to move that it would leave behind: the first origin comes before   *)
(* all code, a later one is no step back and does not follow a label at    *)
(* once, a local label is declared once in its function, and an            *)
(* instruction that is moved has one label at most and refers to none.     *)
Tidy(l) ==
  /\ l.kind = "org" =>
       /\ l.addr >= pos /\ (origin = -1 => code = <<>>)
       /\ \A k \in DOMAIN labels : labels[k].off < pos
  /\ l.kind = "label" => \A k \in DOMAIN labels : labels[k].name # Resolved(l.name)
  /\ l.kind = "ins" /\ pos % 4 # 0 =>
       /\ ~Links(l)
       /\ Cardinality({k \in DOMAIN labels : labels[k].off = pos}) <= 1

TidyNext ==
  (\E l \in Line : Tidy(l) /\ ReadLine(l)) \/ AsRaw \/ AsObject \/ Finished

TidySpec == Init /\ [][TidyNext]_vars

-----------------------------------------------------------------------------
(* The types of the state: every label lies in the code or at a position   *)
(* that was reached, every link point in the code with both its bytes.     *)
TypeOK ==
  /\ \A a \in DOMAIN code : code[a][1] \in {"item", "zero", "low", "high"}
  /\ pos \in Nat /\ origin \in Nat \cup {-1}
  /\ \A k \in DOMAIN labels : labels[k].off \in 0 .. pos \cup 0 .. Len(code)
  /\ \A k \in DOMAIN links : links[k].off + 1 < Len(code)
  /\ phase \in {"lines", "object", "raw", "failed"}
  /\ Len(place) = Len(program)

(* The bytes a line takes.                                                 *)
SizeOf(l) == IF l.kind = "ins" THEN 4 ELSE IF l.kind = "data" THEN l.size ELSE 0

Lines == {k \in DOMAIN program : phase # "failed" \/ k < Len(program)}

(* Byte b of line k.                                                       *)
Item(k, b) ==
  IF program[k].kind = "data" /\ program[k].zero THEN Zero ELSE Of(k, b)

(* "All instructions must be 4-byte aligned" (insert_instruction), and     *)
(* nothing that is placed later overwrites what a line placed: while lines *)
(* are read, all bytes of every line are in the code, in their order, each *)
(* instruction at a multiple of four.                                      *)
ItemsIntact ==
  phase = "lines" =>
    \A k \in Lines :
      /\ program[k].kind = "ins" => place[k] % 4 = 0
      /\ \A b \in 1 .. SizeOf(program[k]) : code[place[k] + b] = Item(k, b)

(* The next line that places a byte, after line d, if any.                 *)
Following(d) ==
  {k \in Lines : /\ d < k /\ SizeOf(program[k]) > 0
                 /\ \A j \in d + 1 .. k - 1 : SizeOf(program[j]) = 0}

Moves(d) == \E j \in Lines : /\ d < j /\ program[j].kind = "org"
                             /\ \A k \in Following(d) : j < k

(* The lines that declare the labels, in their order.                      *)
LabelLines == {k \in Lines : program[k].kind = "label"}
Rank(d)    == Cardinality({k \in LabelLines : k <= d})
LabelOf(d) == labels[Rank(d)]

(* A label is the address of what follows it: "we have to check the        *)
(* previous label and possibly align it with a 4 byte boundry, where the   *)
(* instruction will be placed" (insert_instruction).                       *)
LabelsLead ==
  \A d \in LabelLines : \A k \in Following(d) :
    ~Moves(d) => LabelOf(d).off = place[k]

(* The regular labels up to a line, and the one the line belongs to, 0 for *)
(* none.                                                                   *)
RegularUpTo(k) == {d \in LabelLines : d <= k /\ ~Local(program[d].name)}
Function(k) == Max({0} \cup RegularUpTo(k))

Declares(d, k) ==
  /\ d \in LabelLines
  /\ program[d].name = program[k].ref
  /\ Local(program[k].ref) => Function(d) = Function(k)

IsValue(k) ==
  \E j \in 1 .. k - 1 : program[j].kind = "value" /\ program[j].name = program[k].ref

(* In the raw binary, the operand of an instruction that names a label is  *)
(* the address of what follows the label, in its own function if the label *)
(* is local, before the instruction or after it (link, add_link_point).    *)
ReferencesResolved ==
  phase = "raw" =>
    \A k \in Lines :
      program[k].kind = "ins" /\ program[k].ref # NoRef /\ ~IsValue(k) =>
        \E d \in LabelLines :
          LET to == IF Following(d) = {} THEN pos
                    ELSE place[CHOOSE j \in Following(d) : TRUE]
              at == place[k] + program[k].field
          IN  /\ Declares(d, k)
              /\ code[at + 1] = Low(to) /\ code[at + 2] = High(to)

(* The section has the bytes of every line, at their distance from its     *)
(* origin, and says how many there are, when two bytes can: what is        *)
(* stripped is "unnecessary padding before the first origin"               *)
(* (iof_section_builder::build).                                           *)
SectionHasEveryItem ==
  phase = "object" =>
    /\ code # <<>> /\ Len(section.code) < AddrSize
         => section.size = Len(section.code)
    /\ \A k \in Lines : \A b \in 1 .. SizeOf(program[k]) :
         /\ place[k] - Base + b \in DOMAIN section.code
         /\ section.code[place[k] - Base + b] = Item(k, b)

(* "address in section" (iof.h, of a symbol and of a link): a symbol is    *)
(* the distance of what follows its label from the first byte of the       *)
(* section, to which the linker adds the place of the section.             *)
SymbolsInSection ==
  phase = "object" =>
    \A d \in LabelLines : \A k \in Following(d) :
      ~Moves(d) => section.symbols[Rank(d)].off
                     = place[k] - Base

=============================================================================
