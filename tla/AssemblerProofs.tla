--------------------------- MODULE AssemblerProofs ---------------------------
(***************************************************************************)
(* Proofs about Assembler, for every set of lines and programs of any      *)
(* length, placed under TidySpec.                                          *)
(***************************************************************************)
EXTENDS Assembler, LeastNumber, SequenceTheorems

(* The bytes of the code, the parts of names and the entries of the tables.*)
CodeByte == {"item", "zero", "low", "high"} \X Nat \X Nat
Name     == {l.name : l \in {m \in Line : m.kind = "label"}}
              \cup {l.ref : l \in {m \in Line : m.kind = "ins"}}
Part     == {""} \cup {n[1] : n \in Name} \cup {n[2] : n \in Name}
Entry    == [name : Part \X Part, off : Nat]

Types ==
  /\ code \in Seq(CodeByte) /\ pos \in Nat /\ origin \in Nat \cup {-1}
  /\ labels \in Seq(Entry) /\ links \in Seq(Entry) /\ lastLabel \in Part
  /\ program \in Seq(Line) /\ place \in Seq(Nat) /\ Len(place) = Len(program)
  /\ phase \in {"lines", "object", "raw", "failed"}
  /\ \A m \in DOMAIN labels : labels[m].off <= pos
  /\ \A m \in DOMAIN links : links[m].off + 2 <= Len(code)

(* Where the bytes of the lines went: behind those of the lines before,    *)
(* behind the origin and within the code.                                  *)
Placed ==
  /\ Len(code) <= pos /\ origin <= pos
  /\ \A k \in DOMAIN program :
       /\ place[k] + SizeOf(program[k]) <= pos
       /\ SizeOf(program[k]) > 0 =>
            place[k] + SizeOf(program[k]) <= Len(code) /\ origin <= place[k]
       /\ program[k].kind = "ins" => place[k] % 4 = 0
       /\ \A b \in 1 .. SizeOf(program[k]) : code[place[k] + b] = Item(k, b)
  /\ \A k, j \in DOMAIN program :
       k < j => place[k] + SizeOf(program[k]) <= place[j]

(* The name line k means by a name: a local one is of its function.        *)
NameAt(name, k) ==
  IF Local(name) THEN <<program[Function(k)].name[1], name[2]>> ELSE name

(* The labels and the lines that declare them, one for one; a label with   *)
(* nothing behind it yet is at the position.                               *)
Labelled ==
  /\ Len(labels) = Cardinality(LabelLines)
  /\ lastLabel = IF Function(Len(program)) = 0 THEN ""
                 ELSE program[Function(Len(program))].name[1]
  /\ \A d \in LabelLines :
       /\ Rank(d) \in DOMAIN labels
       /\ labels[Rank(d)].name = NameAt(program[d].name, d)
       /\ Local(program[d].name) => Function(d) # 0
       /\ \A k \in Following(d) : labels[Rank(d)].off = place[k]
       /\ (\A j \in d + 1 .. Len(program) : SizeOf(program[j]) = 0)
            => labels[Rank(d)].off = pos
  /\ \A d, e \in LabelLines :
       NameAt(program[d].name, d) = NameAt(program[e].name, e) => d = e
  /\ \A m \in DOMAIN labels : \E d \in LabelLines : m = Rank(d)

(* The instructions that refer to a label, and the point where line k      *)
(* needs its address.                                                      *)
Refers(k) == program[k].kind = "ins" /\ program[k].ref # NoRef /\ ~IsValue(k)
Point(k)  == [name |-> NameAt(program[k].ref, k), off |-> place[k] + program[k].field]

(* The link points: those of the instructions that refer to a label, each  *)
(* behind the bytes of the one before.                                     *)
Linking ==
  /\ values = {program[j].name : j \in {i \in DOMAIN program : program[i].kind = "value"}}
  /\ \A m, p \in DOMAIN links : m < p => links[m].off + 2 <= links[p].off
  /\ \A k \in DOMAIN program : Refers(k) =>
       /\ \E m \in DOMAIN links : links[m] = Point(k)
       /\ Local(program[k].ref) => Function(k) # 0

(* The inductive invariant.                                                *)
Invariant ==
  /\ Types
  /\ phase = "lines" => Placed /\ Linking
  /\ phase # "failed" => Labelled
  /\ LabelsLead /\ ReferencesResolved /\ SectionHasEveryItem

-----------------------------------------------------------------------------
(* What the assumption says of one line.                                   *)
LEMMA SizeIsNat ==
  ASSUME NEW l \in Line
  PROVE  /\ SizeOf(l) \in Nat
         /\ l.kind = "ins" => SizeOf(l) = 4
         /\ l.kind = "data" => SizeOf(l) = l.size
         /\ l.kind \notin {"ins", "data"} => SizeOf(l) = 0
BY AssemblerAssumption DEF SizeOf

LEMMA CodeBytes ==
  /\ Zero \in CodeByte
  /\ \A k, b \in Nat : Of(k, b) \in CodeByte
  /\ \A addr \in Nat : Low(addr) \in CodeByte /\ High(addr) \in CodeByte
<1>1. \A addr \in Nat : addr % AddrSize \in Nat
  BY AssemblerAssumption
<1> QED
  BY <1>1 DEF Zero, Of, Low, High, CodeByte

(* What is put into the buffer is there, and the rest stays                *)
(* (bytebuffer::insert_range).                                             *)
LEMMA PutKeeps ==
  ASSUME NEW buffer \in Seq(CodeByte), NEW at \in Nat, NEW bytes \in Seq(CodeByte)
  PROVE  /\ Put(buffer, at, bytes) \in Seq(CodeByte)
         /\ Len(Put(buffer, at, bytes)) =
              IF at + Len(bytes) > Len(buffer) THEN at + Len(bytes) ELSE Len(buffer)
         /\ \A b \in 1 .. Len(bytes) : Put(buffer, at, bytes)[at + b] = bytes[b]
         /\ \A a \in 1 .. Len(buffer) :
              ~(at < a /\ a <= at + Len(bytes)) => Put(buffer, at, bytes)[a] = buffer[a]
<1> DEFINE len == IF at + Len(bytes) > Len(buffer) THEN at + Len(bytes) ELSE Len(buffer)
           Byte(a) == IF at < a /\ a <= at + Len(bytes) THEN bytes[a - at]
                      ELSE IF a <= Len(buffer) THEN buffer[a] ELSE Zero
           put == Put(buffer, at, bytes)
<1>1. /\ len \in Nat /\ Len(bytes) \in Nat /\ Len(buffer) \in Nat
      /\ at + Len(bytes) <= len /\ Len(buffer) <= len
  OBVIOUS
<1>2. put = [a \in 1 .. len |-> Byte(a)]
  BY DEF Put
<1>3. \A b \in 1 .. Len(bytes) : at + b \in 1 .. len /\ Byte(at + b) = bytes[b]
  BY <1>1
<1>4. \A a \in 1 .. Len(buffer) :
        a \in 1 .. len /\ (~(at < a /\ a <= at + Len(bytes)) => Byte(a) = buffer[a])
  BY <1>1
<1>5. ASSUME NEW a \in 1 .. len PROVE Byte(a) \in CodeByte
  <2>1. \A b \in 1 .. Len(bytes) : bytes[b] \in CodeByte
    OBVIOUS
  <2>2. \A b \in 1 .. Len(buffer) : buffer[b] \in CodeByte
    OBVIOUS
  <2>3. at < a /\ a <= at + Len(bytes) => a - at \in 1 .. Len(bytes)
    BY <1>1
  <2>4. a <= Len(buffer) => a \in 1 .. Len(buffer)
    BY <1>1
  <2> QED
    BY <2>1, <2>2, <2>3, <2>4, CodeBytes
<1> HIDE DEF len, Byte, put
<1>6. put \in Seq(CodeByte) /\ Len(put) = len
  BY <1>1, <1>2, <1>5
<1>7. \A a \in 1 .. len : put[a] = Byte(a)
  BY <1>2
<1> USE DEF put
<1> QED
  BY <1>3, <1>4, <1>6, <1>7 DEF len

Written(buffer, at, bytes, put) ==
  /\ put \in Seq(CodeByte)
  /\ Len(put) = IF at + Len(bytes) > Len(buffer) THEN at + Len(bytes) ELSE Len(buffer)
  /\ \A b \in 1 .. Len(bytes) : put[at + b] = bytes[b]
  /\ \A a \in 1 .. Len(buffer) : ~(at < a /\ a <= at + Len(bytes)) => put[a] = buffer[a]

LEMMA PutWrites ==
  ASSUME NEW buffer \in Seq(CodeByte), NEW at \in Nat, NEW bytes \in Seq(CodeByte)
  PROVE  Written(buffer, at, bytes, Put(buffer, at, bytes))
BY PutKeeps DEF Written

(* A name has two parts, and a local one gets the last regular one.        *)
LEMMA NameParts ==
  ASSUME NEW name \in Name
  PROVE  /\ name[1] \in Part /\ name[2] \in Part /\ name = <<name[1], name[2]>>
         /\ name = NoRef \/ IsName(name)
<1>1. name[1] \in Part /\ name[2] \in Part
  BY DEF Part
<1>2. name = NoRef \/ IsName(name)
  BY AssemblerAssumption DEF Name
<1>3. \A a, b : <<a, b>>[1] = a /\ <<a, b>>[2] = b
  OBVIOUS
<1>4. PICK a, b : name = <<a, b>>
  BY <1>2 DEF NoRef, IsName
<1>5. name = <<name[1], name[2]>>
  BY <1>3, <1>4
<1> QED
  BY <1>1, <1>2, <1>5

LEMMA ResolvedParts ==
  ASSUME lastLabel \in Part, NEW name \in Name
  PROVE  Resolved(name) \in Part \X Part
BY NameParts DEF Resolved

LEMMA AlignedUp ==
  ASSUME NEW at \in Nat
  PROVE  /\ Aligned(at) \in Nat /\ Aligned(at) >= at /\ Aligned(at) % 4 = 0
         /\ at % 4 = 0 => Aligned(at) = at
BY SMT DEF Aligned

(* What AlignLabels keeps: every label but the ones at the position.       *)
LEMMA AlignLabelsKeeps ==
  ASSUME labels \in Seq(Entry), NEW to \in Nat
  PROVE  /\ AlignLabels(to) \in Seq(Entry)
         /\ Len(AlignLabels(to)) = Len(labels)
         /\ \A m \in DOMAIN labels :
              /\ AlignLabels(to)[m].name = labels[m].name
              /\ AlignLabels(to)[m].off \in {labels[m].off, to}
              /\ labels[m].off # pos => AlignLabels(to)[m].off = labels[m].off
<1> DEFINE here == {k \in DOMAIN labels : labels[k].off = pos}
           Moved(m) == IF m \in here /\ \A j \in here : m <= j
                         THEN [labels[m] EXCEPT !.off = to] ELSE labels[m]
<1>1. AlignLabels(to) = [m \in DOMAIN labels |-> Moved(m)]
  BY DEF AlignLabels
<1>2. ASSUME NEW m \in DOMAIN labels
      PROVE  /\ Moved(m) \in Entry /\ Moved(m).name = labels[m].name
             /\ Moved(m).off \in {labels[m].off, to}
             /\ labels[m].off # pos => Moved(m).off = labels[m].off
  <2>1. labels[m] \in Entry
    OBVIOUS
  <2>2. [labels[m] EXCEPT !.off = to] \in Entry
    BY <2>1 DEF Entry
  <2>3. [labels[m] EXCEPT !.off = to].off = to
        /\ [labels[m] EXCEPT !.off = to].name = labels[m].name
    BY <2>1 DEF Entry
  <2> QED
    BY <2>1, <2>2, <2>3
<1> HIDE DEF Moved
<1>3. DOMAIN labels = 1 .. Len(labels) /\ Len(labels) \in Nat
  OBVIOUS
<1>4. AlignLabels(to) \in Seq(Entry) /\ Len(AlignLabels(to)) = Len(labels)
  BY <1>1, <1>2, <1>3
<1>5. \A m \in DOMAIN labels : AlignLabels(to)[m] = Moved(m)
  BY <1>1
<1> QED
  BY <1>2, <1>4, <1>5

(* When at most one label is at the position, it moves.                    *)
LEMMA AlignLabelsMoves ==
  ASSUME labels \in Seq(Entry), NEW to \in Nat,
         to = pos \/ Cardinality({k \in DOMAIN labels : labels[k].off = pos}) <= 1,
         NEW m \in DOMAIN labels, labels[m].off = pos
  PROVE  AlignLabels(to)[m].off = to
<1> DEFINE here == {k \in DOMAIN labels : labels[k].off = pos}
<1>1. DOMAIN labels = 1 .. Len(labels) /\ Len(labels) \in Nat
  OBVIOUS
<1>2. IsFiniteSet(here)
  <2>1. IsFiniteSet(1 .. Len(labels))
    BY <1>1, FS_Interval
  <2> QED
    BY <1>1, <2>1, FS_Subset
<1>3. ASSUME to # pos, NEW j \in here PROVE j = m
  <2>1. m \in here /\ Cardinality(here) \in Nat /\ Cardinality(here) <= 1
    BY <1>2, <1>3, FS_CardinalityType
  <2>2. IsFiniteSet(here \ {m}) /\ Cardinality(here \ {m}) = Cardinality(here) - 1
    BY <1>2, <2>1, FS_RemoveElement
  <2>3. Cardinality(here \ {m}) = 0
    BY <2>1, <2>2, FS_CardinalityType
  <2>4. here \ {m} = {}
    BY <2>2, <2>3, FS_EmptySet
  <2> QED
    BY <1>3, <2>4
<1>4. CASE to = pos
  BY <1>4, AlignLabelsKeeps
<1>5. CASE to # pos
  <2>1. m \in here /\ \A j \in here : m <= j
    BY <1>1, <1>3, <1>5
  <2>2. AlignLabels(to)[m] = [labels[m] EXCEPT !.off = to]
    BY <2>1 DEF AlignLabels
  <2>3. labels[m] \in Entry
    OBVIOUS
  <2> QED
    BY <2>2, <2>3 DEF Entry
<1> QED
  BY <1>4, <1>5

(* What the tables say of one entry.                                       *)
LEMMA Entries ==
  ASSUME Types
  PROVE  /\ \A m \in DOMAIN labels : /\ labels[m] \in Entry /\ labels[m].off \in Nat
                                    /\ labels[m].off <= pos
         /\ \A m \in DOMAIN links : /\ links[m] \in Entry /\ links[m].off \in Nat
                                   /\ links[m].off + 2 <= Len(code)
<1>1. labels \in Seq(Entry) /\ links \in Seq(Entry)
  BY DEF Types
<1>2. /\ \A m \in DOMAIN labels : labels[m] \in Entry
      /\ \A m \in DOMAIN links : links[m] \in Entry
  BY <1>1
<1>3. \A e \in Entry : e.off \in Nat
  BY DEF Entry
<1> QED
  BY <1>2, <1>3 DEF Types

-----------------------------------------------------------------------------
(* One more line is read, and its bytes are placed.                        *)
OneMoreLine(l, at, n) ==
  /\ program' \in Seq(Line) /\ place' \in Seq(Nat) /\ phase = "lines"
  /\ Len(program') = n + 1 /\ Len(place') = n + 1
  /\ DOMAIN program = 1 .. n /\ DOMAIN program' = 1 .. n + 1
  /\ \A k \in 1 .. n : /\ program'[k] = program[k] /\ place'[k] = place[k]
                       /\ program[k] \in Line /\ place[k] \in Nat
  /\ program'[n + 1] = l /\ place'[n + 1] = at

LEMMA OneMorePlaced ==
  ASSUME Types, NEW l \in Line, NEW at \in Nat, Read(l, at),
         NEW n \in Nat, n = Len(program)
  PROVE  OneMoreLine(l, at, n)
<1>1. /\ program \in Seq(Line) /\ place \in Seq(Nat) /\ Len(place) = n
      /\ program' = Append(program, l) /\ place' = Append(place, at) /\ phase = "lines"
  BY DEF Types, Read
<1>2. /\ program' \in Seq(Line) /\ Len(program') = n + 1 /\ program'[n + 1] = l
      /\ \A k \in 1 .. n : program'[k] = program[k]
  BY <1>1, AppendProperties
<1>3. /\ place' \in Seq(Nat) /\ Len(place') = n + 1 /\ place'[n + 1] = at
      /\ \A k \in 1 .. n : place'[k] = place[k]
  BY <1>1, AppendProperties
<1>4. \A k \in 1 .. n : program[k] \in Line /\ place[k] \in Nat
  BY <1>1, ElementOfSeq
<1>5. DOMAIN program = 1 .. n /\ DOMAIN program' = 1 .. n + 1
  BY <1>1, <1>2, LenProperties
<1>6. \A k \in 1 .. n : /\ program'[k] = program[k] /\ place'[k] = place[k]
                        /\ program[k] \in Line /\ place[k] \in Nat
  BY <1>2, <1>3, <1>4
<1> QED
  BY <1>1, <1>2, <1>3, <1>5, <1>6 DEF OneMoreLine

LEMMA OneMore ==
  ASSUME Types, NEW l \in Line, NEW at \in Nat, Read(l, at),
         NEW n \in Nat, n = Len(program)
  PROVE  /\ program' \in Seq(Line) /\ place' \in Seq(Nat) /\ phase = "lines"
         /\ Len(program') = n + 1 /\ Len(place') = n + 1
         /\ DOMAIN program = 1 .. n /\ DOMAIN program' = 1 .. n + 1
         /\ \A k \in 1 .. n : /\ program'[k] = program[k] /\ place'[k] = place[k]
                              /\ program[k] \in Line /\ place[k] \in Nat
         /\ program'[n + 1] = l /\ place'[n + 1] = at
<1>1. OneMoreLine(l, at, n)
  BY OneMorePlaced
<1> QED
  BY <1>1 DEF OneMoreLine

(* A line whose bytes go to the position or behind it overwrites nothing.  *)
LEMMA PlacedGrows ==
  ASSUME Types, Placed, NEW l \in Line, NEW at \in Nat, Read(l, at), at >= pos,
         pos' \in Nat, at + SizeOf(l) <= pos', code' \in Seq(CodeByte),
         Len(code) <= Len(code'), Len(code') <= pos',
         \A a \in 1 .. Len(code) : code'[a] = code[a],
         l.kind = "ins" => at % 4 = 0, origin' <= pos',
         SizeOf(l) > 0 => at + SizeOf(l) <= Len(code') /\ origin' <= at,
         \A b \in 1 .. SizeOf(l) :
           code'[at + b] = IF l.kind = "data" /\ l.zero THEN Zero ELSE Of(Len(program) + 1, b),
         origin' = origin \/ Len(code) = 0
  PROVE  Placed'
<1>1. PICK n \in Nat : n = Len(program)
  BY DEF Types
<1>2. /\ program' \in Seq(Line) /\ place' \in Seq(Nat) /\ phase = "lines"
      /\ Len(program') = n + 1 /\ Len(place') = n + 1
      /\ DOMAIN program = 1 .. n /\ DOMAIN program' = 1 .. n + 1
      /\ \A k \in 1 .. n : /\ program'[k] = program[k] /\ place'[k] = place[k]
                           /\ program[k] \in Line /\ place[k] \in Nat
      /\ program'[n + 1] = l /\ place'[n + 1] = at
  <2>1. OneMoreLine(l, at, n)
    BY <1>1, OneMorePlaced
  <2> QED
    BY <2>1 DEF OneMoreLine
<1>3. /\ pos \in Nat /\ Len(code) \in Nat /\ Len(code') \in Nat /\ SizeOf(l) \in Nat
      /\ origin \in Int
  BY SizeIsNat DEF Types
<1>4. ASSUME NEW k \in 1 .. n
      PROVE  /\ SizeOf(program[k]) \in Nat /\ place[k] + SizeOf(program[k]) <= pos
             /\ SizeOf(program[k]) > 0 =>
                  place[k] + SizeOf(program[k]) <= Len(code) /\ origin <= place[k]
             /\ program[k].kind = "ins" => place[k] % 4 = 0
             /\ \A b \in 1 .. SizeOf(program[k]) : code[place[k] + b] = Item(k, b)
  BY <1>2, <1>4, SizeIsNat DEF Placed
<1>5. ASSUME NEW k \in 1 .. n + 1
      PROVE  /\ place'[k] + SizeOf(program'[k]) <= pos'
             /\ SizeOf(program'[k]) > 0 =>
                  place'[k] + SizeOf(program'[k]) <= Len(code') /\ origin' <= place'[k]
             /\ program'[k].kind = "ins" => place'[k] % 4 = 0
             /\ \A b \in 1 .. SizeOf(program'[k]) : code'[place'[k] + b] = Item(k, b)'
  <2>1. CASE k = n + 1
    <3>1. \A b : Item(k, b)' = IF l.kind = "data" /\ l.zero THEN Zero ELSE Of(n + 1, b)
      BY <1>2, <2>1 DEF Item
    <3> QED
      BY <1>1, <1>2, <2>1, <3>1
  <2>2. CASE k # n + 1
    <3>1. k \in 1 .. n
      BY <2>2
    <3>2. \A b : Item(k, b)' = Item(k, b)
      BY <1>2, <3>1 DEF Item
    <3>0. PICK z \in Nat, at0 \in Nat : z = SizeOf(program[k]) /\ at0 = place[k]
      BY <1>2, <1>4, <3>1
    <3>9. at0 + z <= pos /\ (z > 0 => at0 + z <= Len(code) /\ origin <= at0)
      BY <1>4, <3>0, <3>1
    <3>3. ASSUME NEW b \in 1 .. z PROVE code'[at0 + b] = Item(k, b)
      <4>1. at0 + b \in 1 .. Len(code)
        BY <1>3, <3>9
      <4>2. code[at0 + b] = Item(k, b)
        BY <1>4, <3>0, <3>1
      <4> QED
        BY <4>1, <4>2
    <3>4. at0 + z <= pos'
      BY <1>3, <3>9
    <3>5. z > 0 => at0 + z <= Len(code') /\ origin' <= at0
      BY <1>3, <3>9
    <3>6. program[k].kind = "ins" => place[k] % 4 = 0
      BY <1>4, <3>1
    <3> QED
      BY <1>2, <3>0, <3>1, <3>2, <3>3, <3>4, <3>5, <3>6
  <2> QED
    BY <2>1, <2>2
<1>6. ASSUME NEW k \in 1 .. n + 1, NEW j \in 1 .. n + 1, k < j
      PROVE  place'[k] + SizeOf(program'[k]) <= place'[j]
  <2>1. k \in 1 .. n /\ program'[k] = program[k] /\ place'[k] = place[k]
    BY <1>2, <1>6
  <2>2. CASE j = n + 1
    <3>1. place[k] + SizeOf(program[k]) <= pos /\ SizeOf(program[k]) \in Nat /\ place[k] \in Nat
      BY <1>2, <1>4, <2>1
    <3>2. place'[j] = at
      BY <1>2, <2>2
    <3> QED
      BY <1>3, <2>1, <3>1, <3>2
  <2>3. CASE j # n + 1
    <3>1. j \in 1 .. n /\ place'[j] = place[j]
      BY <1>2, <2>3
    <3>2. place[k] + SizeOf(program[k]) <= place[j]
      BY <1>2, <1>6, <2>1, <3>1 DEF Placed
    <3> QED
      BY <2>1, <3>1, <3>2
  <2> QED
    BY <2>2, <2>3
<1> QED
  BY <1>2, <1>5, <1>6 DEF Placed

-----------------------------------------------------------------------------
(* A line that is rejected leaves the tables as they were (error()).       *)
LEMMA RejectedKeepsTypes ==
  ASSUME Types, NEW l \in Line, NEW at \in Nat, Read(l, at), Fail
  PROVE  Types' /\ phase' = "failed"
<1>1. /\ program' \in Seq(Line) /\ place' \in Seq(Nat) /\ Len(place') = Len(program')
  <2>1. PICK n \in Nat : n = Len(program)
    BY DEF Types
  <2> QED
    BY <2>1, OneMore
<1>2. UNCHANGED <<code, pos, origin, labels, links, lastLabel>> /\ phase' = "failed"
  BY DEF Fail, tables
<1> QED
  BY <1>1, <1>2 DEF Types

(* A line that places nothing where it is read: what it needs to do for    *)
(* the state to stay well placed.                                          *)
LEMMA PlacesNothing ==
  ASSUME Types, Placed, NEW l \in Line, Read(l, pos), l.kind \notin {"ins", "data"},
         code' = code, pos' \in Nat, pos <= pos', origin' <= pos',
         origin' = origin \/ code = <<>>
  PROVE  Placed'
<1>1. SizeOf(l) = 0 /\ code \in Seq(CodeByte) /\ pos \in Nat /\ Len(code) <= pos
  BY SizeIsNat DEF Types, Placed
<1>2. Len(code) \in Nat /\ (code = <<>> => Len(code) = 0)
  BY <1>1
<1>3. Len(code') = Len(code) /\ Len(code') <= pos' /\ code' \in Seq(CodeByte)
  BY <1>1, <1>2
<1> QED
  BY <1>1, <1>2, <1>3, PlacedGrows

(* parse_label.                                                            *)
LEMMA LabelPlaced ==
  ASSUME Types, Placed, NEW l \in Line, ReadLabel(l)
  PROVE  Types' /\ (phase' = "lines" => Placed')
<1>1. l.kind = "label" /\ Read(l, pos) /\ pos \in Nat /\ l.name \in Name
  BY DEF ReadLabel, Types, Name
<1>2. CASE Fail
  BY <1>1, <1>2, RejectedKeepsTypes
<1>3. CASE ~Fail
  <2>1. /\ labels' = Append(labels, [name |-> Resolved(l.name), off |-> pos])
        /\ lastLabel' = IF Local(l.name) THEN lastLabel ELSE l.name[1]
        /\ UNCHANGED <<code, pos, origin, links, section, phase>>
    BY <1>3 DEF ReadLabel, output
  <2>2. [name |-> Resolved(l.name), off |-> pos] \in Entry
    BY <1>1, ResolvedParts DEF Types, Entry
  <2>3. labels \in Seq(Entry) /\ \A m \in DOMAIN labels : labels[m].off <= pos
    BY DEF Types
  <2>4. labels' \in Seq(Entry) /\ \A m \in DOMAIN labels' : labels'[m].off <= pos
    <3>1. /\ labels' \in Seq(Entry) /\ Len(labels') = Len(labels) + 1
          /\ \A m \in 1 .. Len(labels) : labels'[m] = labels[m]
          /\ labels'[Len(labels) + 1] = [name |-> Resolved(l.name), off |-> pos]
      BY <2>1, <2>2, <2>3, AppendProperties
    <3> QED
      BY <1>1, <2>3, <3>1
  <2>5. lastLabel' \in Part
    BY <1>1, <2>1, NameParts DEF Types
  <2>6. program' \in Seq(Line) /\ place' \in Seq(Nat) /\ Len(place') = Len(program')
    <3>1. PICK n \in Nat : n = Len(program)
      BY DEF Types
    <3> QED
      BY <1>1, <3>1, OneMore
  <2>7. Types'
    BY <2>1, <2>4, <2>5, <2>6 DEF Types
  <2>8. Placed'
    BY <1>1, <2>1, PlacesNothing DEF Placed
  <2> QED
    BY <2>7, <2>8
<1> QED
  BY <1>2, <1>3

(* directive_byte, directive_string and directive_resv.                    *)
LEMMA DataBytes ==
  ASSUME NEW l \in Line, l.kind = "data", NEW n \in Nat,
         NEW bytes, bytes = [b \in 1 .. l.size |-> IF l.zero THEN Zero ELSE Of(n, b)]
  PROVE  /\ bytes \in Seq(CodeByte) /\ Len(bytes) = l.size
         /\ \A b \in 1 .. l.size : bytes[b] = IF l.zero THEN Zero ELSE Of(n, b)
<1>1. l.size \in Nat
  BY AssemblerAssumption
<1>2. \A b \in 1 .. l.size : (IF l.zero THEN Zero ELSE Of(n, b)) \in CodeByte
  BY <1>1, CodeBytes
<1> QED
  BY <1>1, <1>2

LEMMA DataPlaced ==
  ASSUME Types, Placed, NEW l \in Line, ReadData(l)
  PROVE  Types' /\ Placed'
<1>1. PICK n \in Nat : n = Len(program)
  BY DEF Types
<1>2. /\ l.kind = "data" /\ Read(l, pos) /\ pos \in Nat /\ pos' = pos + l.size
      /\ UNCHANGED <<origin, labels, links, lastLabel, phase>>
  BY DEF ReadData, Types, tables, output
<1>3. /\ program' \in Seq(Line) /\ place' \in Seq(Nat)
      /\ Len(place') = n + 1 /\ Len(program') = n + 1
  BY <1>1, <1>2, OneMore
<1>4. PICK bytes : /\ code' = Put(code, pos, bytes)
                   /\ bytes = [b \in 1 .. l.size |->
                                 IF l.zero THEN Zero ELSE Of(Len(program'), b)]
  BY DEF ReadData
<1>14. /\ bytes \in Seq(CodeByte) /\ Len(bytes) = l.size
       /\ \A b \in 1 .. l.size : bytes[b] = IF l.zero THEN Zero ELSE Of(n + 1, b)
  <2>1. Len(program') \in Nat /\ Len(program') = n + 1
    BY <1>3
  <2>2. /\ bytes \in Seq(CodeByte) /\ Len(bytes) = l.size
        /\ \A b \in 1 .. l.size : bytes[b] = IF l.zero THEN Zero ELSE Of(Len(program'), b)
    BY <1>2, <1>4, <2>1, DataBytes
  <2> QED
    BY <2>1, <2>2
<1>5. /\ SizeOf(l) = l.size /\ l.size \in Nat /\ code \in Seq(CodeByte) /\ Len(code) \in Nat
      /\ Len(code) <= pos
  BY <1>2, SizeIsNat DEF Types, Placed
<1>6. /\ code' \in Seq(CodeByte)
      /\ Len(code') = IF pos + l.size > Len(code) THEN pos + l.size ELSE Len(code)
      /\ \A b \in 1 .. l.size : code'[pos + b] = bytes[b]
      /\ \A a \in 1 .. Len(code) :
           ~(pos < a /\ a <= pos + l.size) => code'[a] = code[a]
  <2>1. code' = Put(code, pos, bytes)
    BY <1>4
  <2>2. bytes \in Seq(CodeByte) /\ Len(bytes) = l.size
    BY <1>14
  <2>3. Written(code, pos, bytes, code')
    BY <1>2, <1>5, <2>1, <2>2, PutWrites
  <2> QED
    BY <2>2, <2>3 DEF Written
<1>7. /\ pos' \in Nat /\ pos <= pos' /\ Len(code) <= Len(code') /\ Len(code') <= pos'
      /\ (l.size > 0 => pos + l.size <= Len(code'))
  BY <1>2, <1>5, <1>6
<1>8. \A a \in 1 .. Len(code) : code'[a] = code[a]
  BY <1>2, <1>5, <1>6
<1>9. Types'
  <2>1. labels' \in Seq(Entry) /\ \A m \in DOMAIN labels' : labels'[m].off <= pos'
    <3>1. \A m \in DOMAIN labels : labels[m].off <= pos'
      BY <1>2, <1>7, Entries
    <3> QED
      BY <1>2, <3>1 DEF Types
  <2>2. links' \in Seq(Entry) /\ \A m \in DOMAIN links' : links'[m].off + 2 <= Len(code')
    <3>1. \A m \in DOMAIN links : links[m].off + 2 <= Len(code')
      BY <1>5, <1>6, <1>7, Entries
    <3> QED
      BY <1>2, <3>1 DEF Types
  <2> QED
    BY <1>2, <1>3, <1>6, <1>7, <2>1, <2>2 DEF Types
<1>10. origin' <= pos' /\ (SizeOf(l) > 0 => origin' <= pos)
  BY <1>2, <1>7 DEF Types, Placed
<1>11. \A b \in 1 .. SizeOf(l) : code'[pos + b] =
         IF l.kind = "data" /\ l.zero THEN Zero ELSE Of(Len(program) + 1, b)
  BY <1>1, <1>2, <1>5, <1>6, <1>14
<1>12. /\ pos + SizeOf(l) <= pos' /\ pos >= pos /\ l.kind # "ins"
       /\ SizeOf(l) > 0 => pos + SizeOf(l) <= Len(code')
  BY <1>2, <1>5, <1>7
<1>13. Placed'
  BY <1>2, <1>6, <1>7, <1>8, <1>10, <1>11, <1>12, PlacedGrows
<1> QED
  BY <1>9, <1>13

(* directive_org.                                                          *)
LEMMA OrgPlaced ==
  ASSUME Types, Placed, NEW l \in Line, ReadOrg(l), Tidy(l)
  PROVE  Types' /\ Placed'
<1>1. PICK n \in Nat : n = Len(program)
  BY DEF Types
<1>2. /\ l.kind = "org" /\ Read(l, pos) /\ pos \in Nat /\ pos' = l.addr /\ l.addr \in Nat
      /\ origin' = IF origin = -1 \/ origin > l.addr THEN l.addr ELSE origin
      /\ UNCHANGED <<code, labels, links, lastLabel, phase>>
      /\ l.addr >= pos /\ (origin = -1 => code = <<>>)
  BY AssemblerAssumption DEF ReadOrg, Types, Tidy, output
<1>3. /\ program' \in Seq(Line) /\ place' \in Seq(Nat)
      /\ Len(place') = n + 1 /\ Len(program') = n + 1
  BY <1>1, <1>2, OneMore
<1>4. /\ origin \in Nat \cup {-1} /\ origin <= pos
      /\ origin' \in Nat \cup {-1} /\ origin' <= pos'
      /\ origin' = origin \/ code = <<>>
  BY <1>2 DEF Types, Placed
<1>5. \A m \in DOMAIN labels' : labels'[m].off <= pos'
  BY <1>2, Entries
<1>6. Types'
  BY <1>2, <1>3, <1>4, <1>5 DEF Types
<1>7. Placed'
  BY <1>2, <1>4, PlacesNothing
<1> QED
  BY <1>6, <1>7

(* directive_value and directive_export.                                   *)
LEMMA NamePlaced ==
  ASSUME Types, Placed, NEW l \in Line, ReadValue(l) \/ ReadExport(l)
  PROVE  Types' /\ Placed'
<1>1. PICK n \in Nat : n = Len(program)
  BY DEF Types
<1>2. /\ l.kind \in {"value", "export"} /\ Read(l, pos) /\ pos \in Nat
      /\ UNCHANGED <<code, pos, origin, labels, links, lastLabel, phase>>
  BY DEF ReadValue, ReadExport, Types, output
<1>3. /\ program' \in Seq(Line) /\ place' \in Seq(Nat)
      /\ Len(place') = n + 1 /\ Len(program') = n + 1
  BY <1>1, <1>2, OneMore
<1>4. Types'
  BY <1>2, <1>3 DEF Types
<1>5. origin <= pos
  BY DEF Placed
<1>6. Placed'
  BY <1>2, <1>5, PlacesNothing
<1> QED
  BY <1>4, <1>6

(* What an instruction that is not rejected does (insert_instruction): to  *)
(* the tables, and to the code.                                            *)
LEMMA InstructionStep ==
  ASSUME Types, NEW l \in Line, ReadInstruction(l), ~Fail, Tidy(l),
         NEW at \in Nat, at = Aligned(pos)
  PROVE  /\ l.kind = "ins" /\ Read(l, at) /\ pos \in Nat /\ at >= pos /\ at % 4 = 0
         /\ SizeOf(l) = 4 /\ pos' = at + 4 /\ labels' = AlignLabels(at)
         /\ UNCHANGED <<origin, values, lastLabel, phase>>
         /\ \/ ~Links(l) /\ links' = links
            \/ /\ Links(l) /\ at = pos /\ (Local(l.ref) => lastLabel # "")
               /\ links' = Append(links, LinkPoint(l))
         /\ at = pos \/ Cardinality({k \in DOMAIN labels : labels[k].off = pos}) <= 1
<1>1. l.kind = "ins" /\ Read(l, at) /\ pos \in Nat /\ SizeOf(l) = 4
  BY SizeIsNat DEF ReadInstruction, Types
<1>2. at >= pos /\ at % 4 = 0 /\ (pos % 4 = 0 => at = pos)
  BY <1>1, AlignedUp
<1>3. /\ pos' = at + 4 /\ labels' = AlignLabels(at)
      /\ UNCHANGED <<origin, values, lastLabel, phase>>
      /\ links' = IF Links(l) THEN Append(links, LinkPoint(l)) ELSE links
      /\ Links(l) /\ Local(l.ref) => lastLabel # ""
  BY DEF ReadInstruction, output
<1>4. /\ Links(l) => at = pos
      /\ at = pos \/ Cardinality({k \in DOMAIN labels : labels[k].off = pos}) <= 1
  BY <1>1, <1>2 DEF Tidy
<1> QED
  BY <1>1, <1>2, <1>3, <1>4

LEMMA InstructionBytes ==
  ASSUME Types, Placed, NEW l \in Line, ReadInstruction(l), ~Fail,
         NEW at \in Nat, at = Aligned(pos), NEW z \in Nat, z = SizeOf(l)
  PROVE  /\ code' \in Seq(CodeByte) /\ Len(code') = at + z /\ Len(code) <= Len(code')
         /\ \A b \in 1 .. z : code'[at + b] = Of(Len(program) + 1, b)
         /\ \A a \in 1 .. Len(code) : code'[a] = code[a]
<1>1. /\ l.kind = "ins" /\ Read(l, at) /\ z = 4 /\ pos \in Nat /\ at >= pos
      /\ code \in Seq(CodeByte) /\ Len(code) \in Nat /\ Len(code) <= pos
  <2>1. l.kind = "ins" /\ Read(l, at)
    BY DEF ReadInstruction
  <2>2. z = 4
    BY <2>1, SizeIsNat
  <2>3. code \in Seq(CodeByte) /\ pos \in Nat /\ Len(code) <= pos
    BY DEF Types, Placed
  <2>4. Len(code) \in Nat /\ at >= pos
    BY <2>3, AlignedUp
  <2> QED
    BY <2>1, <2>2, <2>3, <2>4
<1>2. PICK bytes : /\ code' = Put(code, at, bytes)
                   /\ bytes = [b \in 1 .. 4 |-> Of(Len(program'), b)]
  BY DEF ReadInstruction
<1>3. PICK n \in Nat : n = Len(program') /\ n = Len(program) + 1
  <2>1. PICK n \in Nat : n = Len(program)
    BY DEF Types
  <2> QED
    BY <1>1, <2>1, OneMore
<1>4. bytes \in Seq(CodeByte) /\ Len(bytes) = z /\ \A b \in 1 .. z : bytes[b] = Of(n, b)
  <2>1. bytes = [b \in 1 .. z |-> Of(n, b)]
    BY <1>1, <1>2, <1>3
  <2>2. \A b \in 1 .. z : Of(n, b) \in CodeByte
    BY CodeBytes
  <2> HIDE DEF CodeByte, Of
  <2> QED
    BY <2>1, <2>2
<1>5. /\ code' \in Seq(CodeByte)
      /\ Len(code') = IF at + z > Len(code) THEN at + z ELSE Len(code)
      /\ \A b \in 1 .. z : code'[at + b] = bytes[b]
      /\ \A a \in 1 .. Len(code) : ~(at < a /\ a <= at + z) => code'[a] = code[a]
  <2>1. code' = Put(code, at, bytes) /\ code \in Seq(CodeByte)
    BY <1>1, <1>2
  <2> QED
    BY SMTT(30), <1>4, <2>1, PutKeeps
<1>6. Len(code') = at + z /\ Len(code) <= Len(code')
  BY <1>1, <1>5
<1>7. \A a \in 1 .. Len(code) : code'[a] = code[a]
  BY <1>1, <1>5
<1> QED
  BY <1>3, <1>4, <1>5, <1>6, <1>7

LEMMA InstructionPlaced ==
  ASSUME Types, Placed, NEW l \in Line, ReadInstruction(l), Tidy(l)
  PROVE  Types' /\ (phase' = "lines" => Placed')
<1>1. PICK at \in Nat : at = Aligned(pos)
  BY AlignedUp DEF Types
<1>2. CASE Fail
  BY <1>1, <1>2, RejectedKeepsTypes DEF ReadInstruction
<1>3. CASE ~Fail
  <2>1. /\ l.kind = "ins" /\ Read(l, at) /\ pos \in Nat /\ at >= pos /\ at % 4 = 0
        /\ SizeOf(l) = 4 /\ pos' = at + 4 /\ labels' = AlignLabels(at)
        /\ UNCHANGED <<origin, values, lastLabel, phase>>
    BY <1>1, <1>3, InstructionStep
  <2>2. PICK z \in Nat : z = 4 /\ z = SizeOf(l)
    BY <2>1
  <2>3. /\ code' \in Seq(CodeByte) /\ Len(code') = at + z /\ Len(code) <= Len(code')
        /\ \A b \in 1 .. z : code'[at + b] = Of(Len(program) + 1, b)
        /\ \A a \in 1 .. Len(code) : code'[a] = code[a]
    BY <1>1, <1>3, <2>2, InstructionBytes
  <2>4. /\ program' \in Seq(Line) /\ place' \in Seq(Nat) /\ Len(place') = Len(program')
    <3>1. PICK n \in Nat : n = Len(program)
      BY DEF Types
    <3> QED
      BY <2>1, <3>1, OneMore
  <2>5. /\ pos' \in Nat /\ pos' = at + z /\ Len(code') = pos' /\ pos <= pos'
        /\ Len(code) \in Nat /\ Len(code') \in Nat
    <3>1. Len(code) \in Nat
      BY DEF Types
    <3> QED
      BY <2>1, <2>2, <2>3, <3>1
  <2>6. labels' \in Seq(Entry) /\ \A m \in DOMAIN labels' : labels'[m].off <= pos'
    <3>1. labels \in Seq(Entry) /\ labels' = AlignLabels(at)
      BY <2>1 DEF Types
    <3>2. labels' \in Seq(Entry) /\ Len(labels') = Len(labels)
      BY <3>1, AlignLabelsKeeps
    <3>3. DOMAIN labels' = DOMAIN labels
      BY <3>1, <3>2
    <3>4. \A m \in DOMAIN labels : labels'[m].off = labels[m].off \/ labels'[m].off = at
      BY <3>1, AlignLabelsKeeps
    <3>5. \A m \in DOMAIN labels : labels[m].off \in Nat /\ labels[m].off <= pos
      BY Entries
    <3>6. \A m \in DOMAIN labels : labels'[m].off <= pos'
      BY <2>1, <2>5, <3>4, <3>5
    <3> QED
      BY <3>2, <3>3, <3>6
  <2>7. links' \in Seq(Entry) /\ \A m \in DOMAIN links' : links'[m].off + 2 <= Len(code')
    <3>1. links \in Seq(Entry) /\ Len(links) \in Nat /\ DOMAIN links = 1 .. Len(links)
      BY DEF Types
    <3>2. \A m \in DOMAIN links : links[m].off + 2 <= Len(code')
      BY <2>3, <2>5, Entries
    <3>3. CASE links' = links
      BY <3>1, <3>2, <3>3
    <3>4. CASE at = pos /\ links' = Append(links, LinkPoint(l))
      <4>1. l.field \in {1, 2} /\ l.ref \in Name
        BY <2>1, AssemblerAssumption DEF Name
      <4>2. LinkPoint(l) \in Entry /\ LinkPoint(l).off = pos + l.field
        <5>1. Resolved(l.ref) \in Part \X Part /\ pos + l.field \in Nat
          BY <2>1, <4>1, ResolvedParts DEF Types
        <5> QED
          BY <5>1 DEF LinkPoint, Entry
      <4>3. /\ links' \in Seq(Entry) /\ Len(links') = Len(links) + 1
            /\ \A m \in 1 .. Len(links) : links'[m] = links[m]
            /\ links'[Len(links) + 1] = LinkPoint(l)
        BY <3>1, <3>4, <4>2, AppendProperties
      <4>4. LinkPoint(l).off + 2 <= Len(code')
        BY SMTT(30), <2>1, <2>5, <3>4, <4>1, <4>2
      <4> QED
        BY <3>1, <3>2, <4>3, <4>4
    <3> QED
      BY <1>1, <1>3, <3>3, <3>4, InstructionStep
  <2>8. Types'
    BY <2>1, <2>3, <2>4, <2>5, <2>6, <2>7 DEF Types
  <2>9. origin' <= pos' /\ origin' <= at /\ origin' = origin
    <3>1. origin <= pos /\ origin \in Nat \cup {-1}
      BY DEF Types, Placed
    <3> QED
      BY <2>1, <2>5, <3>1
  <2>10. /\ at + SizeOf(l) <= pos' /\ at + SizeOf(l) <= Len(code') /\ Len(code') <= pos'
         /\ l.kind # "data"
         /\ \A b \in 1 .. SizeOf(l) : code'[at + b] = Of(Len(program) + 1, b)
    BY <2>1, <2>2, <2>3, <2>5
  <2>11. Placed'
    BY <2>1, <2>3, <2>5, <2>9, <2>10, PlacedGrows
  <2> QED
    BY <2>8, <2>11
<1> QED
  BY <1>2, <1>3

(* A line of a tidy program, whatever it is.                               *)
LEMMA LinePlaced ==
  ASSUME Types, Placed, NEW l \in Line, ReadLine(l), Tidy(l)
  PROVE  Types' /\ (phase' = "lines" => Placed')
<1>1. CASE ReadBad(l)
  BY <1>1, RejectedKeepsTypes DEF ReadBad, Types
<1> QED
  BY <1>1, LabelPlaced, DataPlaced, OrgPlaced, NamePlaced, InstructionPlaced DEF ReadLine

-----------------------------------------------------------------------------
(* A set of numbers with a bound that is not empty has its maximum.        *)
LEMMA MaxIsThere ==
  ASSUME NEW S, S \subseteq Nat, S # {}, NEW top \in Nat, \A d \in S : d <= top
  PROVE  Max(S) \in S /\ \A d \in S : d <= Max(S)
<1> DEFINE T == {top - d : d \in S}
<1>1. T \subseteq Nat /\ T # {}
  <2>1. \A d \in S : top - d \in Nat
    OBVIOUS
  <2>2. PICK d \in S : TRUE
    OBVIOUS
  <2> QED
    BY <2>1, <2>2
<1>2. PICK t \in T : \A u \in T : t <= u
  BY <1>1, LeastNat
<1>3. PICK x \in S : t = top - x
  OBVIOUS
<1>4. ASSUME NEW d \in S PROVE x >= d
  <2>1. top - d \in T
    OBVIOUS
  <2>2. t <= top - d /\ d \in Nat /\ x \in Nat
    BY <1>2, <2>1
  <2> QED
    BY <1>3, <2>2
<1>5. Max(S) \in S /\ \A d \in S : Max(S) >= d
  BY <1>4 DEF Max
<1> QED
  BY <1>5

LEMMA MaxIs ==
  ASSUME NEW S, S \subseteq Nat, NEW f \in S, \A d \in S : d <= f
  PROVE  Max(S) = f
<1>1. Max(S) \in S /\ \A d \in S : d <= Max(S)
  <2>1. f \in Nat /\ S # {}
    OBVIOUS
  <2> QED
    BY <2>1, MaxIsThere
<1>2. Max(S) <= f /\ f <= Max(S)
  BY <1>1
<1>3. Max(S) \in Nat /\ f \in Nat
  BY <1>1
<1> QED
  BY <1>2, <1>3

(* The function of a line is a line before it that declares a regular      *)
(* label, or 0.                                                            *)
LEMMA FunctionIsLast ==
  ASSUME LabelLines \subseteq Nat, NEW k \in Nat
  PROVE  /\ Function(k) \in {0} \cup RegularUpTo(k)
         /\ \A d \in RegularUpTo(k) : d <= Function(k)
<1> DEFINE S == {0} \cup RegularUpTo(k)
<1>1. S \subseteq Nat /\ S # {} /\ \A d \in S : d <= k
  <2>1. RegularUpTo(k) \subseteq Nat /\ \A d \in RegularUpTo(k) : d <= k
    BY DEF RegularUpTo
  <2> QED
    BY <2>1
<1>2. Max(S) \in S /\ \A d \in S : d <= Max(S)
  BY <1>1, MaxIsThere
<1> QED
  BY <1>2 DEF Function

LEMMA FunctionRange ==
  ASSUME NEW n \in Nat, LabelLines \subseteq 1 .. n, NEW k \in Nat
  PROVE  /\ Function(k) \in 0 .. n
         /\ Function(k) # 0 => /\ Function(k) \in LabelLines
                               /\ ~Local(program[Function(k)].name)
<1>1. LabelLines \subseteq Nat
  OBVIOUS
<1>2. Function(k) \in {0} \cup RegularUpTo(k)
  BY <1>1, FunctionIsLast
<1>3. ASSUME NEW f \in RegularUpTo(k)
      PROVE  f \in 1 .. n /\ f \in LabelLines /\ ~Local(program[f].name)
  BY DEF RegularUpTo
<1>4. CASE Function(k) = 0
  BY <1>4
<1>5. CASE Function(k) \in RegularUpTo(k)
  BY <1>3, <1>5
<1> QED
  BY <1>2, <1>4, <1>5

(* While lines are read, the lines that count are all of them.             *)
LEMMA AllLines ==
  ASSUME Types, phase # "failed"
  PROVE  Lines = 1 .. Len(program) /\ LabelLines \subseteq 1 .. Len(program)
         /\ \A k \in 1 .. Len(program) : program[k] \in Line /\ place[k] \in Nat
<1>1. program \in Seq(Line) /\ place \in Seq(Nat) /\ Len(place) = Len(program)
  BY DEF Types
<1> QED
  BY <1>1 DEF Lines, LabelLines

(* One line more: the labels, the functions and what follows them.         *)
LEMMA LabelsGrow ==
  ASSUME Types, NEW l \in Line, NEW at \in Nat, Read(l, at), phase' = "lines",
         NEW n \in Nat, n = Len(program)
  PROVE  /\ Lines = 1 .. n /\ Lines' = 1 .. n + 1
         /\ LabelLines \subseteq 1 .. n
         /\ LabelLines' = IF l.kind = "label" THEN LabelLines \cup {n + 1} ELSE LabelLines
         /\ \A d \in 1 .. n : Rank(d)' = Rank(d)
         /\ \A d \in 0 .. n : Function(d)' = Function(d)
         /\ l.kind = "label" => /\ Rank(n + 1)' = Cardinality(LabelLines) + 1
                                /\ Cardinality(LabelLines') = Cardinality(LabelLines) + 1
         /\ Function(n + 1)' = IF l.kind = "label" /\ ~Local(l.name) THEN n + 1
                               ELSE Function(n)
<1>1. /\ program' \in Seq(Line) /\ phase = "lines" /\ Len(program') = n + 1
      /\ DOMAIN program = 1 .. n /\ DOMAIN program' = 1 .. n + 1
      /\ \A k \in 1 .. n : program'[k] = program[k]
      /\ program'[n + 1] = l
  BY OneMore
<1>2. Lines = 1 .. n /\ Lines' = 1 .. n + 1 /\ LabelLines \subseteq 1 .. n
  BY <1>1 DEF Lines, LabelLines
<1>3. LabelLines' = IF l.kind = "label" THEN LabelLines \cup {n + 1} ELSE LabelLines
  BY <1>1, <1>2 DEF LabelLines
<1>14. \A k \in 1 .. n : k \in LabelLines' <=> k \in LabelLines
  BY <1>3
<1>15. LabelLines' \subseteq 1 .. n + 1
  BY <1>2 DEF LabelLines
<1>4. \A d \in 1 .. n : Rank(d)' = Rank(d)
  <2> SUFFICES ASSUME NEW d \in 1 .. n PROVE Rank(d)' = Rank(d)
    OBVIOUS
  <2>1. {k \in LabelLines : k <= d}' = {k \in LabelLines : k <= d}
    <3>1. \A k \in LabelLines : k \in 1 .. n
      BY <1>2
    <3>2. \A k \in LabelLines' : k <= d => k \in 1 .. n
      BY <1>15
    <3> QED
      BY <1>14, <3>1, <3>2
  <2> QED
    BY <2>1 DEF Rank
<1>5. \A d \in 0 .. n : RegularUpTo(d)' = RegularUpTo(d)
  <2> SUFFICES ASSUME NEW d \in 0 .. n PROVE RegularUpTo(d)' = RegularUpTo(d)
    OBVIOUS
  <2>1. \A k \in LabelLines : k \in 1 .. n
    BY <1>2
  <2>2. \A k \in LabelLines' : k <= d => k \in 1 .. n
    BY <1>15
  <2>3. \A k \in 1 .. n : program'[k].name = program[k].name
    BY <1>1
  <2> QED
    BY <1>14, <2>1, <2>2, <2>3 DEF RegularUpTo, Local
<1>6. \A d \in 0 .. n : Function(d)' = Function(d)
  BY <1>5, Zenon DEF Function
<1>7. ASSUME l.kind = "label"
      PROVE  /\ Rank(n + 1)' = Cardinality(LabelLines) + 1
             /\ Cardinality(LabelLines') = Cardinality(LabelLines) + 1
  <2>1. {k \in LabelLines : k <= n + 1}' = LabelLines'
    <3>1. \A k \in LabelLines' : k <= n + 1
      BY <1>15
    <3> QED
      BY <3>1
  <2>2. IsFiniteSet(LabelLines)
    <3>1. IsFiniteSet(1 .. n)
      BY FS_Interval
    <3> QED
      BY <1>2, <3>1, FS_Subset
  <2>3. n + 1 \notin LabelLines
    BY <1>2
  <2>4. Cardinality(LabelLines \cup {n + 1}) = Cardinality(LabelLines) + 1
    BY <2>2, <2>3, FS_AddElement
  <2> QED
    BY <1>3, <1>7, <2>1, <2>4 DEF Rank
<1>8. CASE l.kind = "label" /\ ~Local(l.name)
  <2>1. RegularUpTo(n + 1)' = RegularUpTo(n) \cup {n + 1}
    <3>1. \A k \in LabelLines : k \in 1 .. n /\ k <= n /\ k <= n + 1
      BY <1>2
    <3>2. LabelLines' = LabelLines \cup {n + 1} /\ n + 1 <= n + 1
      BY <1>3, <1>8
    <3>3. \A k \in 1 .. n : program'[k].name = program[k].name
      BY <1>1
    <3>4. program'[n + 1].name = l.name
      BY <1>1
    <3> QED
      BY <1>8, <3>1, <3>2, <3>3, <3>4 DEF RegularUpTo, Local
  <2>2. RegularUpTo(n) \subseteq 1 .. n
    BY <1>2 DEF RegularUpTo
  <2>3. Max({0} \cup (RegularUpTo(n) \cup {n + 1})) = n + 1
    <3> DEFINE S == {0} \cup (RegularUpTo(n) \cup {n + 1})
    <3>1. S \subseteq Nat /\ n + 1 \in S /\ \A d \in S : d <= n + 1
      BY <2>2
    <3> HIDE DEF S
    <3>2. Max(S) = n + 1
      BY <3>1, MaxIs
    <3> QED
      BY <3>2 DEF S
  <2>4. Function(n + 1)' = n + 1
    BY <2>1, <2>3, Zenon DEF Function
  <2> QED
    BY <1>2, <1>3, <1>4, <1>6, <1>7, <1>8, <2>4
<1>9. CASE ~(l.kind = "label" /\ ~Local(l.name))
  <2>1. RegularUpTo(n + 1)' = RegularUpTo(n)
    <3>1. \A k \in LabelLines : k \in 1 .. n /\ k <= n /\ k <= n + 1
      BY <1>2
    <3>3. \A k \in 1 .. n : program'[k].name = program[k].name
      BY <1>1
    <3>4. program'[n + 1].name = l.name
      BY <1>1
    <3>5. CASE l.kind = "label"
      <4>1. LabelLines' = LabelLines \cup {n + 1} /\ l.name[1] = ""
        BY <1>3, <1>9, <3>5 DEF Local
      <4> QED
        BY <3>1, <3>3, <3>4, <4>1 DEF RegularUpTo, Local
    <3>6. CASE l.kind # "label"
      <4>1. LabelLines' = LabelLines
        BY <1>3, <3>6
      <4> QED
        BY <3>1, <3>3, <4>1 DEF RegularUpTo, Local
    <3> QED
      BY <3>5, <3>6
  <2>2. Function(n + 1)' = Function(n)
    BY <2>1, Zenon DEF Function
  <2> QED
    BY <1>2, <1>3, <1>4, <1>6, <1>7, <1>9, <2>2
<1> QED
  BY <1>8, <1>9

(* What follows a line, when one more line is read.                        *)
LEMMA FollowingGrows ==
  ASSUME Types, NEW l \in Line, NEW at \in Nat, Read(l, at), phase' = "lines",
         NEW n \in Nat, n = Len(program), NEW d \in 1 .. n
  PROVE  /\ \A k \in Following(d)' : k = n + 1 \/ k \in Following(d)
         /\ n + 1 \in Following(d)' =>
              SizeOf(l) > 0 /\ \A j \in d + 1 .. n : SizeOf(program[j]) = 0
         /\ (\A j \in d + 1 .. n + 1 : SizeOf(program'[j]) = 0) =>
              SizeOf(l) = 0 /\ \A j \in d + 1 .. n : SizeOf(program[j]) = 0
<1>1. /\ phase = "lines" /\ \A k \in 1 .. n : program'[k] = program[k]
      /\ program'[n + 1] = l
  BY OneMore
<1>2. Lines = 1 .. n /\ Lines' = 1 .. n + 1
  BY LabelsGrow
<1>3. \A k \in 1 .. n : SizeOf(program'[k]) = SizeOf(program[k])
  BY <1>1
<1>4. ASSUME NEW k \in Following(d)', k # n + 1 PROVE k \in Following(d)
  <2>1. /\ k \in 1 .. n /\ d < k /\ SizeOf(program'[k]) > 0
        /\ \A j \in d + 1 .. k - 1 : SizeOf(program'[j]) = 0
    BY <1>2, <1>4 DEF Following
  <2>2. \A j \in d + 1 .. k - 1 : SizeOf(program[j]) = 0
    BY <1>3, <2>1
  <2> QED
    BY <1>2, <1>3, <2>1, <2>2 DEF Following
<1>5. ASSUME n + 1 \in Following(d)'
      PROVE  SizeOf(l) > 0 /\ \A j \in d + 1 .. n : SizeOf(program[j]) = 0
  <2>1. /\ SizeOf(program'[n + 1]) > 0
        /\ \A j \in d + 1 .. n + 1 - 1 : SizeOf(program'[j]) = 0
    BY <1>5 DEF Following
  <2> QED
    BY <1>1, <1>3, <2>1
<1>6. ASSUME \A j \in d + 1 .. n + 1 : SizeOf(program'[j]) = 0
      PROVE  SizeOf(l) = 0 /\ \A j \in d + 1 .. n : SizeOf(program[j]) = 0
  <2>1. SizeOf(program'[n + 1]) = 0
    BY <1>6
  <2>2. \A j \in d + 1 .. n : SizeOf(program'[j]) = 0
    BY <1>6
  <2> QED
    BY <1>1, <1>3, <2>1, <2>2
<1> QED
  BY <1>4, <1>5, <1>6

(* A name keeps its meaning when lines follow.                             *)
LEMMA NamesKept ==
  ASSUME Types, NEW l \in Line, NEW at \in Nat, Read(l, at), phase' = "lines",
         NEW n \in Nat, n = Len(program), NEW k \in 1 .. n, NEW name
  PROVE  NameAt(name, k)' = NameAt(name, k)
         \/ (Local(name) /\ Function(k) = 0)
<1>1. Function(k)' = Function(k) /\ LabelLines \subseteq 1 .. n
  BY LabelsGrow
<1>2. Function(k) \in 0 .. n
  BY <1>1, FunctionRange
<1>3. \A j \in 1 .. n : program'[j] = program[j]
  BY OneMore
<1>4. CASE Local(name) /\ Function(k) # 0
  <2>1. program'[Function(k)] = program[Function(k)]
    BY <1>2, <1>3, <1>4
  <2>2. NameAt(name, k)' = <<program'[Function(k)].name[1], name[2]>>
    BY <1>1, <1>4 DEF NameAt, Local
  <2>3. NameAt(name, k) = <<program[Function(k)].name[1], name[2]>>
    BY <1>4 DEF NameAt, Local
  <2> QED
    BY <2>1, <2>2, <2>3
<1>5. CASE ~Local(name)
  BY <1>5 DEF NameAt, Local
<1> QED
  BY <1>4, <1>5

(* A line that declares no label: the labels at the position go to where   *)
(* its bytes are put, the others stay.                                     *)
LEMMA LabelledKept ==
  ASSUME Types, Placed, Labelled, NEW l \in Line, NEW at \in Nat, Read(l, at),
         phase' = "lines", l.kind # "label", lastLabel' = lastLabel,
         DOMAIN labels' = DOMAIN labels, Len(labels') = Len(labels),
         \A m \in DOMAIN labels : labels'[m].name = labels[m].name,
         \A m \in DOMAIN labels :
           labels[m].off # pos => labels'[m].off = labels[m].off,
         \A m \in DOMAIN labels :
           labels[m].off = pos => labels'[m].off = at /\ (SizeOf(l) = 0 => pos' = at)
  PROVE  Labelled'
<1>1. PICK n \in Nat : n = Len(program)
  BY DEF Types
<1>2. /\ Len(program') = n + 1 /\ DOMAIN program = 1 .. n /\ place'[n + 1] = at
      /\ \A k \in 1 .. n : /\ program'[k] = program[k] /\ place'[k] = place[k]
                           /\ program[k] \in Line /\ place[k] \in Nat
  <2>1. OneMoreLine(l, at, n)
    BY <1>1, OneMorePlaced
  <2> QED
    BY <2>1 DEF OneMoreLine
<1>3. /\ Lines = 1 .. n /\ LabelLines \subseteq 1 .. n /\ LabelLines' = LabelLines
      /\ \A d \in 1 .. n : Rank(d)' = Rank(d)
      /\ \A d \in 0 .. n : Function(d)' = Function(d)
      /\ Function(n + 1)' = Function(n)
  BY <1>1, LabelsGrow
<1>4. Function(n) \in 0 .. n
  BY <1>3, FunctionRange
<1>5. lastLabel' = IF Function(Len(program))' = 0 THEN ""
                   ELSE (program[Function(Len(program))].name[1])'
  <2>1. Function(Len(program))' = Function(n)
    BY <1>2, <1>3
  <2>2. (program[Function(Len(program))])' = program'[Function(n)]
    BY <2>1
  <2>3. Function(n) # 0 => program'[Function(n)] = program[Function(n)]
    BY <1>2, <1>4
  <2> QED
    BY <1>1, <2>1, <2>2, <2>3 DEF Labelled
<1>6. ASSUME NEW d \in LabelLines
      PROVE  /\ Rank(d) \in DOMAIN labels
             /\ NameAt(program[d].name, d)' = NameAt(program[d].name, d)
             /\ labels[Rank(d)].name = NameAt(program[d].name, d)
             /\ Local(program[d].name) => Function(d) # 0
  <2>1. d \in 1 .. n /\ program'[d] = program[d]
    BY <1>2, <1>3
  <2>2. Local(program[d].name) => Function(d) # 0
    BY DEF Labelled
  <2>3. NameAt(program[d].name, d)' = NameAt(program[d].name, d)
    <3>1. PICK name : name = program[d].name /\ name = program'[d].name
      BY <2>1
    <3>2. NameAt(name, d)' = NameAt(name, d)
      BY <1>1, <2>1, <2>2, <3>1, NamesKept
    <3> QED
      BY <3>1, <3>2
  <2> QED
    BY <2>2, <2>3 DEF Labelled
<1>7. ASSUME NEW d \in LabelLines, NEW k \in Following(d)'
      PROVE  labels'[Rank(d)].off = place'[k]
  <2>1. d \in 1 .. n /\ Rank(d) \in DOMAIN labels
    BY <1>3, <1>6
  <2>2. CASE k = n + 1
    <3>1. \A j \in d + 1 .. n : SizeOf(program[j]) = 0
      BY <1>1, <2>1, <2>2, <1>7, FollowingGrows
    <3>2. labels[Rank(d)].off = pos
      BY <1>1, <3>1 DEF Labelled
    <3> QED
      BY <1>2, <2>1, <2>2, <3>2
  <2>3. CASE k # n + 1
    <3>1. k \in Following(d)
      BY <1>1, <2>1, <2>3, <1>7, FollowingGrows
    <3>2. labels[Rank(d)].off = place[k] /\ k \in 1 .. n /\ SizeOf(program[k]) > 0
      BY <1>3, <3>1 DEF Labelled, Following
    <3>3. place[k] + SizeOf(program[k]) <= pos
      BY <1>2, <3>2 DEF Placed
    <3>4. place[k] # pos
      <4>1. place[k] \in Nat /\ SizeOf(program[k]) \in Nat /\ pos \in Nat
        BY <1>2, <3>2, SizeIsNat DEF Types
      <4> QED
        BY <3>2, <3>3, <4>1
    <3> QED
      BY <1>2, <2>1, <3>2, <3>4
  <2> QED
    BY <2>2, <2>3
<1>8. ASSUME NEW d \in LabelLines, \A j \in d + 1 .. n + 1 : SizeOf(program'[j]) = 0
      PROVE  labels'[Rank(d)].off = pos'
  <2>1. d \in 1 .. n /\ Rank(d) \in DOMAIN labels
    BY <1>3, <1>6
  <2>2. SizeOf(l) = 0 /\ \A j \in d + 1 .. n : SizeOf(program[j]) = 0
    BY <1>1, <1>8, <2>1, FollowingGrows
  <2>3. labels[Rank(d)].off = pos
    BY <1>1, <2>2 DEF Labelled
  <2> QED
    BY <2>1, <2>2, <2>3
<1>9. ASSUME NEW d \in LabelLines'
      PROVE  /\ Rank(d)' \in DOMAIN labels'
             /\ labels'[Rank(d)'].name = NameAt(program[d].name, d)'
             /\ Local(program'[d].name) => Function(d)' # 0
             /\ \A k \in Following(d)' : labels'[Rank(d)'].off = place'[k]
             /\ (\A j \in d + 1 .. Len(program') : SizeOf(program'[j]) = 0)
                  => labels'[Rank(d)'].off = pos'
  <2>0. d \in LabelLines
    BY <1>3
  <2>10. LabelLines \subseteq 1 .. n
    BY <1>3
  <2>11. d \in 1 .. n
    BY <2>0, <2>10
  <2>1. d \in LabelLines /\ d \in 1 .. n /\ d \in 0 .. n /\ program'[d] = program[d]
    BY <1>2, <2>0, <2>11
  <2>2. Rank(d)' = Rank(d) /\ Function(d)' = Function(d) /\ Len(program') = n + 1
    BY <1>2, <1>3, <2>1
  <2>3. /\ Rank(d) \in DOMAIN labels'
        /\ labels'[Rank(d)].name = NameAt(program[d].name, d)'
        /\ Local(program[d].name) => Function(d) # 0
    BY <1>6, <2>1
  <2>4. \A k \in Following(d)' : labels'[Rank(d)].off = place'[k]
    BY <1>7, <2>1
  <2>5. (\A j \in d + 1 .. n + 1 : SizeOf(program'[j]) = 0) => labels'[Rank(d)].off = pos'
    BY <1>8, <2>1
  <2> QED
    BY <2>1, <2>2, <2>3, <2>4, <2>5, Zenon
<1>10. ASSUME NEW d \in LabelLines', NEW e \in LabelLines',
              NameAt(program[d].name, d)' = NameAt(program[e].name, e)'
       PROVE  d = e
  <2>1. d \in LabelLines /\ e \in LabelLines
    BY <1>3
  <2>2. NameAt(program[d].name, d) = NameAt(program[e].name, e)
    BY <1>6, <1>10, <2>1
  <2> QED
    BY <2>1, <2>2 DEF Labelled
<1>11. ASSUME NEW m \in DOMAIN labels' PROVE \E d \in LabelLines' : m = Rank(d)'
  <2>1. PICK d \in LabelLines : m = Rank(d)
    BY DEF Labelled
  <2>2. d \in LabelLines' /\ d \in 1 .. n /\ Rank(d)' = Rank(d)
    BY <1>3
  <2> QED
    BY <2>1, <2>2
<1>12. Len(labels') = Cardinality(LabelLines')
  BY <1>3 DEF Labelled
<1> QED
  BY <1>5, <1>9, <1>10, <1>11, <1>12 DEF Labelled

(* A line that declares a label (parse_label).                             *)
LEMMA LabelDeclared ==
  ASSUME Types, Placed, Labelled, NEW l \in Line, ReadLabel(l), Tidy(l), ~Fail
  PROVE  Labelled'
<1>1. PICK n \in Nat : n = Len(program)
  BY DEF Types
<1> DEFINE e == [name |-> Resolved(l.name), off |-> pos]
<1>2. /\ l.kind = "label" /\ Read(l, pos) /\ pos \in Nat /\ phase' = "lines"
      /\ labels' = Append(labels, e) /\ pos' = pos
      /\ lastLabel' = IF Local(l.name) THEN lastLabel ELSE l.name[1]
      /\ Local(l.name) => lastLabel # ""
      /\ \A m \in DOMAIN labels : labels[m].name # Resolved(l.name)
  BY DEF ReadLabel, Types, Tidy, Read, output
<1>3. /\ labels \in Seq(Entry) /\ Len(labels) \in Nat /\ DOMAIN labels = 1 .. Len(labels)
      /\ e \in Entry /\ l.name \in Name
  <2>1. l.name \in Name
    BY <1>2 DEF Name
  <2>2. Resolved(l.name) \in Part \X Part
    BY <2>1, ResolvedParts DEF Types
  <2>3. e \in Entry
    BY <1>2, <2>2 DEF Entry
  <2>4. labels \in Seq(Entry)
    BY DEF Types
  <2> HIDE DEF e
  <2> QED
    BY <2>1, <2>3, <2>4
<1>20. e.name = Resolved(l.name) /\ e.off = pos
  OBVIOUS
<1> HIDE DEF e
<1>4. /\ labels' \in Seq(Entry) /\ Len(labels') = Len(labels) + 1
      /\ \A m \in 1 .. Len(labels) : labels'[m] = labels[m]
      /\ labels'[Len(labels) + 1] = e /\ e.name = Resolved(l.name) /\ e.off = pos
  <2>1. labels' = Append(labels, e)
    BY <1>2
  <2>2. /\ labels' \in Seq(Entry) /\ Len(labels') = Len(labels) + 1
        /\ \A m \in 1 .. Len(labels) : labels'[m] = labels[m]
        /\ labels'[Len(labels) + 1] = e
    BY <1>3, <2>1, AppendProperties
  <2> QED
    BY <1>20, <2>2
<1>5. DOMAIN labels' = 1 .. Len(labels) + 1
  BY <1>3, <1>4
<1>6. /\ Len(program') = n + 1 /\ DOMAIN program = 1 .. n /\ program'[n + 1] = l
      /\ \A k \in 1 .. n : /\ program'[k] = program[k] /\ place'[k] = place[k]
                           /\ program[k] \in Line /\ place[k] \in Nat
  <2> HIDE DEF Types
  <2> QED
    BY <1>1, <1>2, OneMore
<1>7. /\ Lines = 1 .. n /\ Lines' = 1 .. n + 1 /\ LabelLines \subseteq 1 .. n
      /\ LabelLines' = LabelLines \cup {n + 1}
      /\ \A d \in 1 .. n : Rank(d)' = Rank(d)
      /\ \A d \in 0 .. n : Function(d)' = Function(d)
      /\ Rank(n + 1)' = Cardinality(LabelLines) + 1
      /\ Cardinality(LabelLines') = Cardinality(LabelLines) + 1
      /\ Function(n + 1)' = IF ~Local(l.name) THEN n + 1 ELSE Function(n)
  BY <1>1, <1>2, LabelsGrow
<1>8. /\ Function(n) \in 0 .. n /\ Len(labels) = Cardinality(LabelLines)
      /\ lastLabel = IF Function(n) = 0 THEN "" ELSE program[Function(n)].name[1]
  BY <1>1, <1>7, FunctionRange DEF Labelled
<1>9. \A k : Function(n) = k /\ k # 0 => program'[k] = program[k]
  BY <1>6, <1>8
(* The old labels. *)
<1>10. ASSUME NEW d \in LabelLines
       PROVE  /\ d \in 1 .. n /\ Rank(d)' = Rank(d) /\ Rank(d) \in DOMAIN labels
              /\ NameAt(program[d].name, d)' = NameAt(program[d].name, d)
              /\ labels[Rank(d)].name = NameAt(program[d].name, d)
              /\ Local(program'[d].name) => Function(d)' # 0
              /\ labels'[Rank(d)] = labels[Rank(d)]
  <2>1. d \in 1 .. n
    BY <1>7
  <2>2. d \in 0 .. n /\ program'[d] = program[d]
    BY <1>6, <2>1
  <2>3. Rank(d)' = Rank(d) /\ Function(d)' = Function(d)
    BY <1>7, <2>1, <2>2
  <2>4. /\ Rank(d) \in DOMAIN labels /\ labels[Rank(d)].name = NameAt(program[d].name, d)
        /\ Local(program[d].name) => Function(d) # 0
    BY DEF Labelled
  <2>5. NameAt(program[d].name, d)' = NameAt(program[d].name, d)
    <3>1. PICK name : name = program[d].name /\ name = program'[d].name
      BY <2>2
    <3>2. NameAt(name, d)' = NameAt(name, d)
      BY <1>1, <1>2, <2>1, <2>4, <3>1, NamesKept
    <3> QED
      BY <3>1, <3>2
  <2>6. labels'[Rank(d)] = labels[Rank(d)]
    BY <1>3, <1>4, <2>4
  <2> QED
    BY <2>1, <2>2, <2>3, <2>4, <2>5, <2>6
<1>11. ASSUME NEW d \in LabelLines, NEW k \in Following(d)'
       PROVE  labels'[Rank(d)].off = place'[k]
  <2>1. k \in Following(d)
    <3>1. SizeOf(l) = 0 /\ d \in 1 .. n
      BY <1>2, <1>10, SizeIsNat
    <3>2. k = n + 1 \/ k \in Following(d)
      BY <1>1, <1>2, <1>11, <3>1, FollowingGrows
    <3>3. n + 1 \in Following(d)' => SizeOf(l) > 0
      BY <1>1, <1>2, <3>1, FollowingGrows
    <3> QED
      BY <1>11, <3>1, <3>2, <3>3
  <2>2. labels[Rank(d)].off = place[k] /\ k \in 1 .. n
    BY <1>7, <2>1 DEF Labelled, Following
  <2> QED
    BY <1>6, <1>10, <2>2
<1>12. ASSUME NEW d \in LabelLines, \A j \in d + 1 .. n + 1 : SizeOf(program'[j]) = 0
       PROVE  labels'[Rank(d)].off = pos'
  <2>1. \A j \in d + 1 .. n : SizeOf(program[j]) = 0
    BY <1>1, <1>2, <1>10, <1>12, FollowingGrows
  <2>2. labels[Rank(d)].off = pos
    BY <1>1, <2>1 DEF Labelled
  <2> QED
    BY <1>2, <1>10, <2>2
(* The new one. *)
<1>13. NameAt(l.name, n + 1)' = Resolved(l.name)
  <2>1. CASE Local(l.name)
    <3>1. Function(n + 1)' = Function(n) /\ Function(n) # 0
      BY <1>2, <1>7, <1>8, <2>1
    <3>2. NameAt(l.name, n + 1)' = <<program'[Function(n)].name[1], l.name[2]>>
      BY <2>1, <3>1 DEF NameAt, Local
    <3>3. program'[Function(n)].name[1] = lastLabel
      BY <1>8, <1>9, <3>1
    <3> QED
      BY <2>1, <3>2, <3>3 DEF Resolved
  <2>2. CASE ~Local(l.name)
    BY <2>2 DEF NameAt, Resolved, Local
  <2> QED
    BY <2>1, <2>2
<1>14. /\ Rank(n + 1)' \in DOMAIN labels' /\ labels'[Rank(n + 1)'] = e
       /\ Local(l.name) => Function(n + 1)' # 0
       /\ Following(n + 1)' = {}
  <2>1. Rank(n + 1)' = Len(labels) + 1
    BY <1>7, <1>8
  <2>2. Local(l.name) => Function(n + 1)' # 0
    BY <1>2, <1>7, <1>8
  <2>3. Following(n + 1)' = {}
    BY <1>7 DEF Following
  <2> QED
    BY <1>3, <1>4, <1>5, <2>1, <2>2, <2>3
<1>15. ASSUME NEW d \in LabelLines'
       PROVE  /\ Rank(d)' \in DOMAIN labels'
              /\ labels'[Rank(d)'].name = NameAt(program[d].name, d)'
              /\ Local(program'[d].name) => Function(d)' # 0
              /\ \A k \in Following(d)' : labels'[Rank(d)'].off = place'[k]
              /\ (\A j \in d + 1 .. Len(program') : SizeOf(program'[j]) = 0)
                   => labels'[Rank(d)'].off = pos'
  <2>1. CASE d = n + 1
    <3>1. program'[d].name = l.name
      BY <1>6, <2>1
    <3>2. NameAt(program[d].name, d)' = Resolved(l.name)
      BY <1>13, <2>1, <3>1
    <3> QED
      BY <1>2, <1>4, <1>14, <2>1, <3>1, <3>2
  <2>2. CASE d # n + 1
    <3>1. d \in LabelLines
      BY <1>7, <2>2
    <3>2. Rank(d)' \in DOMAIN labels' /\ labels'[Rank(d)'].name = NameAt(program[d].name, d)'
          /\ (Local(program'[d].name) => Function(d)' # 0)
      BY <1>3, <1>5, <1>10, <3>1
    <3>3. \A k \in Following(d)' : labels'[Rank(d)'].off = place'[k]
      BY <1>10, <1>11, <3>1
    <3>4. (\A j \in d + 1 .. Len(program') : SizeOf(program'[j]) = 0)
            => labels'[Rank(d)'].off = pos'
      BY <1>6, <1>10, <1>12, <3>1
    <3> QED
      BY <3>2, <3>3, <3>4
  <2> QED
    BY <2>1, <2>2
<1>16. ASSUME NEW d \in LabelLines', NEW f \in LabelLines',
              NameAt(program[d].name, d)' = NameAt(program[f].name, f)'
       PROVE  d = f
  <2>1. NameAt(program[n + 1].name, n + 1)' = Resolved(l.name)
    BY <1>6, <1>13
  <2>2. \A g \in LabelLines : NameAt(program[g].name, g)' # Resolved(l.name)
    BY <1>2, <1>10
  <2>3. CASE d \in LabelLines /\ f \in LabelLines
    <3>1. NameAt(program[d].name, d) = NameAt(program[f].name, f)
      BY <1>10, <1>16, <2>3
    <3> QED
      BY <2>3, <3>1 DEF Labelled
  <2>4. CASE d = n + 1 \/ f = n + 1
    BY <1>7, <1>16, <2>1, <2>2, <2>4
  <2> QED
    BY <1>7, <2>3, <2>4
<1>17. ASSUME NEW m \in DOMAIN labels' PROVE \E d \in LabelLines' : m = Rank(d)'
  <2>1. CASE m = Len(labels) + 1
    BY <1>7, <1>8, <2>1
  <2>2. CASE m # Len(labels) + 1
    <3>1. m \in DOMAIN labels
      BY <1>3, <1>5, <2>2
    <3>2. PICK d \in LabelLines : m = Rank(d)
      BY <3>1 DEF Labelled
    <3> QED
      BY <1>7, <1>10, <3>2
  <2> QED
    BY <2>1, <2>2
<1>18. lastLabel' = IF Function(Len(program))' = 0 THEN ""
                    ELSE (program[Function(Len(program))].name[1])'
  <2>1. Function(Len(program))' = Function(n + 1)'
    BY <1>6
  <2>2. CASE Local(l.name)
    <3>1. Function(n + 1)' = Function(n) /\ lastLabel' = lastLabel
      BY <1>2, <1>7, <2>2
    <3>2. Function(n) # 0 => program'[Function(n)] = program[Function(n)]
      BY <1>9
    <3> QED
      BY <1>8, <2>1, <3>1, <3>2
  <2>3. CASE ~Local(l.name)
    <3>1. Function(n + 1)' = n + 1 /\ n + 1 # 0
      BY <1>7, <2>3
    <3>2. lastLabel' = l.name[1]
      BY <1>2, <2>3
    <3>3. program'[n + 1].name[1] = l.name[1]
      BY <1>6
    <3> QED
      BY <2>1, <3>1, <3>2, <3>3
  <2> QED
    BY <2>2, <2>3
<1>19. Len(labels') = Cardinality(LabelLines')
  BY <1>4, <1>7, <1>8
<1> QED
  BY <1>15, <1>16, <1>17, <1>18, <1>19 DEF Labelled

(* A line of a tidy program that is not rejected, whatever it is.          *)
LEMMA LineLabelled ==
  ASSUME Types, Placed, Labelled, NEW l \in Line, ReadLine(l), Tidy(l), phase' = "lines"
  PROVE  Labelled'
<1>1. CASE ReadLabel(l)
  <2>1. ~Fail
    BY DEF Fail
  <2> QED
    BY <1>1, <2>1, LabelDeclared
<1>2. CASE ReadData(l) \/ ReadValue(l) \/ ReadExport(l)
  <2>1. /\ l.kind # "label" /\ Read(l, pos) /\ lastLabel' = lastLabel /\ labels' = labels
        /\ SizeOf(l) = 0 => pos' = pos
    <3>1. CASE ReadData(l)
      <4>1. SizeOf(l) = l.size /\ pos \in Nat /\ pos' = pos + l.size
        BY <3>1, SizeIsNat DEF ReadData, Types
      <4> QED
        BY <3>1, <4>1 DEF ReadData, tables
    <3>2. CASE ReadValue(l)
      BY <3>2 DEF ReadValue
    <3>3. CASE ReadExport(l)
      BY <3>3 DEF ReadExport
    <3> QED
      BY <1>2, <3>1, <3>2, <3>3
  <2>2. pos \in Nat
    BY DEF Types
  <2> QED
    BY <2>1, <2>2, LabelledKept
<1>3. CASE ReadOrg(l)
  <2>1. /\ l.kind # "label" /\ Read(l, pos) /\ lastLabel' = lastLabel /\ labels' = labels
        /\ \A m \in DOMAIN labels : labels[m].off < pos
    BY <1>3 DEF ReadOrg, Tidy
  <2>2. pos \in Nat
    BY DEF Types
  <2>3. \A m \in DOMAIN labels : labels[m].off # pos
    BY <2>1, <2>2, Entries
  <2> QED
    BY <2>1, <2>2, <2>3, LabelledKept
<1>4. CASE ReadInstruction(l)
  <2>1. PICK at \in Nat : at = Aligned(pos)
    BY AlignedUp DEF Types
  <2>2. ~Fail
    BY DEF Fail
  <2>3. /\ Read(l, at) /\ l.kind = "ins" /\ SizeOf(l) = 4 /\ labels' = AlignLabels(at)
        /\ lastLabel' = lastLabel
        /\ at = pos \/ Cardinality({k \in DOMAIN labels : labels[k].off = pos}) <= 1
    BY <1>4, <2>1, <2>2, InstructionStep
  <2>4. labels \in Seq(Entry)
    BY DEF Types
  <2>5. /\ labels' \in Seq(Entry) /\ Len(labels') = Len(labels)
        /\ \A m \in DOMAIN labels : labels'[m].name = labels[m].name
        /\ \A m \in DOMAIN labels : labels[m].off # pos => labels'[m].off = labels[m].off
    BY <2>3, <2>4, AlignLabelsKeeps
  <2>6. \A m \in DOMAIN labels : labels[m].off = pos => labels'[m].off = at
    BY <2>3, <2>4, AlignLabelsMoves
  <2>7. DOMAIN labels' = DOMAIN labels
    BY <2>4, <2>5
  <2> QED
    BY <2>3, <2>5, <2>6, <2>7, LabelledKept
<1>5. ~ReadBad(l)
  BY DEF ReadBad, Fail
<1> QED
  BY <1>1, <1>2, <1>3, <1>4, <1>5 DEF ReadLine

-----------------------------------------------------------------------------
(* The link points: one more line is read, and a point is added when the   *)
(* line is an instruction that refers to a label.                          *)
AddsPoint(l) == l.kind = "ins" /\ Links(l)
PointAdded(l) ==
  IF AddsPoint(l) THEN links' = Append(links, LinkPoint(l)) ELSE links' = links
ValueAdded(l) ==
  values' = IF l.kind = "value" THEN values \cup {l.name} ELSE values
PointThere(l, at) ==
  AddsPoint(l) => at = pos /\ (Local(l.ref) => lastLabel # "")

LEMMA LinkingKept ==
  ASSUME Types, Placed, Labelled, Linking, NEW l \in Line, NEW at \in Nat, Read(l, at),
         phase' = "lines",
         ValueAdded(l), PointAdded(l), PointThere(l, at)
  PROVE  Linking'
<1>1. PICK n \in Nat : n = Len(program)
  BY DEF Types
<1>2. /\ Len(program') = n + 1 /\ DOMAIN program = 1 .. n /\ DOMAIN program' = 1 .. n + 1
      /\ program'[n + 1] = l /\ place'[n + 1] = at
      /\ \A k \in 1 .. n : /\ program'[k] = program[k] /\ place'[k] = place[k]
                           /\ program[k] \in Line /\ place[k] \in Nat
  <2> HIDE DEF Types
  <2> QED
    BY <1>1, OneMore
<1>3. values' = {program'[j].name : j \in {i \in DOMAIN program' : program'[i].kind = "value"}}
  <2>1. values = {program[j].name : j \in {i \in DOMAIN program : program[i].kind = "value"}}
    BY DEF Linking
  <2>2. \A v : v \in values <=> \E j \in 1 .. n : program[j].kind = "value" /\ v = program[j].name
    BY <1>2, <2>1
  <2>3. \A v : v \in values' <=>
          v \in values \/ (l.kind = "value" /\ v = l.name)
    BY DEF ValueAdded
  <2>4. \A v : v \in values' <=>
          \E j \in 1 .. n + 1 : program'[j].kind = "value" /\ v = program'[j].name
    <3>1. \A j \in 1 .. n + 1 : j = n + 1 \/ j \in 1 .. n
      OBVIOUS
    <3>2. \A j \in 1 .. n : j \in 1 .. n + 1 /\ program'[j] = program[j]
      BY <1>2
    <3>3. n + 1 \in 1 .. n + 1
      OBVIOUS
    <3> QED
      BY <1>2, <2>2, <2>3, <3>1, <3>2, <3>3
  <2> QED
    BY <1>2, <2>4
<1>4. /\ links \in Seq(Entry) /\ Len(links) \in Nat /\ DOMAIN links = 1 .. Len(links)
      /\ pos \in Nat /\ Len(code) \in Nat /\ Len(code) <= pos
  <2>1. links \in Seq(Entry) /\ code \in Seq(CodeByte) /\ pos \in Nat /\ Len(code) <= pos
    BY DEF Types, Placed
  <2> HIDE DEF Types
  <2> QED
    BY <2>1
<1>5. \A m \in DOMAIN links : links[m].off \in Nat /\ links[m].off + 2 <= Len(code)
  BY Entries
<1>6. \A m, p \in DOMAIN links : m < p => links[m].off + 2 <= links[p].off
  BY DEF Linking
(* The points that were there stay where they were. *)
<1>7. /\ DOMAIN links' \in {1 .. Len(links), 1 .. Len(links) + 1}
      /\ \A m \in DOMAIN links : m \in DOMAIN links' /\ links'[m] = links[m]
      /\ \A m \in DOMAIN links' : m \notin DOMAIN links =>
           /\ m = Len(links) + 1 /\ links'[m] = LinkPoint(l)
           /\ AddsPoint(l)
      /\ AddsPoint(l) =>
           Len(links) + 1 \in DOMAIN links' /\ links'[Len(links) + 1] = LinkPoint(l)
  <2>1. CASE AddsPoint(l)
    <3>1. links' = Append(links, LinkPoint(l))
      BY <2>1 DEF PointAdded
    <3>2. PICK e : e = LinkPoint(l) /\ links' = Append(links, e)
      BY <3>1
    <3>3. /\ DOMAIN links' = 1 .. Len(links) + 1 /\ links'[Len(links) + 1] = e
          /\ \A m \in 1 .. Len(links) : links'[m] = links[m]
      <4>1. l.kind = "ins" /\ l.field \in {1, 2} /\ l.ref \in Name
        BY <2>1, AssemblerAssumption DEF AddsPoint, Name
      <4>2. Resolved(l.ref) \in Part \X Part
        BY <4>1, ResolvedParts DEF Types
      <4>3. pos + l.field \in Nat
        BY <1>4, <4>1
      <4>4. e \in Entry
        BY <3>2, <4>2, <4>3 DEF LinkPoint, Entry
      <4> QED
        BY <1>4, <3>2, <4>4, AppendProperties
    <3> QED
      BY <1>4, <2>1, <3>2, <3>3
  <2>2. CASE ~AddsPoint(l)
    <3>1. links' = links
      BY <2>2 DEF PointAdded
    <3> QED
      BY <1>4, <2>2, <3>1
  <2> QED
    BY <2>1, <2>2
<1>8. AddsPoint(l) => LinkPoint(l).off \in Nat /\ LinkPoint(l).off >= pos
  <2>1. AddsPoint(l) => l.field \in {1, 2}
    BY AssemblerAssumption DEF AddsPoint
  <2>2. LinkPoint(l).off = pos + l.field
    BY DEF LinkPoint
  <2> QED
    BY <1>4, <2>1, <2>2
<1>9. ASSUME NEW m \in DOMAIN links', NEW p \in DOMAIN links', m < p
      PROVE  links'[m].off + 2 <= links'[p].off
  <2>1. m \in DOMAIN links
    BY <1>4, <1>7, <1>9
  <2>2. CASE p \in DOMAIN links
    BY <1>6, <1>7, <1>9, <2>1, <2>2
  <2>3. CASE p \notin DOMAIN links
    <3>1. links'[p].off \in Nat /\ links'[p].off >= pos
      BY <1>7, <1>8, <2>3
    <3>2. links'[m].off \in Nat /\ links'[m].off + 2 <= Len(code)
      BY <1>5, <1>7, <2>1
    <3> QED
      BY <1>4, <3>1, <3>2
  <2> QED
    BY <2>2, <2>3
<1>10. ASSUME NEW k \in 1 .. n + 1, Refers(k)'
       PROVE  /\ \E m \in DOMAIN links' : links'[m] = Point(k)'
              /\ Local(program'[k].ref) => Function(k)' # 0
  <2>1. CASE k = n + 1
    <3>1. program'[k].kind = "ins" /\ program'[k].ref # NoRef /\ ~IsValue(k)'
      BY <1>10 DEF Refers
    <3>2. l.kind = "ins" /\ l.ref # NoRef
      BY <1>2, <2>1, <3>1
    <3>3. l.ref \notin values
      <4>1. ~\E j \in 1 .. n : program[j].kind = "value" /\ program[j].name = l.ref
        BY <1>2, <2>1, <3>1 DEF IsValue
      <4>2. values = {program[j].name : j \in {i \in 1 .. n : program[i].kind = "value"}}
        BY <1>2 DEF Linking
      <4> QED
        BY <4>1, <4>2
    <3>4. AddsPoint(l)
      BY <3>2, <3>3 DEF Links, AddsPoint
    <3>5. Function(k)' = Function(n) /\ LabelLines \subseteq 1 .. n
      BY <1>1, <2>1, <3>2, LabelsGrow
    <3>6. Function(n) \in 0 .. n
      BY <3>5, FunctionRange
    <3>7. lastLabel = IF Function(n) = 0 THEN "" ELSE program[Function(n)].name[1]
      BY <1>1 DEF Labelled
    <3>8. NameAt(l.ref, k)' = Resolved(l.ref) /\ (Local(l.ref) => Function(k)' # 0)
      <4>1. CASE Local(l.ref)
        <5>1. Function(n) # 0
          BY <3>2, <3>4, <3>7, <4>1 DEF PointThere
        <5>2. program'[Function(n)] = program[Function(n)]
          BY <1>2, <3>6, <5>1
        <5>3. NameAt(l.ref, k)' = <<program'[Function(n)].name[1], l.ref[2]>>
          BY <3>5, <4>1 DEF NameAt, Local
        <5> QED
          BY <3>5, <3>7, <4>1, <5>1, <5>2, <5>3 DEF Resolved
      <4>2. CASE ~Local(l.ref)
        BY <4>2 DEF NameAt, Resolved, Local
      <4> QED
        BY <4>1, <4>2
    <3>9. Point(k)' = [name |-> NameAt(l.ref, k)', off |-> at + l.field]
      <4>1. program'[k].ref = l.ref /\ program'[k].field = l.field /\ place'[k] = at
        BY <1>2, <2>1
      <4> QED
        BY <4>1 DEF Point
    <3>10. Point(k)' = LinkPoint(l)
      BY <3>2, <3>4, <3>8, <3>9 DEF LinkPoint, PointThere
    <3> QED
      BY <1>2, <1>7, <2>1, <3>2, <3>4, <3>8, <3>10
  <2>2. CASE k # n + 1
    <3>1. k \in 1 .. n /\ program'[k] = program[k] /\ place'[k] = place[k]
      BY <1>2, <2>2
    <3>2. IsValue(k)' = IsValue(k)
      <4>1. \A j \in 1 .. k - 1 : program'[j] = program[j]
        BY <1>2, <3>1
      <4> QED
        BY <3>1, <4>1 DEF IsValue
    <3>3. Refers(k)
      BY <1>10, <3>1, <3>2 DEF Refers
    <3>4. PICK m \in DOMAIN links : links[m] = Point(k)
      BY <1>2, <3>1, <3>3 DEF Linking
    <3>5. Local(program[k].ref) => Function(k) # 0
      BY <1>2, <3>1, <3>3 DEF Linking
    <3>6. Function(k)' = Function(k)
      BY <1>1, <3>1, LabelsGrow
    <3>7. NameAt(program[k].ref, k)' = NameAt(program[k].ref, k)
      <4>1. PICK name : name = program[k].ref /\ name = program'[k].ref
        BY <3>1
      <4>2. NameAt(name, k)' = NameAt(name, k)
        BY <1>1, <3>1, <3>5, <4>1, NamesKept
      <4> QED
        BY <4>1, <4>2
    <3>8. Point(k)' = Point(k)
      BY <3>1, <3>7 DEF Point
    <3> QED
      BY <1>7, <3>1, <3>4, <3>5, <3>6, <3>8
  <2> QED
    BY <2>1, <2>2
<1> QED
  BY <1>2, <1>3, <1>9, <1>10 DEF Linking

LEMMA LineLinked ==
  ASSUME Types, Placed, Labelled, Linking, NEW l \in Line, ReadLine(l), Tidy(l),
         phase' = "lines"
  PROVE  Linking'
<1>1. CASE ReadLabel(l) \/ ReadData(l) \/ ReadOrg(l) \/ ReadValue(l) \/ ReadExport(l)
  <2>1. /\ Read(l, pos) /\ l.kind # "ins" /\ links' = links
        /\ l.kind = "value" => values' = values \cup {l.name}
        /\ l.kind # "value" => values' = values
    <3>1. ~Fail
      BY DEF Fail
    <3>2. CASE ReadLabel(l)
      BY <3>1, <3>2 DEF ReadLabel
    <3>3. CASE ReadData(l)
      BY <3>3 DEF ReadData, tables
    <3>4. CASE ReadOrg(l)
      BY <3>4 DEF ReadOrg
    <3>5. CASE ReadValue(l)
      BY <3>5 DEF ReadValue
    <3>6. CASE ReadExport(l)
      BY <3>6 DEF ReadExport
    <3> QED
      BY <1>1, <3>2, <3>3, <3>4, <3>5, <3>6
  <2>2. ~AddsPoint(l) /\ PointAdded(l) /\ ValueAdded(l) /\ PointThere(l, pos)
    BY <2>1 DEF AddsPoint, PointAdded, ValueAdded, PointThere
  <2>3. pos \in Nat
    BY DEF Types
  <2> QED
    BY <2>1, <2>2, <2>3, LinkingKept
<1>2. CASE ReadInstruction(l)
  <2>1. PICK at \in Nat : at = Aligned(pos)
    BY AlignedUp DEF Types
  <2>2. ~Fail
    BY DEF Fail
  <2>3. /\ Read(l, at) /\ l.kind = "ins" /\ values' = values
        /\ \/ ~Links(l) /\ links' = links
           \/ /\ Links(l) /\ at = pos /\ (Local(l.ref) => lastLabel # "")
              /\ links' = Append(links, LinkPoint(l))
    BY <1>2, <2>1, <2>2, InstructionStep
  <2>4. PointAdded(l) /\ ValueAdded(l) /\ PointThere(l, at)
    BY <2>3 DEF AddsPoint, PointAdded, ValueAdded, PointThere
  <2> QED
    BY <2>3, <2>4, LinkingKept
<1>3. ~ReadBad(l)
  BY DEF ReadBad, Fail
<1> QED
  BY <1>1, <1>2, <1>3 DEF ReadLine

-----------------------------------------------------------------------------
(* Labels lead to what follows them: while the labels and the lines agree, *)
(* and when the assembler gives up, which forgets the last line.           *)
LEMMA LabelledLeads ==
  ASSUME Labelled
  PROVE  LabelsLead
BY DEF Labelled, LabelsLead, LabelOf

LEMMA FailedLeads ==
  ASSUME Types, Labelled, phase = "lines", phase' = "failed", labels' = labels,
         NEW n \in Nat, n = Len(program),
         program' \in Seq(Line), Len(program') \in {n, n + 1},
         \A k \in 1 .. n : program'[k] = program[k] /\ place'[k] = place[k]
  PROVE  LabelsLead'
<1>1. Lines = 1 .. n /\ LabelLines \subseteq 1 .. n
  BY AllLines
<1>2. PICK top \in 0 .. n : Lines' = 1 .. top
  <2>1. PICK len \in {n, n + 1} : len = Len(program') /\ DOMAIN program' = 1 .. len
    OBVIOUS
  <2>2. Lines' = {k \in 1 .. len : k < len}
    BY <2>1 DEF Lines
  <2>3. Lines' = 1 .. len - 1
    BY <2>1, <2>2
  <2>4. CASE len = 0
    BY <2>3, <2>4
  <2>5. CASE len # 0
    <3>1. len - 1 \in 0 .. n
      BY <2>1, <2>5
    <3> QED
      BY <2>3, <3>1
  <2> QED
    BY <2>4, <2>5
<1>3. \A k \in 1 .. top : k \in 1 .. n /\ program'[k] = program[k] /\ place'[k] = place[k]
  OBVIOUS
<1>4. \A k : k \in LabelLines' <=> k \in LabelLines /\ k \in 1 .. top
  BY <1>1, <1>2, <1>3 DEF LabelLines
<1>5. ASSUME NEW d \in LabelLines', NEW k \in Following(d)'
      PROVE  d \in LabelLines /\ Rank(d)' = Rank(d) /\ k \in Following(d) /\ k \in 1 .. n
  <2>1. d \in LabelLines /\ d \in 1 .. top
    BY <1>4
  <2>2. \A j \in LabelLines : j <= d => j \in 1 .. top
    BY <1>1, <2>1
  <2>3. {j \in LabelLines : j <= d}' = {j \in LabelLines : j <= d}
    BY <1>4, <2>2
  <2>4. Rank(d)' = Rank(d)
    BY <2>3 DEF Rank
  <2>5. /\ k \in 1 .. top /\ d < k /\ SizeOf(program'[k]) > 0
        /\ \A j \in d + 1 .. k - 1 : SizeOf(program'[j]) = 0
    BY <1>2 DEF Following
  <2>6. \A j \in d + 1 .. k - 1 : j \in 1 .. top
    BY <2>1, <2>5
  <2>7. \A j \in d + 1 .. k - 1 : SizeOf(program[j]) = 0
    BY <1>3, <2>5, <2>6
  <2>8. k \in Following(d)
    BY <1>1, <1>3, <2>5, <2>7 DEF Following
  <2> QED
    BY <1>3, <2>1, <2>4, <2>5, <2>8
<1>6. ASSUME NEW d \in LabelLines', NEW k \in Following(d)'
      PROVE  labels'[Rank(d)'].off = place'[k]
  <2>1. labels[Rank(d)].off = place[k]
    BY <1>5, <1>6 DEF Labelled
  <2> QED
    BY <1>5, <1>6, <2>1
<1> QED
  BY <1>6 DEF LabelsLead, LabelOf

-----------------------------------------------------------------------------
(* The loop over the link points (link).  There is one sequence of its     *)
(* buffers: by the least number of points for which there is none.         *)
Buffer == {s \in Seq(CodeByte) : Len(s) = Len(code)}
Buffers(n) == {f \in [0 .. n -> Buffer] :
                 f = [k \in 0 .. n |-> IF k = 0 THEN code ELSE Link(f[k - 1], links[k])]}

(* The address that is put at link point m.                                *)
To(m) == labels[CHOOSE k \in Declared(links[m].name) : TRUE].off

AllDeclared == \A m \in DOMAIN links : Declared(links[m].name) # {}

(* One point: its two bytes change (link).                                 *)
LEMMA OneLink ==
  ASSUME Types, AllDeclared, NEW m \in DOMAIN links,
         NEW buffer \in Seq(CodeByte), Len(buffer) = Len(code)
  PROVE  /\ Link(buffer, links[m]) \in Seq(CodeByte)
         /\ Len(Link(buffer, links[m])) = Len(code)
         /\ Link(buffer, links[m])[links[m].off + 1] = Low(To(m))
         /\ Link(buffer, links[m])[links[m].off + 2] = High(To(m))
         /\ \A a \in 1 .. Len(code) : a \notin {links[m].off + 1, links[m].off + 2}
              => Link(buffer, links[m])[a] = buffer[a]
<1>1. PICK off \in Nat : off = links[m].off /\ off + 2 <= Len(code)
  BY Entries
<1>2. To(m) \in Nat
  <2>1. (CHOOSE k \in Declared(links[m].name) : TRUE) \in DOMAIN labels
    <3>1. Declared(links[m].name) # {}
      BY DEF AllDeclared
    <3>2. Declared(links[m].name) \subseteq DOMAIN labels
      BY DEF Declared
    <3> QED
      BY <3>1, <3>2
  <2> QED
    BY <2>1, Entries DEF To
<1>3. PICK bytes : bytes = <<Low(To(m)), High(To(m))>>
  OBVIOUS
<1>4. bytes \in Seq(CodeByte) /\ Len(bytes) = 2
      /\ bytes[1] = Low(To(m)) /\ bytes[2] = High(To(m))
  <2>1. Low(To(m)) \in CodeByte /\ High(To(m)) \in CodeByte
    BY <1>2, CodeBytes
  <2> QED
    BY <1>3, <2>1
<1>5. Link(buffer, links[m]) = Put(buffer, off, bytes)
  BY <1>1, <1>3 DEF Link, To
<1>6. Len(code) \in Nat
  BY DEF Types
<1> DEFINE put == Put(buffer, off, bytes)
<1>7. /\ put \in Seq(CodeByte)
      /\ Len(put) = IF off + Len(bytes) > Len(buffer) THEN off + Len(bytes) ELSE Len(buffer)
      /\ \A b \in 1 .. Len(bytes) : put[off + b] = bytes[b]
      /\ \A a \in 1 .. Len(buffer) : ~(off < a /\ a <= off + Len(bytes)) => put[a] = buffer[a]
  BY <1>4, PutKeeps
<1> HIDE DEF put
<1>8. put \in Seq(CodeByte) /\ Len(put) = Len(code)
  BY <1>1, <1>4, <1>6, <1>7
<1>9. put[off + 1] = bytes[1] /\ put[off + 2] = bytes[2]
  <2>1. PICK two \in Nat : two = 2 /\ Len(bytes) = two
    BY <1>4
  <2>2. 1 \in 1 .. two /\ 2 \in 1 .. two
    BY <2>1
  <2> QED
    BY <1>7, <2>1, <2>2
<1>10. ASSUME NEW a \in 1 .. Len(code), a \notin {off + 1, off + 2} PROVE put[a] = buffer[a]
  <2>1. ~(off < a /\ a <= off + Len(bytes))
    BY <1>1, <1>4, <1>6, <1>10
  <2> QED
    BY <1>7, <2>1
<1> USE DEF put
<1> QED
  BY <1>1, <1>4, <1>5, <1>8, <1>9, <1>10

LEMMA BuffersExist ==
  ASSUME Types, AllDeclared
  PROVE  Buffers(Len(links)) # {}
<1> DEFINE T == {n \in Nat : n <= Len(links) /\ Buffers(n) = {}}
<1>1. /\ links \in Seq(Entry) /\ Len(links) \in Nat /\ DOMAIN links = 1 .. Len(links)
      /\ code \in Seq(CodeByte)
  BY DEF Types
<1>2. SUFFICES ASSUME T # {} PROVE FALSE
  BY <1>1
<1>3. PICK n \in T : \A j \in T : n <= j
  BY <1>2, LeastNat
<1>4. n \in Nat /\ n <= Len(links) /\ Buffers(n) = {}
  OBVIOUS
<1>5. CASE n = 0
  <2>1. PICK f : f = [k \in 0 .. n |-> code]
    OBVIOUS
  <2>2. f \in [0 .. n -> Buffer]
    BY <1>1, <2>1 DEF Buffer
  <2>3. f = [k \in 0 .. n |-> IF k = 0 THEN code ELSE Link(f[k - 1], links[k])]
    BY <1>5, <2>1
  <2> QED
    BY <1>4, <2>2, <2>3 DEF Buffers
<1>6. CASE n # 0
  <2>1. n - 1 \in Nat /\ n - 1 < n /\ n - 1 <= Len(links)
    BY <1>1, <1>4, <1>6
  <2>2. Buffers(n - 1) # {}
    BY SMTT(30), <1>3, <2>1
  <2>3. PICK f \in [0 .. n - 1 -> Buffer] :
          f = [k \in 0 .. n - 1 |-> IF k = 0 THEN code ELSE Link(f[k - 1], links[k])]
    BY <2>2 DEF Buffers
  <2>4. PICK g : g = [k \in 0 .. n |-> IF k = n THEN Link(f[n - 1], links[n]) ELSE f[k]]
    OBVIOUS
  <2>5. n - 1 \in 0 .. n - 1 /\ n \in DOMAIN links /\ n \in 0 .. n
    BY <1>1, <1>4, <1>6, <2>1
  <2>6. ASSUME NEW k \in 0 .. n, k # n
        PROVE  k \in 0 .. n - 1 /\ g[k] = f[k]
    BY <1>4, <2>4, <2>6
  <2>7. g[n] = Link(f[n - 1], links[n]) /\ g[n - 1] = f[n - 1]
    BY <1>4, <2>1, <2>4, <2>5, <2>6
  <2>8. \A k \in 0 .. n - 1 : f[k] = IF k = 0 THEN code ELSE Link(f[k - 1], links[k])
    BY <2>3
  <2>9. ASSUME NEW k \in 0 .. n
        PROVE  g[k] = IF k = 0 THEN code ELSE Link(g[k - 1], links[k])
    <3>1. CASE k = n
      BY <1>6, <2>7, <3>1
    <3>2. CASE k # n
      <4>1. k \in 0 .. n - 1 /\ g[k] = f[k]
        BY <2>6, <3>2
      <4>2. f[k] = IF k = 0 THEN code ELSE Link(f[k - 1], links[k])
        BY <2>8, <4>1
      <4>3. k # 0 => g[k - 1] = f[k - 1]
        <5>1. k # 0 => k - 1 \in 0 .. n /\ k - 1 # n
          BY <1>4, <3>2
        <5> QED
          BY <2>6, <5>1
      <4> QED
        BY <4>1, <4>2, <4>3
    <3> QED
      BY <3>1, <3>2
  <2>10. DOMAIN g = 0 .. n /\ g = [k \in 0 .. n |-> g[k]]
    BY <2>4
  <2>11. g = [k \in 0 .. n |-> IF k = 0 THEN code ELSE Link(g[k - 1], links[k])]
    BY <2>9, <2>10
  <2>12. Link(f[n - 1], links[n]) \in Buffer
    <3>1. f[n - 1] \in Buffer
      BY <2>5
    <3>2. f[n - 1] \in Seq(CodeByte) /\ Len(f[n - 1]) = Len(code)
      BY <3>1 DEF Buffer
    <3> QED
      BY <2>5, <3>2, OneLink DEF Buffer
  <2>13. \A k \in 0 .. n : g[k] \in Buffer
    BY <2>3, <2>6, <2>7, <2>12
  <2>14. g \in [0 .. n -> Buffer]
    BY <2>10, <2>13
  <2> QED
    BY <1>4, <2>11, <2>14 DEF Buffers
<1> QED
  BY <1>5, <1>6

(* All points: each has its address, and no other byte changes.            *)
LEMMA LinkedIs ==
  ASSUME Types, Linking, AllDeclared
  PROVE  /\ Linked \in Seq(CodeByte) /\ Len(Linked) = Len(code)
         /\ \A m \in DOMAIN links : /\ Linked[links[m].off + 1] = Low(To(m))
                                   /\ Linked[links[m].off + 2] = High(To(m))
<1> DEFINE Step(f) == [k \in 0 .. Len(links) |->
                         IF k = 0 THEN code ELSE Link(f[k - 1], links[k])]
<1>1. /\ links \in Seq(Entry) /\ Len(links) \in Nat /\ DOMAIN links = 1 .. Len(links)
      /\ code \in Seq(CodeByte) /\ Len(code) \in Nat
  BY DEF Types
<1>2. PICK g \in [0 .. Len(links) -> Buffer] : g = Step(g)
  BY BuffersExist DEF Buffers
<1>3. \E after : after = Step(after) /\ Linked = after[Len(links)]
  <2>1. Linked = (CHOOSE after : after = Step(after))[Len(links)]
    BY DEF Linked
  <2> HIDE DEF Step
  <2> QED
    BY <1>2, <2>1
<1>4. PICK after : after = Step(after) /\ Linked = after[Len(links)]
  BY <1>3
<1>5. after[0] = code
      /\ \A k \in 1 .. Len(links) : after[k] = Link(after[k - 1], links[k])
  <2>1. \A k \in 0 .. Len(links) :
          after[k] = IF k = 0 THEN code ELSE Link(after[k - 1], links[k])
    BY <1>4
  <2> QED
    BY <1>1, <2>1
<1> HIDE DEF Step
<1> DEFINE Done(k) == /\ after[k] \in Seq(CodeByte) /\ Len(after[k]) = Len(code)
                      /\ \A m \in 1 .. k : /\ after[k][links[m].off + 1] = Low(To(m))
                                           /\ after[k][links[m].off + 2] = High(To(m))
           T == {k \in Nat : k <= Len(links) /\ ~Done(k)}
<1>6. Done(0)
  BY <1>1, <1>5
<1>7. ASSUME NEW k \in 1 .. Len(links), Done(k - 1) PROVE Done(k)
  <2>1. PICK buffer : buffer = after[k - 1]
    OBVIOUS
  <2>2. buffer \in Seq(CodeByte) /\ Len(buffer) = Len(code) /\ after[k] = Link(buffer, links[k])
    BY <1>5, <1>7, <2>1
  <2>3. /\ after[k] \in Seq(CodeByte) /\ Len(after[k]) = Len(code)
        /\ after[k][links[k].off + 1] = Low(To(k))
        /\ after[k][links[k].off + 2] = High(To(k))
        /\ \A a \in 1 .. Len(code) : a \notin {links[k].off + 1, links[k].off + 2}
             => after[k][a] = buffer[a]
    BY SMTT(30), <1>1, <2>2, OneLink
  <2>4. ASSUME NEW m \in 1 .. k
        PROVE  /\ after[k][links[m].off + 1] = Low(To(m))
               /\ after[k][links[m].off + 2] = High(To(m))
    <3>1. CASE m = k
      BY <2>3, <3>1
    <3>2. CASE m # k
      <4>1. m \in 1 .. k - 1 /\ m \in DOMAIN links /\ k \in DOMAIN links /\ m < k
        BY <1>1, <3>2
      <4>2. PICK x \in Nat, y \in Nat : x = links[m].off /\ y = links[k].off
        BY <4>1, Entries
      <4>3. x + 2 <= y /\ x + 2 <= Len(code)
        BY <4>1, <4>2, Entries DEF Linking
      <4>4. /\ x + 1 \in 1 .. Len(code) /\ x + 1 \notin {y + 1, y + 2}
            /\ x + 2 \in 1 .. Len(code) /\ x + 2 \notin {y + 1, y + 2}
        BY <1>1, <4>3
      <4>5. after[k][x + 1] = buffer[x + 1] /\ after[k][x + 2] = buffer[x + 2]
        BY <2>3, <4>2, <4>4
      <4>6. buffer[x + 1] = Low(To(m)) /\ buffer[x + 2] = High(To(m))
        BY <1>7, <2>1, <4>1, <4>2
      <4> QED
        BY <4>2, <4>5, <4>6
    <3> QED
      BY <3>1, <3>2
  <2> QED
    BY <2>3, <2>4
<1> HIDE DEF Done
<1>8. T = {}
  <2>1. SUFFICES ASSUME T # {} PROVE FALSE
    OBVIOUS
  <2>2. PICK k \in T : \A j \in T : k <= j
    BY <2>1, LeastNat
  <2>3. k \in Nat /\ k <= Len(links) /\ ~Done(k)
    OBVIOUS
  <2>4. k # 0
    BY <1>6, <2>3
  <2>5. k - 1 \in Nat /\ k - 1 < k /\ k - 1 <= Len(links) /\ k \in 1 .. Len(links)
    BY <1>1, <2>3, <2>4
  <2>6. k - 1 \notin T
    BY <2>2, <2>5
  <2>7. Done(k - 1)
    BY <2>5, <2>6
  <2> QED
    BY <1>7, <2>3, <2>5, <2>7
<1>9. Done(Len(links))
  BY <1>1, <1>8
<1> QED
  BY <1>1, <1>4, <1>9 DEF Done

-----------------------------------------------------------------------------
(* A label has the address of what follows it, or the position.            *)
Ahead(d) == IF Following(d) = {} THEN pos ELSE place[CHOOSE j \in Following(d) : TRUE]

LEMMA LabelAddress ==
  ASSUME Types, Labelled, phase = "lines", NEW d \in LabelLines
  PROVE  labels[Rank(d)].off = Ahead(d)
<1>1. PICK n \in Nat : n = Len(program)
  BY DEF Types
<1>2. Lines = 1 .. n /\ d \in 1 .. n /\ \A k \in 1 .. n : program[k] \in Line
  BY <1>1, AllLines
<1>3. CASE Following(d) # {}
  <2>1. (CHOOSE j \in Following(d) : TRUE) \in Following(d)
    BY <1>3
  <2> QED
    BY <1>3, <2>1 DEF Ahead, Labelled
<1>4. CASE Following(d) = {}
  <2> DEFINE T == {j \in d + 1 .. n : SizeOf(program[j]) # 0}
  <2>1. T = {}
    <3>1. SUFFICES ASSUME T # {} PROVE FALSE
      OBVIOUS
    <3>2. T \subseteq Nat
      BY <1>2
    <3>3. PICK j \in T : \A i \in T : j <= i
      BY <3>1, <3>2, LeastNat
    <3>4. j \in 1 .. n /\ d < j /\ SizeOf(program[j]) # 0
      BY <1>2
    <3>5. SizeOf(program[j]) > 0
      <4>1. SizeOf(program[j]) \in Nat
        BY <1>2, <3>4, SizeIsNat
      <4> QED
        BY <3>4, <4>1
    <3>6. \A i \in d + 1 .. j - 1 : SizeOf(program[i]) = 0
      <4>1. \A i \in d + 1 .. j - 1 : i \in d + 1 .. n /\ ~(j <= i)
        BY <1>2, <3>4
      <4> QED
        BY <3>3, <4>1
    <3>7. j \in Following(d)
      BY <1>2, <3>4, <3>5, <3>6 DEF Following
    <3> QED
      BY <1>4, <3>7
  <2>2. labels[Rank(d)].off = pos
    BY <1>1, <2>1 DEF Labelled
  <2> QED
    BY <1>4, <2>2 DEF Ahead
<1> QED
  BY <1>3, <1>4

(* The two forms of a name.                                                *)
LEMMA NameForms ==
  ASSUME NEW name, IsName(name)
  PROVE  \/ Local(name) /\ name[2] # "" /\ name = <<"", name[2]>> /\ name[1] = ""
         \/ ~Local(name) /\ name = <<name[1], "">> /\ name[2] = ""
<1>1. \A a, b : <<a, b>>[1] = a /\ <<a, b>>[2] = b
  OBVIOUS
<1>2. CASE name = <<name[1], "">> /\ name[1] # ""
  BY ZenonT(30), <1>1, <1>2 DEF Local
<1>3. CASE name = <<"", name[2]>> /\ name[2] # ""
  BY <1>1, <1>3 DEF Local
<1> QED
  BY <1>2, <1>3 DEF IsName

(* A name means one line: a local name and a regular one differ, and so do *)
(* local names of two functions.                                           *)
LEMMA NameIsOne ==
  ASSUME Types, Labelled, Linking, phase = "lines",
         NEW k \in DOMAIN program, Refers(k), NEW d \in LabelLines,
         NameAt(program[d].name, d) = NameAt(program[k].ref, k)
  PROVE  Declares(d, k)
<1>1. PICK n \in Nat : n = Len(program) /\ DOMAIN program = 1 .. n
  BY DEF Types
<1>2. Lines = 1 .. n /\ LabelLines \subseteq 1 .. n /\ \A j \in 1 .. n : program[j] \in Line
  BY <1>1, AllLines
<1>3. PICK name, ref : name = program[d].name /\ ref = program[k].ref
  OBVIOUS
<1>4. IsName(name) /\ IsName(ref)
  <2>1. program[d] \in Line /\ program[d].kind = "label"
    BY <1>2 DEF LabelLines
  <2>2. program[k] \in Line /\ program[k].kind = "ins" /\ program[k].ref # NoRef
    BY <1>1, <1>2 DEF Refers
  <2> QED
    BY <1>3, <2>1, <2>2, AssemblerAssumption
<1>5. NameAt(name, d) = NameAt(ref, k)
  BY <1>3
<1>6. Local(name) => /\ name = <<"", name[2]>> /\ name[2] # ""
                     /\ NameAt(name, d) = <<program[Function(d)].name[1], name[2]>>
  BY <1>4, NameForms DEF NameAt
<1>7. Local(ref) => /\ ref = <<"", ref[2]>> /\ ref[2] # ""
                    /\ NameAt(ref, k) = <<program[Function(k)].name[1], ref[2]>>
  BY <1>4, NameForms DEF NameAt
<1>8. ~Local(name) => name[2] = "" /\ NameAt(name, d) = name
  BY <1>4, NameForms DEF NameAt
<1>9. ~Local(ref) => ref[2] = "" /\ NameAt(ref, k) = ref
  BY <1>4, NameForms DEF NameAt
<1>10. /\ NameAt(name, d)[2] = name[2] /\ NameAt(ref, k)[2] = ref[2]
       /\ Local(name) => NameAt(name, d)[1] = program[Function(d)].name[1]
       /\ Local(ref) => NameAt(ref, k)[1] = program[Function(k)].name[1]
  <2>2. PICK x : x = program[Function(d)].name[1]
    OBVIOUS
  <2>3. PICK y : y = program[Function(k)].name[1]
    OBVIOUS
  <2>4. Local(name) => NameAt(name, d) = <<x, name[2]>>
    BY <1>6, <2>2
  <2>5. Local(ref) => NameAt(ref, k) = <<y, ref[2]>>
    BY <1>7, <2>3
  <2>6. NameAt(name, d)[2] = name[2] /\ (Local(name) => NameAt(name, d)[1] = x)
    <3>1. CASE Local(name)
      <4>1. PICK u, v : v = name[2] /\ u = NameAt(name, d) /\ u = <<x, v>>
        BY <2>4, <3>1
      <4>2. u[1] = x /\ u[2] = v
        BY <4>1
      <4> QED
        BY <4>1, <4>2
    <3>2. CASE ~Local(name)
      BY <1>8, <3>2
    <3> QED
      BY <3>1, <3>2
  <2>7. NameAt(ref, k)[2] = ref[2] /\ (Local(ref) => NameAt(ref, k)[1] = y)
    <3>1. CASE Local(ref)
      <4>1. PICK u, v : v = ref[2] /\ u = NameAt(ref, k) /\ u = <<y, v>>
        BY <2>5, <3>1
      <4>2. u[1] = y /\ u[2] = v
        BY <4>1
      <4> QED
        BY <4>1, <4>2
    <3>2. CASE ~Local(ref)
      BY <1>9, <3>2
    <3> QED
      BY <3>1, <3>2
  <2> QED
    BY <2>2, <2>3, <2>6, <2>7
<1>11. CASE ~Local(name) /\ ~Local(ref)
  BY <1>3, <1>5, <1>8, <1>9, <1>11 DEF Declares
<1>12. CASE Local(name) /\ ~Local(ref)
  BY <1>5, <1>6, <1>9, <1>10, <1>12
<1>13. CASE ~Local(name) /\ Local(ref)
  BY <1>5, <1>7, <1>8, <1>10, <1>13
<1>14. CASE Local(name) /\ Local(ref)
  <2>1. PICK f, g : f = Function(d) /\ g = Function(k)
    OBVIOUS
  <2>2. f # 0 /\ g # 0
    <3>1. Function(d) # 0
      BY <1>3, <1>14 DEF Labelled
    <3>2. Function(k) # 0
      BY <1>3, <1>14 DEF Linking
    <3> QED
      BY <2>1, <3>1, <3>2
  <2>3. /\ f \in LabelLines /\ ~Local(program[f].name)
        /\ g \in LabelLines /\ ~Local(program[g].name)
    <3>1. d \in Nat /\ k \in Nat
      BY <1>1, <1>2
    <3> QED
      BY <1>2, <2>1, <2>2, <3>1, FunctionRange
  <2>4. program[f].name[1] = program[g].name[1] /\ name[2] = ref[2]
    BY <1>5, <1>6, <1>7, <1>10, <1>14, <2>1
  <2>5. /\ program[f].name = <<program[f].name[1], "">>
        /\ program[g].name = <<program[g].name[1], "">>
    <3>1. IsName(program[f].name) /\ IsName(program[g].name)
      BY <1>2, <2>3, AssemblerAssumption DEF LabelLines
    <3> QED
      BY <2>3, <3>1, NameForms
  <2>6. NameAt(program[f].name, f) = NameAt(program[g].name, g)
    BY <2>3, <2>4, <2>5 DEF NameAt
  <2>7. f = g
    BY <2>3, <2>6 DEF Labelled
  <2> QED
    BY <1>3, <1>6, <1>7, <1>14, <2>1, <2>4, <2>7 DEF Declares
<1> QED
  BY <1>11, <1>12, <1>13, <1>14

(* When the output is written, the lines stay as they were read.           *)
LEMMA LinesStay ==
  ASSUME phase = "lines", phase' \in {"raw", "object"}, UNCHANGED <<program, place>>
  PROVE  /\ Lines' = Lines /\ LabelLines' = LabelLines
         /\ \A d : /\ Rank(d)' = Rank(d) /\ Function(d)' = Function(d)
                   /\ Following(d)' = Following(d) /\ IsValue(d)' = IsValue(d)
<1>1. Lines' = Lines
  BY DEF Lines
<1>2. LabelLines' = LabelLines
  BY <1>1 DEF LabelLines
<1>3. ASSUME NEW d
      PROVE  /\ Rank(d)' = Rank(d) /\ Function(d)' = Function(d)
             /\ Following(d)' = Following(d) /\ IsValue(d)' = IsValue(d)
  <2>1. Rank(d)' = Rank(d)
    BY <1>2, Zenon DEF Rank
  <2>2. RegularUpTo(d)' = RegularUpTo(d)
    BY <1>2, Zenon DEF RegularUpTo
  <2>3. Function(d)' = Function(d)
    BY <2>2, Zenon DEF Function
  <2>4. Following(d)' = Following(d)
    BY <1>1, Zenon DEF Following
  <2>5. IsValue(d)' = IsValue(d)
    BY Zenon DEF IsValue
  <2> QED
    BY <2>1, <2>3, <2>4, <2>5
<1> QED
  BY <1>1, <1>2, <1>3

(* as_raw_binary: every reference is the address of what its label leads   *)
(* to.                                                                     *)
LEMMA RawResolved ==
  ASSUME Types, Labelled, Linking, phase = "lines", phase' = "raw", AllDeclared,
         code' = Linked, UNCHANGED <<pos, labels, links, program, place>>
  PROVE  ReferencesResolved'
<1>1. PICK n \in Nat : n = Len(program) /\ DOMAIN program = 1 .. n
  BY DEF Types
<1>2. /\ Lines' = Lines /\ LabelLines' = LabelLines
      /\ \A d : /\ Rank(d)' = Rank(d) /\ Function(d)' = Function(d)
                /\ Following(d)' = Following(d) /\ IsValue(d)' = IsValue(d)
  BY LinesStay
<1>3. Lines = 1 .. n
  BY <1>1, AllLines
<1>4. ASSUME NEW k \in Lines, program[k].kind = "ins", program[k].ref # NoRef, ~IsValue(k)
      PROVE  \E d \in LabelLines :
               /\ Declares(d, k)
               /\ Linked[place[k] + program[k].field + 1] = Low(Ahead(d))
               /\ Linked[place[k] + program[k].field + 2] = High(Ahead(d))
  <2>1. k \in DOMAIN program /\ Refers(k)
    BY <1>1, <1>3, <1>4 DEF Refers
  <2>2. PICK m \in DOMAIN links : links[m] = Point(k)
    BY <2>1 DEF Linking
  <2>3. links[m].name = NameAt(program[k].ref, k)
        /\ links[m].off = place[k] + program[k].field
    BY <2>2 DEF Point
  <2>4. PICK c : c = CHOOSE j \in Declared(links[m].name) : TRUE
    OBVIOUS
  <2>5. c \in DOMAIN labels /\ labels[c].name = links[m].name
    <3>1. c \in Declared(links[m].name)
      BY <2>4 DEF AllDeclared
    <3> QED
      BY <3>1 DEF Declared
  <2>6. PICK d \in LabelLines : c = Rank(d)
    BY <2>5 DEF Labelled
  <2>7. NameAt(program[d].name, d) = NameAt(program[k].ref, k)
    BY <2>3, <2>5, <2>6 DEF Labelled
  <2>8. Declares(d, k)
    BY <2>1, <2>7, NameIsOne
  <2>9. To(m) = Ahead(d)
    <3>1. To(m) = labels[c].off
      BY <2>4 DEF To
    <3> QED
      BY <2>6, <3>1, LabelAddress
  <2>10. /\ Linked[links[m].off + 1] = Low(To(m))
         /\ Linked[links[m].off + 2] = High(To(m))
    BY LinkedIs
  <2> QED
    BY <2>3, <2>8, <2>9, <2>10
<1>5. ASSUME NEW k \in Lines, program[k].kind = "ins", program[k].ref # NoRef, ~IsValue(k)
      PROVE  \E d \in LabelLines' :
               /\ Declares(d, k)'
               /\ code'[place[k] + program[k].field + 1] = Low(Ahead(d))'
               /\ code'[place[k] + program[k].field + 2] = High(Ahead(d))'
  <2>1. PICK d \in LabelLines :
               /\ Declares(d, k)
               /\ Linked[place[k] + program[k].field + 1] = Low(Ahead(d))
               /\ Linked[place[k] + program[k].field + 2] = High(Ahead(d))
    BY <1>4, <1>5
  <2>2. Declares(d, k)'
    BY <1>2, <2>1 DEF Declares
  <2>3. Ahead(d)' = Ahead(d)
    <3>1. Following(d)' = Following(d) /\ pos' = pos /\ place' = place
      BY <1>2
    <3> QED
      BY <3>1 DEF Ahead
  <2>4. Low(Ahead(d))' = Low(Ahead(d)) /\ High(Ahead(d))' = High(Ahead(d))
    BY <2>3 DEF Low, High
  <2> QED
    BY <1>2, <2>1, <2>2, <2>4
<1> QED
  BY <1>2, <1>5 DEF ReferencesResolved, Ahead

-----------------------------------------------------------------------------
(* as_object: the section has what the lines placed, without the padding   *)
(* before the first origin (iof_section_builder::build).                   *)
LEMMA ObjectHasItems ==
  ASSUME Types, Placed, phase = "lines", phase' = "object",
         ~(code # <<>> /\ origin >= Len(code)),
         UNCHANGED <<code, origin, program, place>>,
         section'.code = Stripped, section'.size = (Len(code) - Base) % AddrSize
  PROVE  SectionHasEveryItem'
<1>1. /\ code \in Seq(CodeByte) /\ origin \in Nat \cup {-1}
      /\ AddrSize \in Nat \ {0}
  BY AssemblerAssumption DEF Types
<1>2. PICK n \in Nat, len \in Nat, base \in Nat :
         n = Len(program) /\ DOMAIN program = 1 .. n /\ len = Len(code) /\ base = Base
  BY SMTT(30), <1>1 DEF Types, Base
<1>3. PICK rest : rest = section'.code /\ rest = SubSeq(code, base + 1, len)
  BY <1>2 DEF Stripped
<1>4. /\ rest \in Seq(CodeByte)
      /\ Len(rest) = IF base <= len THEN len - base ELSE 0
      /\ \A i \in 1 .. Len(rest) : rest[i] = code[base + i]
  <2>1. \A i \in base + 1 .. len : code[i] \in CodeByte
    BY <1>1, <1>2
  <2>2. /\ rest \in Seq(CodeByte)
        /\ Len(rest) = IF base + 1 <= len THEN len - (base + 1) + 1 ELSE 0
        /\ \A i \in 1 .. len - (base + 1) + 1 : rest[i] = code[base + 1 + i - 1]
    BY <1>2, <1>3, <2>1, SubSeqProperties
  <2>3. Len(rest) = IF base <= len THEN len - base ELSE 0
    BY <2>2
  <2>4. \A i \in 1 .. Len(rest) : i \in 1 .. len - (base + 1) + 1 /\ base + 1 + i - 1 = base + i
    BY <2>3
  <2> QED
    BY <2>2, <2>3, <2>4
<1>5. base = IF origin = -1 THEN 0 ELSE origin
  BY <1>2 DEF Base
<1>6. ASSUME code # <<>>, Len(rest) < AddrSize PROVE section'.size = Len(rest)
  <2>1. len # 0
    BY <1>1, <1>2, <1>6
  <2>2. base < len
    BY <1>1, <1>2, <1>5, <1>6, <2>1
  <2>3. Len(rest) = len - base /\ Len(rest) \in Nat
    BY <1>4, <2>2
  <2>4. \A x \in Nat : x < AddrSize => x % AddrSize = x
    BY <1>1
  <2>5. section'.size = (len - base) % AddrSize
    BY <1>2
  <2> QED
    BY <1>6, <2>3, <2>4, <2>5
<1>7. Lines = 1 .. n /\ Lines' = 1 .. n
  BY <1>2 DEF Lines
<1>8. ASSUME NEW k \in 1 .. n, NEW b \in 1 .. SizeOf(program[k])
      PROVE  /\ place[k] - base + b \in DOMAIN rest
             /\ rest[place[k] - base + b] = Item(k, b)
  <2>1. program[k] \in Line /\ place[k] \in Nat
    BY <1>2, AllLines
  <2>2. PICK z \in Nat, at \in Nat : z = SizeOf(program[k]) /\ at = place[k]
    BY <2>1, SizeIsNat
  <2>3. z > 0 /\ b \in 1 .. z
    BY <2>2
  <2>4. /\ z > 0 => at + z <= len /\ origin <= at
        /\ code[at + b] = Item(k, b)
    BY <1>2, <2>2, <2>3 DEF Placed
  <2>5. base <= at /\ at + z <= len
    BY <1>1, <1>5, <2>3, <2>4
  <2>6. at - base + b \in 1 .. Len(rest)
    BY <1>4, <2>3, <2>5
  <2>7. base + (at - base + b) = at + b
    BY <2>3
  <2>8. rest[at - base + b] = code[at + b]
    BY <1>4, <2>6, <2>7
  <2>9. DOMAIN rest = 1 .. Len(rest)
    BY <1>4
  <2> QED
    BY <2>2, <2>4, <2>6, <2>8, <2>9
<1>9. ASSUME NEW k \in 1 .. n, NEW b \in 1 .. SizeOf(program[k])
      PROVE  /\ place'[k] - Base' + b \in DOMAIN section'.code
             /\ section'.code[place'[k] - Base' + b] = Item(k, b)'
  <2>1. Base' = base /\ Item(k, b)' = Item(k, b) /\ place' = place
    BY <1>2 DEF Base, Item
  <2> QED
    BY <1>3, <1>8, <2>1
<1> QED
  BY <1>3, <1>6, <1>7, <1>9 DEF SectionHasEveryItem

-----------------------------------------------------------------------------
(* A line is read, or it is rejected and the tables stay.                  *)
LEMMA LinePhase ==
  ASSUME NEW l \in Line, ReadLine(l)
  PROVE  /\ phase = "lines"
         /\ phase' = "lines" \/ (phase' = "failed" /\ labels' = labels)
         /\ \E at : program' = Append(program, l) /\ place' = Append(place, at)
<1>1. CASE ReadLabel(l)
  BY <1>1 DEF ReadLabel, Read, Fail, output, tables
<1>2. CASE ReadData(l) \/ ReadOrg(l) \/ ReadValue(l) \/ ReadExport(l)
  BY <1>2 DEF ReadData, ReadOrg, ReadValue, ReadExport, Read, output
<1>3. CASE ReadInstruction(l)
  BY <1>3 DEF ReadInstruction, Read, Fail, output, tables
<1>4. CASE ReadBad(l)
  BY <1>4 DEF ReadBad, Read, Fail, tables
<1> QED
  BY <1>1, <1>2, <1>3, <1>4 DEF ReadLine

LEMMA LineKeeps ==
  ASSUME Invariant, NEW l \in Line, ReadLine(l), Tidy(l)
  PROVE  Invariant'
<1>1. Types /\ Placed /\ Labelled /\ Linking /\ phase = "lines"
  BY LinePhase DEF Invariant
<1>2. Types' /\ (phase' = "lines" => Placed')
  BY <1>1, LinePlaced
<1>3. CASE phase' = "lines"
  <2>1. Labelled' /\ Linking' /\ Placed'
    BY <1>1, <1>2, <1>3, LineLabelled, LineLinked
  <2>2. LabelsLead'
    BY <2>1 DEF Labelled, LabelsLead, LabelOf
  <2>3. ReferencesResolved' /\ SectionHasEveryItem'
    BY <1>3 DEF ReferencesResolved, SectionHasEveryItem
  <2> QED
    BY <1>2, <2>1, <2>2, <2>3 DEF Invariant
<1>4. CASE phase' = "failed" /\ labels' = labels
  <2>1. PICK n \in Nat : n = Len(program)
    BY <1>1 DEF Types
  <2>2. PICK at : program' = Append(program, l) /\ place' = Append(place, at)
    BY LinePhase
  <2>3. /\ program \in Seq(Line) /\ place \in Seq(Nat) /\ Len(place) = n
        /\ program' \in Seq(Line) /\ place' \in Seq(Nat)
    BY <1>1, <1>2, <2>1 DEF Types
  <2>4. Len(program') = n + 1 /\ \A k \in 1 .. n : program'[k] = program[k]
    BY <2>1, <2>2, <2>3, AppendProperties
  <2>5. \A k \in 1 .. n : place'[k] = place[k]
    BY <2>2, <2>3
  <2>6. LabelsLead'
    BY <1>1, <1>4, <2>1, <2>3, <2>4, <2>5, FailedLeads
  <2>7. ReferencesResolved' /\ SectionHasEveryItem'
    BY <1>4 DEF ReferencesResolved, SectionHasEveryItem
  <2> QED
    BY <1>2, <1>4, <2>6, <2>7 DEF Invariant
<1> QED
  BY <1>3, <1>4, LinePhase

(* The assembler gives up when it is to write the output.                  *)
LEMMA FailKeeps ==
  ASSUME Invariant, phase = "lines", Fail, UNCHANGED <<program, place>>
  PROVE  Invariant'
<1>1. Types /\ Labelled
  BY DEF Invariant
<1>2. phase' = "failed" /\ UNCHANGED <<code, pos, origin, labels, links, lastLabel>>
  BY DEF Fail, tables
<1>3. Types'
  BY <1>1, <1>2 DEF Types
<1>4. PICK n \in Nat : n = Len(program) /\ program \in Seq(Line)
  BY <1>1 DEF Types
<1>5. LabelsLead'
  BY <1>1, <1>2, <1>4, FailedLeads
<1>6. ReferencesResolved' /\ SectionHasEveryItem'
  BY <1>2 DEF ReferencesResolved, SectionHasEveryItem
<1> QED
  BY <1>2, <1>3, <1>5, <1>6 DEF Invariant

(* The labels are what they were when the output is written.               *)
LEMMA LabelledStays ==
  ASSUME Labelled, phase = "lines", phase' \in {"raw", "object"},
         UNCHANGED <<pos, labels, lastLabel, program, place>>
  PROVE  Labelled' /\ LabelsLead'
<1>1. /\ Lines' = Lines /\ LabelLines' = LabelLines
      /\ \A d : /\ Rank(d)' = Rank(d) /\ Function(d)' = Function(d)
                /\ Following(d)' = Following(d)
  BY LinesStay
<1>2. \A name, d : NameAt(name, d)' = NameAt(name, d)
  BY <1>1 DEF NameAt, Local
<1>3. Labelled'
  <2>1. Len(labels') = Cardinality(LabelLines')
    BY <1>1 DEF Labelled
  <2>2. lastLabel' = IF Function(Len(program))' = 0 THEN ""
                     ELSE program'[Function(Len(program))'].name[1]
    BY <1>1 DEF Labelled
  <2>3. \A d \in LabelLines' :
          /\ Rank(d)' \in DOMAIN labels'
          /\ labels'[Rank(d)'].name = NameAt(program[d].name, d)'
          /\ Local(program[d].name)' => Function(d)' # 0
          /\ \A k \in Following(d)' : labels'[Rank(d)'].off = place'[k]
          /\ (\A j \in d + 1 .. Len(program') : SizeOf(program'[j]) = 0)
               => labels'[Rank(d)'].off = pos'
    BY <1>1, <1>2 DEF Labelled, Local
  <2>4. \A d, e \in LabelLines' :
          NameAt(program[d].name, d)' = NameAt(program[e].name, e)' => d = e
    BY <1>1, <1>2 DEF Labelled
  <2>5. \A m \in DOMAIN labels' : \E d \in LabelLines' : m = Rank(d)'
    BY <1>1 DEF Labelled
  <2> QED
    BY <2>1, <2>2, <2>3, <2>4, <2>5 DEF Labelled
<1>4. LabelsLead'
  BY <1>3 DEF Labelled, LabelsLead, LabelOf
<1> QED
  BY <1>3, <1>4

LEMMA RawKeeps ==
  ASSUME Invariant, AsRaw
  PROVE  Invariant'
<1>1. phase = "lines" /\ UNCHANGED <<program, place>>
  BY DEF AsRaw
<1>2. Types /\ Placed /\ Labelled /\ Linking
  BY <1>1 DEF Invariant
<1>3. CASE Fail
  BY <1>1, <1>3, FailKeeps
<1>4. CASE ~Fail
  <2>1. /\ AllDeclared /\ code' = Linked /\ phase' = "raw"
        /\ UNCHANGED <<pos, origin, labels, links, lastLabel>>
    BY <1>4 DEF AsRaw, AllDeclared, tables
  <2>2. Linked \in Seq(CodeByte) /\ Len(Linked) = Len(code)
    BY <1>2, <2>1, LinkedIs
  <2>3. Types'
    BY <1>1, <1>2, <2>1, <2>2 DEF Types
  <2>4. ReferencesResolved'
    BY <1>1, <1>2, <2>1, RawResolved
  <2>5. Labelled' /\ LabelsLead'
    BY <1>1, <1>2, <2>1, LabelledStays
  <2>6. SectionHasEveryItem'
    BY <2>1 DEF SectionHasEveryItem
  <2> QED
    BY <2>1, <2>3, <2>4, <2>5, <2>6 DEF Invariant
<1> QED
  BY <1>3, <1>4

LEMMA ObjectKeeps ==
  ASSUME Invariant, AsObject
  PROVE  Invariant'
<1>1. phase = "lines" /\ UNCHANGED <<program, place>>
  BY DEF AsObject
<1>2. Types /\ Placed /\ Labelled
  BY <1>1 DEF Invariant
<1>3. CASE Fail
  BY <1>1, <1>3, FailKeeps
<1>4. CASE ~Fail
  <2>1. /\ ~(code # <<>> /\ origin >= Len(code)) /\ phase' = "object"
        /\ section'.code = Stripped /\ section'.size = (Len(code) - Base) % AddrSize
        /\ UNCHANGED <<code, pos, origin, labels, links, lastLabel>>
    BY <1>4 DEF AsObject, tables
  <2>2. Types'
    BY <1>1, <1>2, <2>1 DEF Types
  <2>3. SectionHasEveryItem'
    BY <1>1, <1>2, <2>1, ObjectHasItems
  <2>4. Labelled' /\ LabelsLead'
    BY <1>1, <1>2, <2>1, LabelledStays
  <2>5. ReferencesResolved'
    BY <2>1 DEF ReferencesResolved
  <2> QED
    BY <2>1, <2>2, <2>3, <2>4, <2>5 DEF Invariant
<1> QED
  BY <1>3, <1>4

LEMMA NothingKeeps ==
  ASSUME Invariant, UNCHANGED vars
  PROVE  Invariant'
<1> USE DEF vars, output, tables
<1>1. Types'
  BY DEF Invariant, Types
<1>2. /\ Lines' = Lines /\ LabelLines' = LabelLines
  BY DEF Lines, LabelLines
<1>3. \A d : RegularUpTo(d)' = RegularUpTo(d) /\ Following(d)' = Following(d)
             /\ Rank(d)' = Rank(d) /\ IsValue(d)' = IsValue(d)
  BY <1>2 DEF RegularUpTo, Following, Rank, IsValue
<1>4. \A d : Function(d)' = Function(d)
  BY <1>3 DEF Function
<1>5. \A name, d : NameAt(name, d)' = NameAt(name, d)
  BY <1>4 DEF NameAt, Local
<1>6. phase' = "lines" => Placed' /\ Linking'
  <2>1. Placed => Placed'
    BY DEF Placed, Item
  <2>2. Linking => Linking'
    BY <1>3, <1>4, <1>5 DEF Linking, Refers, Point
  <2> QED
    BY <2>1, <2>2 DEF Invariant
<1>7. phase' # "failed" => Labelled'
  BY <1>2, <1>3, <1>4, <1>5 DEF Invariant, Labelled, Local
<1>8. LabelsLead'
  BY <1>2, <1>3 DEF Invariant, LabelsLead, LabelOf, Moves
<1>9. ReferencesResolved'
  <2>1. \A d, k : Declares(d, k)' = Declares(d, k)
    BY <1>2, <1>4 DEF Declares, Local
  <2>2. /\ phase' = phase /\ program' = program /\ code' = code /\ pos' = pos
        /\ place' = place
    OBVIOUS
  <2>3. ReferencesResolved
    BY DEF Invariant
  <2> HIDE DEF vars, output, tables
  <2> QED
    BY ONLY <1>2, <1>3, <2>1, <2>2, <2>3 DEF ReferencesResolved
<1>10. SectionHasEveryItem'
  BY <1>2 DEF Invariant, SectionHasEveryItem, Item, Base
<1> QED
  BY <1>1, <1>6, <1>7, <1>8, <1>9, <1>10 DEF Invariant

LEMMA Start ==
  ASSUME Init
  PROVE  Invariant
<1>1. \A S : <<>> \in Seq(S) /\ Len(<<>>) = 0 /\ DOMAIN <<>> = {}
  BY EmptySeq
<1>2. /\ code = <<>> /\ pos = 0 /\ origin = -1 /\ labels = <<>> /\ links = <<>>
      /\ values = {} /\ lastLabel = "" /\ phase = "lines"
      /\ program = <<>> /\ place = <<>>
  BY DEF Init
<1>3. /\ DOMAIN code = {} /\ DOMAIN labels = {} /\ DOMAIN links = {} /\ DOMAIN program = {}
      /\ Len(code) = 0 /\ Len(labels) = 0 /\ Len(program) = 0 /\ Len(place) = 0
  BY <1>1, <1>2
<1>4. Types
  <2>1. /\ code \in Seq(CodeByte) /\ labels \in Seq(Entry) /\ links \in Seq(Entry)
        /\ program \in Seq(Line) /\ place \in Seq(Nat)
    BY <1>1, <1>2
  <2>2. lastLabel \in Part
    BY <1>2 DEF Part
  <2> QED
    BY <1>2, <1>3, <2>1, <2>2 DEF Types
<1>5. Lines = {} /\ LabelLines = {}
  BY <1>3 DEF Lines, LabelLines
<1>6. Placed
  <2>1. Len(code) <= pos /\ origin <= pos
    <3>1. Len(code) = 0 /\ pos = 0 /\ origin = -1
      BY <1>2, <1>3, Zenon
    <3>2. 0 <= 0 /\ -1 <= 0
      OBVIOUS
    <3> QED
      BY <3>1, <3>2
  <2>2. \A k \in DOMAIN program : FALSE
    BY <1>3
  <2> QED
    BY <2>1, <2>2 DEF Placed
<1>7. Linking
  BY <1>2, <1>3 DEF Linking
<1>8. Function(0) = 0
  <2>1. RegularUpTo(0) = {}
    BY <1>5 DEF RegularUpTo
  <2> QED
    BY <1>5, <2>1, FunctionIsLast
<1>9. Labelled
  <2>1. Cardinality({}) = 0
    BY FS_EmptySet
  <2> QED
    BY <1>5, <1>8, <1>2, <1>3, <2>1 DEF Labelled
<1>10. LabelsLead /\ ReferencesResolved /\ SectionHasEveryItem
  BY <1>5, <1>2 DEF LabelsLead, ReferencesResolved, SectionHasEveryItem
<1> QED
  BY <1>4, <1>6, <1>7, <1>9, <1>10 DEF Invariant

LEMMA Steps ==
  ASSUME Invariant, [TidyNext]_vars
  PROVE  Invariant'
<1>1. CASE \E l \in Line : Tidy(l) /\ ReadLine(l)
  BY <1>1, LineKeeps
<1>2. CASE AsRaw
  BY <1>2, RawKeeps
<1>3. CASE AsObject
  BY <1>3, ObjectKeeps
<1>4. CASE Finished \/ UNCHANGED vars
  BY <1>4, NothingKeeps DEF Finished
<1> QED
  BY <1>1, <1>2, <1>3, <1>4 DEF TidyNext

(* The inductive invariant, of every tidy program.                         *)
THEOREM AssemblerInvariant == TidySpec => []Invariant
<1>1. Init => Invariant
  BY Start
<1>2. Invariant /\ [TidyNext]_vars => Invariant'
  BY Steps
<1> QED
  BY <1>1, <1>2, PTL DEF TidySpec

-----------------------------------------------------------------------------
(* The types of the state (the members of the assembler class).            *)
THEOREM TypeCorrect == TidySpec => []TypeOK
<1>1. Invariant => TypeOK
  <2> SUFFICES ASSUME Invariant PROVE TypeOK
    OBVIOUS
  <2>1. Types
    BY DEF Invariant
  <2>2. \A a \in DOMAIN code : code[a][1] \in {"item", "zero", "low", "high"}
    <3>1. \A a \in DOMAIN code : code[a] \in CodeByte
      BY <2>1 DEF Types
    <3>2. \A c \in CodeByte : c[1] \in {"item", "zero", "low", "high"}
      BY DEF CodeByte
    <3> QED
      BY <3>1, <3>2
  <2>3. \A k \in DOMAIN labels : labels[k].off \in 0 .. pos
    <3>1. pos \in Nat
      BY <2>1 DEF Types
    <3> QED
      BY <2>1, <3>1, Entries
  <2>4. \A k \in DOMAIN links : links[k].off + 1 < Len(code)
    <3>1. Len(code) \in Nat
      BY <2>1 DEF Types
    <3> QED
      BY <2>1, <3>1, Entries
  <2> QED
    BY <2>1, <2>2, <2>3, <2>4 DEF TypeOK, Types
<1> QED
  BY <1>1, AssemblerInvariant, PTL

(* While lines are read, every byte of every line is where it was put and  *)
(* instructions are aligned (insert_instruction).                          *)
THEOREM ItemsStay == TidySpec => []ItemsIntact
<1>1. Invariant => ItemsIntact
  BY AllLines DEF Invariant, ItemsIntact, Placed, Lines
<1> QED
  BY <1>1, AssemblerInvariant, PTL

(* A label is the address of what follows it (insert_instruction).         *)
THEOREM LabelsFollow == TidySpec => []LabelsLead
<1>1. Invariant => LabelsLead
  BY DEF Invariant
<1> QED
  BY <1>1, AssemblerInvariant, PTL

(* In the raw binary every reference has the address of its label (link).  *)
THEOREM ReferencesMeet == TidySpec => []ReferencesResolved
<1>1. Invariant => ReferencesResolved
  BY DEF Invariant
<1> QED
  BY <1>1, AssemblerInvariant, PTL

(* The section of the object file has every byte of every line             *)
(* (iof_section_builder::build).                                           *)
THEOREM SectionIsWhole == TidySpec => []SectionHasEveryItem
<1>1. Invariant => SectionHasEveryItem
  BY DEF Invariant
<1> QED
  BY <1>1, AssemblerInvariant, PTL

=============================================================================
