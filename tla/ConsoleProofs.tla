---------------------------- MODULE ConsoleProofs ----------------------------
(***************************************************************************)
(* Proofs about Console, for every set of bytes, every set of sizes and    *)
(* runs of any length.  ConsoleInv puts together what the runs check; only *)
(* two parts of it are new: the mode of the device is the parity of the    *)
(* run of markers that was written last, and a promise of poll is kept by  *)
(* a byte that waits.                                                      *)
(***************************************************************************)
EXTENDS Console, SequenceTheorems, TLAPS

(* The device is in control mode iff an odd run of markers was written     *)
(* last (console_write).                                                   *)
ModeIsParity ==
  \E n \in 0 .. Len(sent) :
    MarkersBefore(Len(sent) + 1, n) /\ (controlMode <=> n % 2 = 1)

(* What poll said yes to is still there (console_poll).                    *)
PromiseHolds ==
  promised /\ eof # "file" => readbuffer # <<>> \/ stdin # <<>>

ConsoleInv ==
  /\ TypeOK /\ TypedInOrder /\ AnswersExact /\ AnswersUnbroken
  /\ ModeIsParity /\ NativeIsFirewalled /\ PromiseHolds

-----------------------------------------------------------------------------
(* The two bytes of a word are bytes (queue_write_word).                   *)
LEMMA Octets ==
  ASSUME NEW w \in Word
  PROVE  w % 256 \in Byte /\ w \div 256 \in Byte
<1>1. w \in Nat /\ w <= 65535
  BY DEF Word
<1>2. w % 256 \in 0 .. 255
  BY <1>1, SMT
<1>3. w \div 256 \in 0 .. 255
  BY <1>1, SMT
<1> QED
  BY <1>2, <1>3 DEF Byte

LEMMA FourBytes ==
  ASSUME NEW S, NEW a \in S, NEW b \in S, NEW c \in S, NEW d \in S
  PROVE  /\ <<a, b>> \o <<c, d>> \in Seq(S) /\ Len(<<a, b>> \o <<c, d>>) = 4
         /\ (<<a, b>> \o <<c, d>>)[1] = a /\ (<<a, b>> \o <<c, d>>)[2] = b
         /\ (<<a, b>> \o <<c, d>>)[3] = c /\ (<<a, b>> \o <<c, d>>)[4] = d
OBVIOUS

(* An answer is four bytes: the columns, then the rows (cctl_size).        *)
LEMMA AnswerBytes ==
  ASSUME NEW s \in Sizes
  PROVE  /\ SizeAnswer(s) \in Seq(Byte)
         /\ Len(SizeAnswer(s)) = 4
         /\ SizeAnswer(s)[1] = s[1] % 256 /\ SizeAnswer(s)[2] = s[1] \div 256
         /\ SizeAnswer(s)[3] = s[2] % 256 /\ SizeAnswer(s)[4] = s[2] \div 256
<1>1. s[1] \in Word /\ s[2] \in Word
  BY ConsoleAssumption
<1>2. /\ s[1] % 256 \in Byte /\ s[1] \div 256 \in Byte
      /\ s[2] % 256 \in Byte /\ s[2] \div 256 \in Byte
  BY <1>1, Octets
<1>3. SizeAnswer(s) = <<s[1] % 256, s[1] \div 256>> \o <<s[2] % 256, s[2] \div 256>>
  BY DEF SizeAnswer, WordBytes
<1> HIDE DEF SizeAnswer
<1>4. /\ SizeAnswer(s) \in Seq(Byte) /\ Len(SizeAnswer(s)) = 4
      /\ SizeAnswer(s)[1] = s[1] % 256 /\ SizeAnswer(s)[2] = s[1] \div 256
      /\ SizeAnswer(s)[3] = s[2] % 256 /\ SizeAnswer(s)[4] = s[2] \div 256
  <2> DEFINE a == s[1] % 256    b == s[1] \div 256
             c == s[2] % 256    d == s[2] \div 256
  <2>1. SizeAnswer(s) = <<a, b>> \o <<c, d>> /\ a \in Byte /\ b \in Byte /\ c \in Byte /\ d \in Byte
    BY <1>2, <1>3
  <2> HIDE DEF a, b, c, d
  <2>2. /\ SizeAnswer(s) \in Seq(Byte) /\ Len(SizeAnswer(s)) = 4
        /\ SizeAnswer(s)[1] = a /\ SizeAnswer(s)[2] = b
        /\ SizeAnswer(s)[3] = c /\ SizeAnswer(s)[4] = d
    BY <2>1, FourBytes
  <2> QED
    BY <2>2 DEF a, b, c, d
<1> QED
  BY <1>4

(* What the firewall lets through is made of bytes.                        *)
LEMMA FirewallBytes ==
  ASSUME NEW b \in Written
  PROVE  Firewalled(b) \in Seq(Byte)
<1>1. b \in Byte
  BY ConsoleAssumption
<1>2. <<b>> \in Seq(Byte) /\ <<>> \in Seq(Byte)
  BY <1>1
<1>3. ClearScreen \in Seq(Byte)
  <2>1. /\ 27 \in Byte /\ 91 \in Byte /\ 50 \in Byte /\ 74 \in Byte
        /\ 49 \in Byte /\ 59 \in Byte /\ 72 \in Byte
    BY DEF Byte
  <2> QED
    BY <2>1 DEF ClearScreen
<1> QED
  BY <1>2, <1>3 DEF Firewalled

(* What a read does to the history of the reads (console_read).            *)
LEMMA GotOne ==
  ASSUME NEW source \in Source, NEW byte \in Byte, Got(source, byte),
         got \in [Source -> Seq(Byte)]
  PROVE  /\ got' \in [Source -> Seq(Byte)]
         /\ from' = source /\ promised' = FALSE
         /\ got'[source] = Append(got[source], byte)
         /\ \A other \in Source \ {source} : got'[other] = got[other]
<1>1. Append(got[source], byte) \in Seq(Byte)
  OBVIOUS
<1> QED
  BY <1>1 DEF Got

(* A control code queues one answer, or it does nothing (control).         *)
LEMMA Answered ==
  ASSUME TypeOK, NEW b \in Written, WriteControl(b)
  PROVE  /\ readbuffer' \in Seq(Byte) /\ asked' \in Seq(Sizes)
         /\ \/ /\ readbuffer' = readbuffer \o SizeAnswer(size)
               /\ asked' = Append(asked, size)
            \/ UNCHANGED <<readbuffer, asked>>
<1>1. readbuffer \in Seq(Byte) /\ asked \in Seq(Sizes) /\ size \in Sizes
  BY DEF TypeOK
<1>2. SizeAnswer(size) \in Seq(Byte)
  BY <1>1, AnswerBytes
<1>3. CASE b = CctlSize
  <2>1. readbuffer' = readbuffer \o SizeAnswer(size) /\ asked' = Append(asked, size)
    BY <1>3 DEF WriteControl
  <2> QED
    BY <1>1, <1>2, <2>1
<1>4. CASE b # CctlSize
  BY <1>1, <1>4 DEF WriteControl
<1> QED
  BY <1>3, <1>4

(* TypeOK holds of the console and is kept, whatever the user, the program *)
(* and the terminal do.                                                    *)
LEMMA TypeInit == Init => TypeOK
<1> SUFFICES ASSUME Init PROVE TypeOK
  OBVIOUS
<1>1. steps \in 0 .. MaxSteps
  BY ConsoleAssumption DEF Init
<1>2. \A S : <<>> \in Seq(S)
  BY EmptySeq
<1>3. got \in [Source -> Seq(Byte)] /\ from \in Source
  BY <1>2 DEF Init, Source
<1>4. /\ controlMode \in BOOLEAN /\ promised \in BOOLEAN
      /\ eof \in {"open"} \cup EofKinds /\ size \in Sizes
  BY DEF Init
<1>5. /\ readbuffer \in Seq(Byte) /\ stdin \in Seq(Typed) /\ typed \in Seq(Typed)
      /\ asked \in Seq(Sizes) /\ native \in Seq(Seq(Byte)) /\ sent \in Seq(Written)
  BY <1>2 DEF Init
<1> QED
  BY <1>1, <1>3, <1>4, <1>5 DEF TypeOK

LEMMA TypeNext == TypeOK /\ [Next]_vars => TypeOK'
<1> SUFFICES ASSUME TypeOK, [Next]_vars PROVE TypeOK'
  OBVIOUS
<1> USE DEF TypeOK
<1>1. ASSUME NEW b \in Typed, Type(b) PROVE TypeOK'
  BY <1>1 DEF Type, device, history
<1>2. ASSUME NEW k \in EofKinds, CloseInput(k) PROVE TypeOK'
  BY <1>2 DEF CloseInput, device, history
<1>3. ASSUME NEW s \in Sizes, Resize(s) PROVE TypeOK'
  BY <1>3 DEF Resize, device, history
<1>4. ASSUME ProgramStep PROVE steps' \in 0 .. MaxSteps
  BY <1>4, ConsoleAssumption DEF ProgramStep
<1>5. CASE ReadAnswer
  <2>1. Head(readbuffer) \in Byte /\ Tail(readbuffer) \in Seq(Byte)
    BY <1>5, HeadTailProperties DEF ReadAnswer
  <2>2. got' \in [Source -> Seq(Byte)] /\ from' \in Source /\ promised' \in BOOLEAN
    BY <1>5, <2>1, GotOne DEF ReadAnswer, Source
  <2> QED
    BY <1>4, <1>5, <2>1, <2>2 DEF ReadAnswer, outside
<1>6. CASE ReadTyped
  <2>1. Head(stdin) \in Byte /\ Tail(stdin) \in Seq(Typed)
    BY <1>6, HeadTailProperties, ConsoleAssumption DEF ReadTyped
  <2>2. got' \in [Source -> Seq(Byte)] /\ from' \in Source /\ promised' \in BOOLEAN
    BY <1>6, <2>1, GotOne DEF ReadTyped, Source
  <2> QED
    BY <1>4, <1>6, <2>1, <2>2 DEF ReadTyped, device
<1>7. CASE ReadNothing
  <2>1. 0 \in Byte
    BY DEF Byte
  <2>2. got' \in [Source -> Seq(Byte)] /\ from' \in Source /\ promised' \in BOOLEAN
    BY <1>7, <2>1, GotOne DEF ReadNothing, Source
  <2> QED
    BY <1>4, <1>7, <2>2 DEF ReadNothing, device, outside
<1>8. CASE AskPoll
  BY <1>8 DEF AskPoll, Poll, NativePoll, device, outside
<1>9. ASSUME NEW b \in Written, WriteControl(b) PROVE TypeOK'
  <2>1. readbuffer' \in Seq(Byte) /\ asked' \in Seq(Sizes)
    BY <1>9, Answered
  <2>2. native' \in Seq(Seq(Byte)) /\ sent' \in Seq(Written)
    BY <1>9 DEF WriteControl
  <2> QED
    BY <1>4, <1>9, <2>1, <2>2 DEF WriteControl, outside
<1>10. ASSUME NEW b \in Written, WritePlain(b) PROVE TypeOK'
  <2>1. native' \in Seq(Seq(Byte)) /\ sent' \in Seq(Written)
    BY <1>10, FirewallBytes DEF WritePlain
  <2>2. controlMode' \in BOOLEAN
    BY <1>10 DEF WritePlain
  <2> QED
    BY <1>4, <1>10, <2>1, <2>2 DEF WritePlain, outside
<1>11. CASE UNCHANGED vars
  BY <1>11 DEF vars, device, outside, history
<1> QED
  BY <1>1, <1>2, <1>3, <1>5, <1>6, <1>7, <1>8, <1>9, <1>10, <1>11
     DEF Next, User, Program, Read, Write

-----------------------------------------------------------------------------
(* Taking the head of a queue moves nothing.                               *)
LEMMA MoveHead ==
  ASSUME NEW S, NEW s \in Seq(S), NEW t \in Seq(S), t # <<>>
  PROVE  Append(s, Head(t)) \o Tail(t) = s \o t
<1>1. Head(t) \in S /\ Tail(t) \in Seq(S)
  BY HeadTailProperties
<1>2. <<Head(t)>> \in Seq(S) /\ Append(s, Head(t)) = s \o <<Head(t)>>
  BY <1>1, AppendIsConcat
<1>3. t = <<Head(t)>> \o Tail(t)
  <2>1. 1 \in 1 .. Len(t) /\ Len(t) \in 1 .. Len(t)
    BY EmptySeq, LenProperties
  <2>2. SubSeq(t, 1, Len(t)) = <<t[1]>> \o SubSeq(t, 2, Len(t))
    BY <2>1, SubSeqRecursiveFirst
  <2>3. SubSeq(t, 1, Len(t)) = t /\ Tail(t) = SubSeq(t, 2, Len(t))
    BY SubSeqFull, TailIsSubSeq
  <2>4. Head(t) = t[1]
    OBVIOUS
  <2> QED
    BY <2>2, <2>3, <2>4
<1> QED
  BY <1>1, <1>2, <1>3, ConcatAssociative

LEMMA ConcatBytes ==
  \A s, t, u \in Seq(Byte) : (s \o t) \o u = s \o (t \o u)
<1> TAKE s, t, u \in Seq(Byte)
<1> QED
  BY ConcatAssociative

(* What is put behind a queue is put behind what was taken from it.        *)
LEMMA AppendBytes ==
  \A s, t \in Seq(Byte), e \in Byte : Append(s \o t, e) = s \o Append(t, e)
<1> TAKE s, t \in Seq(Byte), e \in Byte
<1>1. /\ s \o t \in Seq(Byte) /\ Append(t, e) \in Seq(Byte) /\ <<e>> \in Seq(Byte)
  BY ConcatProperties
<1>2. Append(s \o t, e) = (s \o t) \o <<e>> /\ Append(t, e) = t \o <<e>>
  BY <1>1, AppendIsConcat
<1> QED
  BY <1>1, <1>2, ConcatBytes

(* The bytes of the user and of the device by the set of all bytes.        *)
LEMMA Streams ==
  ASSUME TypeOK
  PROVE  /\ got["user"] \in Seq(Byte) /\ got["device"] \in Seq(Byte)
         /\ stdin \in Seq(Byte) /\ typed \in Seq(Byte) /\ readbuffer \in Seq(Byte)
         /\ Len(asked) \in Nat /\ DOMAIN asked = 1 .. Len(asked)
         /\ Len(got["device"]) \in Nat /\ Len(readbuffer) \in Nat
<1>1. stdin \in Seq(Typed) /\ typed \in Seq(Typed) /\ Typed \subseteq Byte
  BY ConsoleAssumption DEF TypeOK
<1>2. stdin \in Seq(Byte) /\ typed \in Seq(Byte)
  BY <1>1, SeqMonotonic
<1>3. got["user"] \in Seq(Byte) /\ got["device"] \in Seq(Byte)
  BY DEF TypeOK, Source
<1>4. asked \in Seq(Sizes) /\ readbuffer \in Seq(Byte)
  BY DEF TypeOK
<1> QED
  BY <1>2, <1>3, <1>4, LenProperties

(* What a read of a waiting answer and of a typed byte does to the two     *)
(* streams (console_read).                                                 *)
LEMMA AnswerRead ==
  ASSUME TypeOK, ReadAnswer
  PROVE  /\ got'["user"] = got["user"] /\ Answers' = Answers
         /\ Len(got'["device"]) = Len(got["device"]) + 1
<1>1. readbuffer # <<>> /\ Got("device", Head(readbuffer)) /\ readbuffer' = Tail(readbuffer)
  BY DEF ReadAnswer
<1>2. got["device"] \in Seq(Byte) /\ readbuffer \in Seq(Byte)
  BY Streams
<1>3. Head(readbuffer) \in Byte
  BY <1>1, <1>2, HeadTailProperties
<1>4. got'["device"] = Append(got["device"], Head(readbuffer)) /\ got'["user"] = got["user"]
  BY <1>1, <1>3, GotOne DEF TypeOK, Source
<1>5. Append(got["device"], Head(readbuffer)) \o Tail(readbuffer) = got["device"] \o readbuffer
  BY <1>1, <1>2, MoveHead
<1>6. Answers' = Answers
  BY <1>1, <1>4, <1>5 DEF Answers
<1>7. Len(got'["device"]) = Len(got["device"]) + 1
  BY <1>2, <1>3, <1>4, AppendProperties
<1> QED
  BY <1>4, <1>6, <1>7

LEMMA TypedRead ==
  ASSUME TypeOK, ReadTyped
  PROVE  /\ got'["device"] = got["device"] /\ Answers' = Answers
         /\ got'["user"] \o stdin' = got["user"] \o stdin
<1>1. /\ stdin # <<>> /\ Got("user", Head(stdin)) /\ stdin' = Tail(stdin)
      /\ readbuffer' = readbuffer
  BY DEF ReadTyped, device
<1>2. got["user"] \in Seq(Byte) /\ stdin \in Seq(Byte)
  BY Streams
<1>3. Head(stdin) \in Byte
  BY <1>1, <1>2, HeadTailProperties
<1>4. got'["user"] = Append(got["user"], Head(stdin)) /\ got'["device"] = got["device"]
  BY <1>1, <1>3, GotOne DEF TypeOK, Source
<1>5. Append(got["user"], Head(stdin)) \o Tail(stdin) = got["user"] \o stdin
  BY <1>1, <1>2, MoveHead
<1> QED
  BY <1>1, <1>4, <1>5 DEF Answers

LEMMA NothingRead ==
  ASSUME TypeOK, ReadNothing
  PROVE  /\ got'["device"] = got["device"] /\ got'["user"] = got["user"]
         /\ Answers' = Answers
<1>1. Got("nobody", 0) /\ readbuffer' = readbuffer /\ 0 \in Byte
  BY DEF ReadNothing, device, Byte
<1>2. got'["user"] = got["user"] /\ got'["device"] = got["device"]
  BY <1>1, GotOne DEF TypeOK, Source
<1> QED
  BY <1>1, <1>2 DEF Answers

(* The steps that read nothing leave both histories of reading alone.      *)
LEMMA NoRead ==
  ASSUME [Next]_vars, ~Read
  PROVE  /\ got' = got /\ from' = from
         /\ UNCHANGED readbuffer \/ \E b \in Written : WriteControl(b)
         /\ UNCHANGED <<stdin, typed>> \/ \E b \in Typed : Type(b)
         /\ UNCHANGED asked \/ \E b \in Written : WriteControl(b)
<1>1. CASE User
  BY <1>1 DEF User, Type, CloseInput, Resize, device, history
<1>2. CASE AskPoll
  BY <1>2 DEF AskPoll, device, outside
<1>3. ASSUME NEW b \in Written, WriteControl(b) PROVE got' = got /\ from' = from /\ UNCHANGED <<stdin, typed>>
  BY <1>3 DEF WriteControl, outside
<1>4. ASSUME NEW b \in Written, WritePlain(b)
      PROVE  got' = got /\ from' = from /\ UNCHANGED <<readbuffer, asked, stdin, typed>>
  BY <1>4 DEF WritePlain, outside
<1>5. CASE UNCHANGED vars
  BY <1>5 DEF vars, device, outside, history
<1> QED
  BY <1>1, <1>2, <1>3, <1>4, <1>5 DEF Next, Program, Write

-----------------------------------------------------------------------------
(* One more answer behind the others (cctl_size).                          *)
LEMMA OneMoreAnswer ==
  ASSUME TypeOK, AnswersExact, got' = got,
         readbuffer' = readbuffer \o SizeAnswer(size), asked' = Append(asked, size)
  PROVE  AnswersExact'
<1> DEFINE n == Len(asked)
<1>1. /\ got["device"] \in Seq(Byte) /\ readbuffer \in Seq(Byte)
      /\ asked \in Seq(Sizes) /\ size \in Sizes /\ n \in Nat /\ DOMAIN asked = 1 .. n
  BY Streams DEF TypeOK
<1>2. SizeAnswer(size) \in Seq(Byte) /\ Len(SizeAnswer(size)) = 4
  BY <1>1, AnswerBytes
<1>3. Answers \in Seq(Byte) /\ Answers' = Answers \o SizeAnswer(size)
  <2>1. Answers \in Seq(Byte)
    BY <1>1, ConcatProperties DEF Answers
  <2>2. Answers' = got["device"] \o (readbuffer \o SizeAnswer(size))
    BY DEF Answers
  <2>3. (got["device"] \o readbuffer) \o SizeAnswer(size)
          = got["device"] \o (readbuffer \o SizeAnswer(size))
    BY <1>1, <1>2, ConcatBytes
  <2> QED
    BY <2>1, <2>2, <2>3 DEF Answers
<1>4. Len(Answers) = 4 * n
  BY DEF AnswersExact
<1>5. /\ Len(Answers') = 4 * n + 4
      /\ \A j \in 1 .. 4 * n + 4 :
           Answers'[j] = IF j <= 4 * n THEN Answers[j] ELSE SizeAnswer(size)[j - 4 * n]
  <2>1. /\ Len(Answers \o SizeAnswer(size)) = Len(Answers) + Len(SizeAnswer(size))
        /\ \A j \in 1 .. Len(Answers) + Len(SizeAnswer(size)) :
             (Answers \o SizeAnswer(size))[j] =
               IF j <= Len(Answers) THEN Answers[j] ELSE SizeAnswer(size)[j - Len(Answers)]
    BY <1>2, <1>3, ConcatProperties, Zenon
  <2> QED
    BY <1>2, <1>3, <1>4, <2>1, Zenon
<1>6. /\ asked' \in Seq(Sizes) /\ Len(asked') = n + 1 /\ DOMAIN asked' = 1 .. n + 1
      /\ asked'[n + 1] = size /\ \A k \in 1 .. n : asked'[k] = asked[k]
  <2>1. asked' = Append(asked, size)
    OBVIOUS
  <2> HIDE DEF n
  <2>2. /\ Append(asked, size) \in Seq(Sizes)
        /\ Len(Append(asked, size)) = n + 1
        /\ \A k \in 1 .. n : Append(asked, size)[k] = asked[k]
        /\ Append(asked, size)[n + 1] = size
    BY <1>1, AppendProperties DEF n
  <2> QED
    BY <2>1, <2>2, LenProperties
<1> HIDE DEF n
<1>7. ASSUME NEW k \in 1 .. n + 1
      PROVE  /\ Answers'[4 * k - 3] = asked'[k][1] % 256
             /\ Answers'[4 * k - 2] = asked'[k][1] \div 256
             /\ Answers'[4 * k - 1] = asked'[k][2] % 256
             /\ Answers'[4 * k]     = asked'[k][2] \div 256
  <2>1. CASE k <= n
    <3>1. k \in 1 .. n /\ asked'[k] = asked[k]
      BY <1>1, <1>6, <2>1
    <3>2. /\ Answers[4 * k - 3] = asked[k][1] % 256
          /\ Answers[4 * k - 2] = asked[k][1] \div 256
          /\ Answers[4 * k - 1] = asked[k][2] % 256
          /\ Answers[4 * k]     = asked[k][2] \div 256
      BY <1>1, <3>1 DEF AnswersExact
    <3>3. /\ Answers'[4 * k - 3] = Answers[4 * k - 3] /\ Answers'[4 * k - 2] = Answers[4 * k - 2]
          /\ Answers'[4 * k - 1] = Answers[4 * k - 1] /\ Answers'[4 * k] = Answers[4 * k]
      BY <1>1, <1>5, <3>1
    <3> QED
      BY <3>1, <3>2, <3>3
  <2>2. CASE k = n + 1
    <3>1. /\ Answers'[4 * k - 3] = SizeAnswer(size)[1] /\ Answers'[4 * k - 2] = SizeAnswer(size)[2]
          /\ Answers'[4 * k - 1] = SizeAnswer(size)[3] /\ Answers'[4 * k] = SizeAnswer(size)[4]
      BY <1>1, <1>5, <2>2
    <3> QED
      BY <1>1, <1>6, <2>2, <3>1, AnswerBytes
  <2> QED
    BY <1>1, <2>1, <2>2
<1>8. Len(Answers') = 4 * Len(asked')
  BY <1>1, <1>5, <1>6
<1> QED
  BY <1>6, <1>7, <1>8 DEF AnswersExact

(* Answers stay exact; they grow by whole answers.                         *)
LEMMA AnswersNext == TypeOK /\ AnswersExact /\ [Next]_vars => AnswersExact'
<1> SUFFICES ASSUME TypeOK, AnswersExact, [Next]_vars PROVE AnswersExact'
  OBVIOUS
<1>1. ASSUME Answers' = Answers, asked' = asked PROVE AnswersExact'
  BY <1>1 DEF AnswersExact
<1>2. CASE ReadAnswer
  BY <1>1, <1>2, AnswerRead DEF ReadAnswer
<1>3. CASE ReadTyped
  BY <1>1, <1>3, TypedRead DEF ReadTyped
<1>4. CASE ReadNothing
  BY <1>1, <1>4, NothingRead DEF ReadNothing
<1>5. ASSUME NEW b \in Written, WriteControl(b) PROVE AnswersExact'
  <2>1. got' = got
    BY <1>5 DEF WriteControl
  <2>2. CASE UNCHANGED <<readbuffer, asked>>
    BY <1>1, <2>1, <2>2 DEF Answers
  <2> QED
    BY <1>5, <2>1, <2>2, Answered, OneMoreAnswer
<1>6. CASE ~Read /\ ~\E b \in Written : WriteControl(b)
  BY <1>1, <1>6, NoRead DEF Answers
<1> QED
  BY <1>2, <1>3, <1>4, <1>5, <1>6 DEF Read

(* What the user types stays in order.                                     *)
LEMMA TypedNext == TypeOK /\ TypedInOrder /\ [Next]_vars => TypedInOrder'
<1> SUFFICES ASSUME TypeOK, TypedInOrder, [Next]_vars PROVE TypedInOrder'
  OBVIOUS
<1> USE DEF TypedInOrder
<1>1. CASE ReadAnswer
  BY <1>1, AnswerRead DEF ReadAnswer, outside
<1>2. CASE ReadTyped
  BY <1>2, TypedRead DEF ReadTyped
<1>3. CASE ReadNothing
  BY <1>3, NothingRead DEF ReadNothing, outside
<1>4. ASSUME NEW b \in Typed, Type(b) PROVE TypedInOrder'
  <2>1. b \in Byte /\ got["user"] \in Seq(Byte) /\ stdin \in Seq(Byte)
    BY Streams, ConsoleAssumption
  <2>2. Append(got["user"] \o stdin, b) = got["user"] \o Append(stdin, b)
    BY <2>1, AppendBytes
  <2> QED
    BY <1>4, <2>2 DEF Type, history
<1>5. CASE ~Read /\ ~\E b \in Typed : Type(b)
  BY <1>5, NoRead
<1> QED
  BY <1>1, <1>2, <1>3, <1>4, <1>5 DEF Read

(* A typed byte is read, or nothing is, only when all answers were read.   *)
LEMMA UnbrokenNext ==
  TypeOK /\ AnswersExact /\ AnswersUnbroken /\ [Next]_vars => AnswersUnbroken'
<1> SUFFICES ASSUME TypeOK, AnswersExact, AnswersUnbroken, [Next]_vars
             PROVE  AnswersUnbroken'
  OBVIOUS
<1>1. CASE ReadAnswer
  <2>1. from' = "device"
    BY <1>1 DEF ReadAnswer, Got
  <2> QED
    BY <2>1 DEF AnswersUnbroken
<1>2. ASSUME readbuffer = <<>> PROVE Len(got["device"]) % 4 = 0
  <2>1. Answers = got["device"]
    BY <1>2, Streams, ConcatEmptySeq DEF Answers
  <2>2. Len(got["device"]) = 4 * Len(asked)
    BY <2>1 DEF AnswersExact
  <2>3. \A n \in Nat : (4 * n) % 4 = 0
    BY SMT
  <2> QED
    BY <2>2, <2>3, Streams
<1>3. CASE ReadTyped
  <2>1. readbuffer = <<>> /\ got'["device"] = got["device"]
    BY <1>3, TypedRead DEF ReadTyped
  <2> QED
    BY <1>2, <2>1 DEF AnswersUnbroken
<1>4. CASE ReadNothing
  <2>1. readbuffer = <<>> /\ got'["device"] = got["device"]
    BY <1>4, NothingRead DEF ReadNothing
  <2> QED
    BY <1>2, <2>1 DEF AnswersUnbroken
<1>5. CASE ~Read
  BY <1>5, NoRead DEF AnswersUnbroken
<1> QED
  BY <1>1, <1>3, <1>4, <1>5 DEF Read

-----------------------------------------------------------------------------
(* A byte has one run of markers before it, and only one length fits.      *)
LEMMA RunIsUnique ==
  ASSUME NEW len \in Nat, DOMAIN sent = 1 .. len, NEW i \in 1 .. len + 1,
         NEW n \in 0 .. i - 1, NEW m \in 0 .. i - 1,
         MarkersBefore(i, n), MarkersBefore(i, m)
  PROVE  n = m
<1>1. ASSUME NEW p \in 0 .. i - 1, NEW q \in 0 .. i - 1, p < q,
             MarkersBefore(i, p), MarkersBefore(i, q)
      PROVE  FALSE
  <2>1. i - p - 1 \in i - q .. i - 1 /\ i - p - 1 \in DOMAIN sent
    BY <1>1
  <2> QED
    BY <1>1, <2>1 DEF MarkersBefore
<1>2. n \in Int /\ m \in Int
  OBVIOUS
<1> QED
  BY <1>1, <1>2

(* A byte is a code iff the device would be in control mode for it.        *)
LEMMA CodeIsParity ==
  ASSUME NEW len \in Nat, DOMAIN sent = 1 .. len, NEW i \in 1 .. len + 1,
         NEW n \in 0 .. i - 1, MarkersBefore(i, n)
  PROVE  IsCode(i) <=> n % 2 = 1
<1>1. ASSUME n % 2 = 1 PROVE IsCode(i)
  <2>1. n \in 1 .. i - 1
    BY <1>1
  <2> QED
    BY <1>1, <2>1 DEF IsCode
<1>2. ASSUME IsCode(i) PROVE n % 2 = 1
  <2>1. PICK m \in 1 .. i - 1 : m % 2 = 1 /\ MarkersBefore(i, m)
    BY <1>2 DEF IsCode
  <2>2. m \in 0 .. i - 1
    OBVIOUS
  <2> QED
    BY <2>1, <2>2, RunIsUnique
<1> QED
  BY <1>1, <1>2

(* What comes behind a byte changes neither its markers nor what it is.    *)
LEMMA MarkersKept ==
  ASSUME NEW len \in Nat, DOMAIN sent = 1 .. len, DOMAIN sent' = 1 .. len + 1,
         \A j \in 1 .. len : sent'[j] = sent[j],
         NEW i \in 1 .. len + 1, NEW n \in 0 .. i - 1
  PROVE  MarkersBefore(i, n)' <=> MarkersBefore(i, n)
<1>1. \A j \in i - n .. i - 1 : j \in 1 .. len /\ sent'[j] = sent[j]
  OBVIOUS
<1>2. i - n - 1 \in DOMAIN sent <=> i - n - 1 \in DOMAIN sent'
  OBVIOUS
<1>3. i - n - 1 \in DOMAIN sent => sent'[i - n - 1] = sent[i - n - 1]
  OBVIOUS
<1> QED
  BY <1>1, <1>2, <1>3, Zenon DEF MarkersBefore

LEMMA CodesKept ==
  ASSUME NEW len \in Nat, DOMAIN sent = 1 .. len, DOMAIN sent' = 1 .. len + 1,
         \A j \in 1 .. len : sent'[j] = sent[j], NEW i \in 1 .. len + 1
  PROVE  IsCode(i)' <=> IsCode(i)
<1>1. \A n \in 1 .. i - 1 : MarkersBefore(i, n)' <=> MarkersBefore(i, n)
  <2> TAKE n \in 1 .. i - 1
  <2>1. n \in 0 .. i - 1
    OBVIOUS
  <2> QED
    BY <2>1, MarkersKept
<1> QED
  BY <1>1, Zenon DEF IsCode

(* One byte more: the run of markers ends at it or grows by it.            *)
LEMMA RunGrows ==
  ASSUME NEW len \in Nat, DOMAIN sent = 1 .. len, DOMAIN sent' = 1 .. len + 1,
         \A j \in 1 .. len : sent'[j] = sent[j],
         NEW n \in 0 .. len, MarkersBefore(len + 1, n),
         NEW m \in Nat, m = IF sent'[len + 1] = CtrlByte THEN n + 1 ELSE 0
  PROVE  MarkersBefore(len + 2, m)'
<1>1. CASE sent'[len + 1] = CtrlByte
  <2>1. MarkersBefore(len + 1, n)'
    BY MarkersKept
  <2>2. ASSUME NEW j \in len + 1 - n .. len + 1 PROVE sent'[j] = CtrlByte
    BY <1>1, <2>1 DEF MarkersBefore
  <2>3. len - n \in DOMAIN sent' => sent'[len - n] # CtrlByte
    BY <2>1 DEF MarkersBefore
  <2>4. len + 2 - (n + 1) = len + 1 - n /\ len + 2 - 1 = len + 1
        /\ len + 2 - (n + 1) - 1 = len - n
    OBVIOUS
  <2>5. MarkersBefore(len + 2, n + 1)'
    BY <2>2, <2>3, <2>4 DEF MarkersBefore
  <2> QED
    BY <1>1, <2>5
<1>2. CASE sent'[len + 1] # CtrlByte
  <2>1. MarkersBefore(len + 2, 0)'
    BY <1>2 DEF MarkersBefore
  <2> QED
    BY <1>2, <2>1
<1> QED
  BY <1>1, <1>2

(* A write, in either mode: the native side gets one more piece.           *)
LEMMA Written1 ==
  ASSUME TypeOK, ModeIsParity, NativeIsFirewalled, NEW b \in Written, Write(b)
  PROVE  ModeIsParity' /\ NativeIsFirewalled'
<1>1. PICK len \in Nat : len = Len(sent)
  BY DEF TypeOK
<1>2. DOMAIN sent = 1 .. len /\ sent \in Seq(Written)
  BY <1>1 DEF TypeOK
<1>3. sent' = Append(sent, b)
  BY DEF Write, WriteControl, WritePlain
<1>4. /\ sent' \in Seq(Written) /\ Len(sent') = len + 1 /\ DOMAIN sent' = 1 .. len + 1
      /\ sent'[len + 1] = b /\ \A j \in 1 .. len : sent'[j] = sent[j]
  BY <1>1, <1>2, <1>3
<1>5. PICK n \in 0 .. len : MarkersBefore(len + 1, n) /\ (controlMode <=> n % 2 = 1)
  BY <1>1 DEF ModeIsParity
<1>6. controlMode' <=> ~controlMode /\ b = CtrlByte
  BY DEF Write, WriteControl, WritePlain
<1>7. ModeIsParity'
  <2>0. PICK m \in 0 .. len + 1 : m = IF b = CtrlByte THEN n + 1 ELSE 0
    OBVIOUS
  <2>1. MarkersBefore(len + 2, m)'
    BY <1>2, <1>4, <1>5, <2>0, RunGrows
  <2>2. controlMode' <=> m % 2 = 1
    BY <1>5, <1>6, <2>0
  <2>3. Len(sent') + 1 = len + 2
    BY <1>4
  <2> QED
    BY <1>4, <2>1, <2>2, <2>3 DEF ModeIsParity
<1>8. IsCode(len + 1)' <=> controlMode
  <2>1. len + 1 \in 1 .. len + 1 /\ n \in 0 .. (len + 1) - 1
    OBVIOUS
  <2>2. IsCode(len + 1) <=> n % 2 = 1
    BY <1>2, <1>5, <2>1, CodeIsParity
  <2>3. IsCode(len + 1)' <=> IsCode(len + 1)
    BY <1>2, <1>4, <2>1, CodesKept
  <2> QED
    BY <1>5, <2>2, <2>3
<1>9. native' = Append(native, IF controlMode THEN <<>> ELSE Firewalled(b))
  BY DEF Write, WriteControl, WritePlain
<1>10. /\ native \in Seq(Seq(Byte)) /\ DOMAIN native = 1 .. len /\ Len(native) = len
       /\ \A i \in 1 .. len : native[i] = IF IsCode(i) THEN <<>> ELSE Firewalled(sent[i])
  BY <1>2 DEF NativeIsFirewalled, TypeOK
<1>11. /\ DOMAIN native' = 1 .. len + 1
       /\ native'[len + 1] = IF controlMode THEN <<>> ELSE Firewalled(b)
       /\ \A i \in 1 .. len : native'[i] = native[i]
  BY <1>9, <1>10
<1>12. ASSUME NEW i \in 1 .. len + 1
       PROVE  native'[i] = IF IsCode(i)' THEN <<>> ELSE Firewalled(sent'[i])
  <2>1. CASE i = len + 1
    BY <1>4, <1>8, <1>11, <2>1
  <2>2. CASE i # len + 1
    <3>1. i \in 1 .. len
      BY <2>2
    <3>2. IsCode(i)' <=> IsCode(i)
      BY <1>2, <1>4, CodesKept
    <3> QED
      BY <1>4, <1>10, <1>11, <3>1, <3>2, Zenon
  <2> QED
    BY <2>1, <2>2
<1>13. native' \in Seq(Seq(Byte))
  BY <1>9, <1>10, FirewallBytes
<1>14. native' = [i \in 1 .. len + 1 |-> native'[i]]
  BY <1>11, <1>13
<1>15. NativeIsFirewalled'
  BY <1>4, <1>12, <1>14 DEF NativeIsFirewalled
<1> QED
  BY <1>7, <1>15

LEMMA FirewallNext ==
  TypeOK /\ ModeIsParity /\ NativeIsFirewalled /\ [Next]_vars
    => ModeIsParity' /\ NativeIsFirewalled'
<1> SUFFICES ASSUME TypeOK, ModeIsParity, NativeIsFirewalled, [Next]_vars
             PROVE  ModeIsParity' /\ NativeIsFirewalled'
  OBVIOUS
<1>1. CASE \E b \in Written : Write(b)
  BY <1>1, Written1
<1>2. CASE ~\E b \in Written : Write(b)
  <2>1. UNCHANGED <<sent, controlMode, native>>
    BY <1>2 DEF Next, User, Program, Type, CloseInput, Resize, Read, ReadAnswer, ReadTyped,
                ReadNothing, AskPoll, device, history, vars
  <2> QED
    BY <2>1 DEF ModeIsParity, NativeIsFirewalled, MarkersBefore, IsCode
<1> QED
  BY <1>1, <1>2

-----------------------------------------------------------------------------
(* Only a read takes what a poll promised, and it ends the promise.        *)
LEMMA PromiseNext == TypeOK /\ PromiseHolds /\ [Next]_vars => PromiseHolds'
<1> SUFFICES ASSUME TypeOK, PromiseHolds, [Next]_vars PROVE PromiseHolds'
  OBVIOUS
<1> USE DEF PromiseHolds
<1>1. CASE Read
  BY <1>1 DEF Read, ReadAnswer, ReadTyped, ReadNothing, Got
<1>2. ASSUME NEW b \in Typed, Type(b) PROVE PromiseHolds'
  <2>1. UNCHANGED <<readbuffer, promised>> /\ eof = "open" /\ UNCHANGED eof
    BY <1>2 DEF Type, device, history
  <2>2. stdin \in Seq(Typed) /\ stdin' = Append(stdin, b)
    BY <1>2 DEF Type, TypeOK
  <2>3. stdin' # <<>>
    BY <2>2, AppendProperties, EmptySeq
  <2> QED
    BY <2>1, <2>3
<1>3. ASSUME NEW k \in EofKinds, CloseInput(k) PROVE PromiseHolds'
  BY <1>3 DEF CloseInput, device, history
<1>4. ASSUME NEW s \in Sizes, Resize(s) PROVE PromiseHolds'
  BY <1>4 DEF Resize, device, history
<1>5. CASE AskPoll
  BY <1>5 DEF AskPoll, Poll, NativePoll, device, outside
<1>6. ASSUME NEW b \in Written, WriteControl(b) PROVE PromiseHolds'
  <2>1. UNCHANGED <<stdin, promised, eof>>
    BY <1>6 DEF WriteControl, outside
  <2>2. readbuffer # <<>> => readbuffer' # <<>>
    <3>1. CASE readbuffer' = readbuffer \o SizeAnswer(size)
      <4>1. readbuffer \in Seq(Byte) /\ SizeAnswer(size) \in Seq(Byte)
            /\ Len(SizeAnswer(size)) = 4
        BY AnswerBytes DEF TypeOK
      <4> QED
        BY <3>1, <4>1
    <3> QED
      BY <1>6, <3>1, Answered
  <2> QED
    BY <2>1, <2>2
<1>7. ASSUME NEW b \in Written, WritePlain(b) PROVE PromiseHolds'
  BY <1>7 DEF WritePlain, outside
<1>8. CASE UNCHANGED vars
  BY <1>8 DEF vars, device, outside, history
<1> QED
  BY <1>1, <1>2, <1>3, <1>4, <1>5, <1>6, <1>7, <1>8 DEF Next, User, Program, Write

-----------------------------------------------------------------------------
LEMMA ConsoleInit == Init => ConsoleInv
<1> SUFFICES ASSUME Init PROVE ConsoleInv
  OBVIOUS
<1>1. TypeOK
  BY TypeInit
<1>2. /\ readbuffer = <<>> /\ stdin = <<>> /\ typed = <<>> /\ sent = <<>> /\ asked = <<>>
      /\ native = <<>> /\ controlMode = FALSE /\ promised = FALSE
      /\ got["user"] = <<>> /\ got["device"] = <<>>
  BY DEF Init, Source
<1>3. TypedInOrder /\ Answers = <<>>
  BY <1>2 DEF TypedInOrder, Answers
<1>4. AnswersExact
  BY <1>2, <1>3 DEF AnswersExact
<1>5. AnswersUnbroken
  BY <1>2 DEF AnswersUnbroken
<1>6. ModeIsParity /\ NativeIsFirewalled
  BY <1>2 DEF ModeIsParity, NativeIsFirewalled, MarkersBefore
<1>7. PromiseHolds
  BY <1>2 DEF PromiseHolds
<1> QED
  BY <1>1, <1>3, <1>4, <1>5, <1>6, <1>7 DEF ConsoleInv

(* The invariant of the console, for every interleaving of the user with   *)
(* the program (console.cc).                                               *)
THEOREM ConsoleInvariant == Spec => []ConsoleInv
<1>1. ConsoleInv /\ [Next]_vars => ConsoleInv'
  BY TypeNext, TypedNext, AnswersNext, UnbrokenNext, FirewallNext, PromiseNext
     DEF ConsoleInv
<1> QED
  BY <1>1, ConsoleInit, PTL DEF Spec

(* The console keeps its types (struct console_state).                     *)
THEOREM TypeCorrect == Spec => []TypeOK
<1>1. ConsoleInv => TypeOK
  BY DEF ConsoleInv
<1> QED
  BY <1>1, ConsoleInvariant, PTL

(* What is typed is read once and in its order (console_read).             *)
THEOREM InputKept == Spec => []TypedInOrder
<1>1. ConsoleInv => TypedInOrder
  BY DEF ConsoleInv
<1> QED
  BY <1>1, ConsoleInvariant, PTL

(* Every answer has the bytes of the size at the moment of the request     *)
(* (cctl_size).                                                            *)
THEOREM AnswersKept == Spec => []AnswersExact
<1>1. ConsoleInv => AnswersExact
  BY DEF ConsoleInv
<1> QED
  BY <1>1, ConsoleInvariant, PTL

(* An answer that is being read is read to its end before anything that    *)
(* was typed (console_read).                                               *)
THEOREM AnswersStayWhole == Spec => []AnswersUnbroken
<1>1. ConsoleInv => AnswersUnbroken
  BY DEF ConsoleInv
<1> QED
  BY <1>1, ConsoleInvariant, PTL

(* The terminal gets what the firewall lets through, and no control code   *)
(* (console_write).                                                        *)
THEOREM FirewallHolds == Spec => []NativeIsFirewalled
<1>1. ConsoleInv => NativeIsFirewalled
  BY DEF ConsoleInv
<1> QED
  BY <1>1, ConsoleInvariant, PTL

(* A poll that says no leaves no answer unread (console_poll).             *)
THEOREM PollIsComplete == Spec => []PollSeesAnswers
<1>1. ConsoleInv => PollSeesAnswers
  <2> SUFFICES ASSUME ConsoleInv, ~Poll PROVE Len(got["device"]) = 4 * Len(asked)
    BY DEF PollSeesAnswers
  <2>1. readbuffer = <<>> /\ got["device"] \in Seq(Byte)
    BY Streams DEF Poll, ConsoleInv
  <2>2. Answers = got["device"]
    BY <2>1 DEF Answers
  <2> QED
    BY <2>2 DEF ConsoleInv, AnswersExact
<1> QED
  BY <1>1, ConsoleInvariant, PTL

(* A poll that says yes is followed by a byte (console_poll).              *)
THEOREM PollIsSound == Spec => PolledReadIsReal
<1>1. ConsoleInv /\ [Next]_vars
        => [promised /\ eof # "file" => got'["nobody"] = got["nobody"]]_vars
  <2> SUFFICES ASSUME ConsoleInv, [Next]_vars, promised, eof # "file"
               PROVE  got'["nobody"] = got["nobody"]
    OBVIOUS
  <2>1. readbuffer # <<>> \/ stdin # <<>>
    BY DEF ConsoleInv, PromiseHolds
  <2>2. CASE ReadAnswer \/ ReadTyped
    <3>1. got \in [Source -> Seq(Byte)]
      BY DEF ConsoleInv, TypeOK
    <3> QED
      BY <2>2, <3>1 DEF ReadAnswer, ReadTyped, Got, Source
  <2>3. CASE ~Read
    BY <2>3, NoRead
  <2> QED
    BY <2>1, <2>2, <2>3 DEF Read, ReadNothing
<1> QED
  BY <1>1, ConsoleInvariant, PTL DEF Spec, PolledReadIsReal

=============================================================================
