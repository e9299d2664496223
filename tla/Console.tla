------------------------------- MODULE Console -------------------------------
(***************************************************************************)
(* The console device of the irid emulator (emul/src/console.cc): the      *)
(* program reads and writes it one byte at a time, the user types on the   *)
(* native side and may resize or close the terminal at any moment.  A      *)
(* marker byte followed by a control code asks the device for data, which  *)
(* it queues in front of what the user typed.                              *)
(*                                                                         *)
(* The program is any sequence of reads, writes and polls.                 *)
(***************************************************************************)
EXTENDS Integers, Sequences

CONSTANTS
  Typed,        (* bytes the user types                                    *)
  Written,      (* bytes the program writes                                *)
  Sizes,        (* sizes of the terminal, <<columns, rows>>                *)
  EofKinds,     (* what an input at its end shows to poll(2): "file" for a *)
                (* file or a terminal, "pipe" for a pipe that was closed   *)
  MaxTyped,     (* bound: bytes typed                                      *)
  MaxAsked,     (* bound: control requests served                          *)
  MaxSteps      (* bound: reads and writes of the program                  *)

Byte == 0 .. 255
Word == 0 .. 65535

ASSUME ConsoleAssumption ==
  /\ Typed \subseteq Byte /\ Written \subseteq Byte
  /\ Sizes \subseteq Word \X Word
  /\ EofKinds \subseteq {"file", "pipe"}
  /\ MaxTyped \in Nat /\ MaxAsked \in Nat /\ MaxSteps \in Nat

VARIABLES
  controlMode,  (* console_state.control_mode                              *)
  readbuffer,   (* console_state.readbuffer                                *)
  stdin,        (* bytes typed and not yet read from the native side       *)
  eof,          (* "open", or how the end of the input shows               *)
  size,         (* the size of the terminal                                *)
  native,       (* what the native side was sent, write by write           *)
  typed,        (* history: all that was typed                             *)
  sent,         (* history: the bytes the program wrote                    *)
  asked,        (* history: the sizes the control requests found           *)
  got,          (* history: the bytes the program read, by their source    *)
  from,         (* history: the source of the last byte it read            *)
  promised,     (* history: a poll said yes and no read came since         *)
  steps         (* how many reads and writes the program made              *)

device == <<controlMode, readbuffer, native>>
outside == <<stdin, eof, size, typed>>
history == <<sent, asked, got, from, promised, steps>>
vars == <<device, outside, history>>

-----------------------------------------------------------------------------
(* isprint in the C locale, and the blanks console_write adds to it.       *)
Passed == 32 .. 126 \cup {10, 13, 127, 9}

Source == {"device", "user", "nobody"}

FormFeed  == 12
CtrlByte  == 17        \* CONSOLE_CTRL
CctlSize  == 1         \* CCTL_SIZE

(* The escape sequence "ESC [ 2 J ESC [ 1 ; 1 H".                          *)
ClearScreen == <<27, 91, 50, 74, 27, 91, 49, 59, 49, 72>>

(* What the native side is sent for a byte that is no control code: a byte *)
(* the firewall passes, a whole escape sequence, or nothing.               *)
Firewalled(b) ==
  IF b \in Passed THEN <<b>> ELSE IF b = FormFeed THEN ClearScreen ELSE <<>>

(* Mutant of queue_write_word: the high byte goes first.                   *)
WordBytesBigEndian(w) == <<w \div 256, w % 256>>

(* Mutant of queue_write_word: the low byte is not masked.                 *)
WordBytesUnmasked(w) == <<w, w \div 256>>

(* queue_write_word: the low byte goes first.                              *)
WordBytes(w) == <<w % 256, w \div 256>>

(* cctl_size queues the columns, then the rows.                            *)
SizeAnswer(s) == WordBytes(s[1]) \o WordBytes(s[2])

(* Mutant of NativePoll: any event counts, the hangup of a pipe too.       *)
NativePollAnyEvent == stdin # <<>> \/ eof # "open"

(* poll(2) with POLLIN: at the end of a file the input is "readable"; a    *)
(* closed pipe shows POLLHUP alone, which console_poll masks out.          *)
NativePoll == stdin # <<>> \/ eof = "file"

(* Mutant of Poll: the device forgets its own buffer.                      *)
PollNativeOnly == NativePoll

(* console_poll.                                                           *)
Poll == readbuffer # <<>> \/ NativePoll

-----------------------------------------------------------------------------
Init ==
  /\ controlMode = FALSE
  /\ readbuffer  = <<>>
  /\ stdin = <<>> /\ eof = "open" /\ size \in Sizes
  /\ native = <<>>
  /\ typed = <<>> /\ sent = <<>> /\ asked = <<>> /\ promised = FALSE
  /\ got = [source \in Source |-> <<>>] /\ from = "nobody"
  /\ steps = 0

(* The user.                                                               *)
Type(b) ==
  /\ eof = "open" /\ Len(typed) < MaxTyped
  /\ stdin' = Append(stdin, b)
  /\ typed' = Append(typed, b)
  /\ UNCHANGED <<device, history, eof, size>>

CloseInput(kind) ==
  /\ eof = "open"
  /\ eof' = kind
  /\ UNCHANGED <<device, history, stdin, size, typed>>

Resize(s) ==
  /\ s # size
  /\ size' = s
  /\ UNCHANGED <<device, history, stdin, eof, typed>>

-----------------------------------------------------------------------------
(* The program.  One step of it is bounded by MaxSteps.                    *)
ProgramStep ==
  /\ steps < MaxSteps
  /\ steps' = steps + 1

Got(source, byte) ==
  /\ got' = [got EXCEPT ![source] = Append(@, byte)]
  /\ from' = source
  /\ promised' = FALSE

(* Mutant of ReadAnswer: a typed byte is taken and dropped.                *)
ReadAnswerSwallows ==
  /\ ProgramStep
  /\ readbuffer # <<>>
  /\ Got("device", Head(readbuffer))
  /\ readbuffer' = Tail(readbuffer)
  /\ stdin' = IF stdin = <<>> THEN stdin ELSE Tail(stdin)
  /\ UNCHANGED <<eof, size, typed, controlMode, native, sent, asked>>

(* console_read: an answer that waits goes before what the user typed.     *)
ReadAnswer ==
  /\ ProgramStep
  /\ readbuffer # <<>>
  /\ Got("device", Head(readbuffer))
  /\ readbuffer' = Tail(readbuffer)
  /\ UNCHANGED <<outside, controlMode, native, sent, asked>>

(* Mutant of ReadTyped: the device reads the native side first.            *)
ReadTypedFirst ==
  /\ ProgramStep
  /\ stdin # <<>>
  /\ Got("user", Head(stdin))
  /\ stdin' = Tail(stdin)
  /\ UNCHANGED <<device, eof, size, typed, sent, asked>>

ReadTyped ==
  /\ ProgramStep
  /\ readbuffer = <<>> /\ stdin # <<>>
  /\ Got("user", Head(stdin))
  /\ stdin' = Tail(stdin)
  /\ UNCHANGED <<device, eof, size, typed, sent, asked>>

(* Nothing to read, or the end of the input: a 0.                          *)
ReadNothing ==
  /\ ProgramStep
  /\ readbuffer = <<>> /\ stdin = <<>>
  /\ Got("nobody", 0)
  /\ UNCHANGED <<device, outside, sent, asked>>

Read == ReadAnswer \/ ReadTyped \/ ReadNothing

AskPoll ==
  /\ promised' = Poll
  /\ UNCHANGED <<device, outside, sent, asked, got, from, steps>>

(* Mutant of WriteControl: the device stays in control mode.               *)
WriteControlSticky(b) ==
  /\ ProgramStep
  /\ sent' = Append(sent, b)
  /\ controlMode
  /\ b = CctlSize => Len(asked) < MaxAsked
  /\ IF b = CctlSize
       THEN /\ readbuffer' = readbuffer \o SizeAnswer(size)
            /\ asked' = Append(asked, size)
       ELSE UNCHANGED <<readbuffer, asked>>
  /\ native' = Append(native, <<>>)
  /\ UNCHANGED <<outside, controlMode, got, from, promised>>

(* console_write in control mode: the byte is a code, known or not.  A     *)
(* terminal that is not one has the size <<0, 0>>.                         *)
WriteControl(b) ==
  /\ ProgramStep
  /\ sent' = Append(sent, b)
  /\ controlMode
  /\ b = CctlSize => Len(asked) < MaxAsked
  /\ controlMode' = FALSE
  /\ IF b = CctlSize
       THEN /\ readbuffer' = readbuffer \o SizeAnswer(size)
            /\ asked' = Append(asked, size)
       ELSE UNCHANGED <<readbuffer, asked>>
  /\ native' = Append(native, <<>>)
  /\ UNCHANGED <<outside, got, from, promised>>

(* console_write otherwise: the firewall, the clear-screen command and the *)
(* marker; every other byte is dropped.                                    *)
WritePlain(b) ==
  /\ ProgramStep
  /\ sent' = Append(sent, b)
  /\ ~controlMode
  /\ controlMode' = (b = CtrlByte)
  /\ native' = Append(native, Firewalled(b))
  /\ UNCHANGED <<outside, readbuffer, asked, got, from, promised>>

Write(b) == WriteControl(b) \/ WritePlain(b)

-----------------------------------------------------------------------------
User ==
  \/ \E b \in Typed : Type(b)
  \/ \E k \in EofKinds : CloseInput(k)
  \/ \E s \in Sizes : Resize(s)

Program == Read \/ AskPoll \/ \E b \in Written : Write(b)

Next == User \/ Program

Spec == Init /\ [][Next]_vars

-----------------------------------------------------------------------------
TypeOK ==
  /\ controlMode \in BOOLEAN
  /\ readbuffer \in Seq(Byte)
  /\ stdin \in Seq(Typed) /\ typed \in Seq(Typed)
  /\ eof \in {"open"} \cup EofKinds
  /\ size \in Sizes /\ asked \in Seq(Sizes)
  /\ native \in Seq(Seq(Byte)) /\ sent \in Seq(Written)
  /\ got \in [Source -> Seq(Byte)] /\ from \in Source
  /\ promised \in BOOLEAN
  /\ steps \in 0 .. MaxSteps

(* Nothing the user types is lost, repeated or reordered by the answers    *)
(* the device puts in front of it (console_read).                          *)
TypedInOrder == typed = got["user"] \o stdin

(* What the device answered, read or not.                                  *)
Answers == got["device"] \o readbuffer

(* Every answer is the size the terminal had when the code was written,    *)
(* low byte first, in the order of the requests (cctl_size).               *)
AnswersExact ==
  /\ Len(Answers) = 4 * Len(asked)
  /\ \A k \in DOMAIN asked :
       /\ Answers[4 * k - 3] = asked[k][1] % 256
       /\ Answers[4 * k - 2] = asked[k][1] \div 256
       /\ Answers[4 * k - 1] = asked[k][2] % 256
       /\ Answers[4 * k]     = asked[k][2] \div 256

(* Once its first byte was read, an answer is read to its end before       *)
(* anything else: the program never finds a typed byte in the middle.      *)
AnswersUnbroken == Len(got["device"]) % 4 # 0 => from = "device"

(* Byte i of what the program wrote has n markers right before it.         *)
MarkersBefore(i, n) ==
  /\ \A j \in i - n .. i - 1 : sent[j] = CtrlByte
  /\ i - n - 1 \in DOMAIN sent => sent[i - n - 1] # CtrlByte

IsCode(i) == \E n \in 1 .. i - 1 : n % 2 = 1 /\ MarkersBefore(i, n)

(* "Writing to the console will only let printable characters through to   *)
(* the console, while firewalling escape & control codes" (console.cc:109):*)
(* the native side gets the bytes the program wrote, in order, minus what  *)
(* the firewall drops and minus the control codes, where a byte is a code  *)
(* iff an odd run of markers precedes it, and a clear-screen sequence for  *)
(* a form feed (console_write).  The manual promises more: WrittenAtOnce.  *)
NativeIsFirewalled ==
  native = [i \in DOMAIN sent |-> IF IsCode(i) THEN <<>> ELSE Firewalled(sent[i])]

(* "Writing a single byte to the device will immediately transfer it to    *)
(* the native device, unless the byte is 17d / 11h" (doc/devices/console): *)
(* each byte that is neither a marker nor a control code arrives as it is. *)
(* The firewall of console_write drops some and replaces the form feed.    *)
WrittenAtOnce ==
  native = [i \in DOMAIN sent |->
              IF IsCode(i) \/ sent[i] = CtrlByte THEN <<>> ELSE <<sent[i]>>]

(* A read that follows a poll that said yes gives a byte of the user or of *)
(* the device: "Poll a device if it has any data to read" (doc/arch).  Not *)
(* at the end of a file or of a terminal, which poll(2) calls readable     *)
(* although it has no data.                                                *)
PolledReadIsReal ==
  [][promised /\ eof # "file" => got'["nobody"] = got["nobody"]]_vars

(* An answer can be waited for with poll: a program that is told there is  *)
(* no data has read all its answers (console_poll).                        *)
PollSeesAnswers == ~Poll => Len(got["device"]) = 4 * Len(asked)

=============================================================================
