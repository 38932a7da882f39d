------------------------------ MODULE Keyboard ------------------------------
(***************************************************************************)
(* The keyboard input path: the IRQ1 handler (keyboard_interrupt_handler / *)
(* process_scancode in src/drivers/keyboard/keyboard.c) fills a ring       *)
(* buffer, and the shell's main loop (shell_read_input in                  *)
(* src/kernel/kernel.c) drains it with keyboard_has_input and              *)
(* keyboard_get_char, halting with hlt when it is empty.                   *)
(*                                                                         *)
(* One CPU: the handler runs through an interrupt gate, so it is atomic    *)
(* with respect to the main loop, and it may run between any two steps of  *)
(* the main loop.  The main loop is a program counter over the steps that  *)
(* touch shared state.  buffer_count-- is a plain int decrement: the build *)
(* may emit one read-modify-write instruction or a load and a store, a     *)
(* choice the model leaves open (Builds).  Only IRQ1 is unmasked (pic_init *)
(* writes 0xFD), so hlt ends only at the next scancode: a key's press or   *)
(* its release.  A release follows a press: Shift's is tracked by shift,  *)
(* the others by how many keys are held (held), since their release       *)
(* changes nothing but the CPU's halt.  The window between keyboard_has_input and hlt is a    *)
(* few instructions, while two scancodes arrive at least a PS/2 byte time  *)
(* apart, so at most one IRQ1 lands in it (pc "hltLate").                  *)
(*                                                                         *)
(* The shell side also keeps shell_read_input's line: Enter submits it,    *)
(* Backspace erases, printable characters are appended, and a line of      *)
(* MAX_COMMAND_LENGTH - 1 characters is submitted without an Enter.  The   *)
(* submitted lines are what shell_execute_command splits into arguments.   *)
(***************************************************************************)
EXTENDS Integers, Sequences, SequencesExt, Bags

CONSTANTS
  BufferSize,   \* INPUT_BUFFER_SIZE
  Keys,         \* key codes the user can press (scancode & ~KEY_RELEASED)
  ScancodeMap,  \* scancode_map restricted to Keys ("" for no character)
  ShiftMap,     \* shift_map restricted to Keys
  MaxKeys,      \* bound on the characters the driver accepts
  Builds,       \* code the compiler may emit for buffer_count--
  MaxLength,    \* MAX_COMMAND_LENGTH (kernel.c)
  MaxArgs,      \* MAX_ARGS (kernel.c)
  MaxHeld       \* bound on the keys besides Shift held down at once

KEY_ENTER == "ENTER"
KEY_BACKSPACE == "BACKSPACE"
KEY_LSHIFT == "LSHIFT"
KEY_CAPS_LOCK == "CAPS"
KEY_ESC == "ESC"
NUL == ""
NL == "<newline>"     \* '\n'
BS == "<backspace>"   \* '\b'
SP == " "
TAB == "<tab>"        \* '\t'
(* The separators of shell_execute_command.                               *)
Blank == {SP, TAB}
(* The letters of the modelled keys, and what caps lock turns them into.  *)
Lower == {"a"}
Upper == {"A"}
Flip == [c \in Lower \cup Upper |-> IF c \in Lower THEN "A" ELSE "a"]

VARIABLES
  buf, head, tail, count,   \* input_buffer, buffer_head/tail/count
  shift, caps,              \* keyboard_state.shift_pressed, caps_lock
  pc, ch, reg,              \* the main loop: position, read char, register
  build,                    \* the code emitted for buffer_count--
  accepted, got,            \* characters queued by the driver / read by the shell
  line, lines,              \* shell_read_input's buffer / the lines it returned
  held                      \* keys other than Shift pressed and not released

vars == <<buf, head, tail, count, shift, caps, pc, ch, reg, build, accepted, got,
          line, lines, held>>

(* is_special_key *)
IsSpecialKey(k) == k \in {KEY_ESC, KEY_CAPS_LOCK, KEY_LSHIFT}

(* scancode_to_char: the shift table or the plain one, then caps lock     *)
(* inverts the case of a letter.                                          *)
ScancodeToChar(k, sh, cl) ==
  IF IsSpecialKey(k) THEN NUL
  ELSE LET c == IF sh THEN ShiftMap[k] ELSE ScancodeMap[k]
       IN IF cl /\ c \in Lower \cup Upper THEN Flip[c] ELSE c

(* keyboard_init, before sti: everything zero.                            *)
Init ==
  /\ buf = [i \in 0..(BufferSize - 1) |-> NUL]
  /\ head = 0 /\ tail = 0 /\ count = 0
  /\ shift = FALSE /\ caps = FALSE
  /\ pc = "check" /\ ch = NUL /\ reg = 0
  /\ build \in Builds
  /\ accepted = <<>> /\ got = <<>>
  /\ line = <<>> /\ lines = <<>>
  /\ held = 0

(* Mutant: the full-buffer check is left out, so a key overwrites the    *)
(* oldest unread one and buffer_count passes INPUT_BUFFER_SIZE.           *)
EnqueueNoFullCheck(c) ==
  /\ Len(accepted) < MaxKeys
  /\ buf' = [buf EXCEPT ![tail] = c]
  /\ tail' = (tail + 1) % BufferSize
  /\ count' = count + 1
  /\ accepted' = Append(accepted, c)

(* The enqueue shared by Enter, Backspace and printable keys.             *)
Enqueue(c) ==
  IF count < BufferSize
  THEN /\ Len(accepted) < MaxKeys
       /\ buf' = [buf EXCEPT ![tail] = c]
       /\ tail' = (tail + 1) % BufferSize
       /\ count' = count + 1
       /\ accepted' = Append(accepted, c)
  ELSE UNCHANGED <<buf, tail, count, accepted>>

(* What the keyboard sends: a key is released only while held, and a     *)
(* press is a key going down or the typematic repeat of one held.         *)
KeyHeld(k, released) ==
  IF k = KEY_LSHIFT THEN (released => shift) /\ UNCHANGED held
  ELSE IF released THEN held > 0 /\ held' = held - 1
  ELSE \/ held < MaxHeld /\ held' = held + 1
       \/ held > 0 /\ held' = held

(* keyboard_handler -> process_scancode for key k pressed or released.    *)
(* A halted CPU resumes after the hlt; a handler that runs before the hlt *)
(* returns to the hlt itself.                                             *)
KeyboardIrq(k, released) ==
  /\ pc # "hltLate"
  /\ KeyHeld(k, released)
  /\ \/ /\ k = KEY_LSHIFT
        /\ shift' = ~released
        /\ UNCHANGED <<caps, buf, tail, count, accepted>>
     \/ /\ k = KEY_CAPS_LOCK
        /\ caps' = IF released THEN caps ELSE ~caps
        /\ UNCHANGED <<shift, buf, tail, count, accepted>>
     \/ /\ k \in {KEY_ENTER, KEY_BACKSPACE}
        /\ IF released THEN UNCHANGED <<buf, tail, count, accepted>>
           ELSE Enqueue(IF k = KEY_ENTER THEN NL ELSE BS)
        /\ UNCHANGED <<shift, caps>>
     \/ /\ k \notin {KEY_LSHIFT, KEY_CAPS_LOCK, KEY_ENTER, KEY_BACKSPACE}
        /\ LET c == ScancodeToChar(k, shift, caps)
           IN IF released \/ c = NUL THEN UNCHANGED <<buf, tail, count, accepted>>
              ELSE Enqueue(c)
        /\ UNCHANGED <<shift, caps>>
  /\ pc' = CASE pc = "halted" -> "check"
             [] pc = "hlt"    -> "hltLate"
             [] OTHER         -> pc
  /\ UNCHANGED <<head, ch, reg, build, got, line, lines>>

(* Mutant: the loop runs while pos < max_length, one character too long. *)
LineOpenLate == Len(line) < MaxLength

(* The condition of shell_read_input's loop, pos < max_length - 1.        *)
LineOpen == Len(line) < MaxLength - 1

(* The characters 32..126: all modelled characters but the control ones.  *)
IsPrintable(c) == c \notin {NUL, NL, BS, TAB}

(* shell_read_input's branches on the character read: Enter ends the line *)
(* (break), Backspace erases the last character if any, a printable one  *)
(* is appended, anything else is ignored.                                 *)
ShellTakesChar(c) ==
  /\ got' = Append(got, c)
  /\ IF c = NL
     THEN lines' = Append(lines, line) /\ line' = <<>>
     ELSE /\ line' = CASE c = BS /\ line # <<>> -> Front(line)
                        [] IsPrintable(c)        -> Append(line, c)
                        [] OTHER                 -> line
          /\ UNCHANGED lines

(* A full line ends the loop: shell_read_input returns it unterminated by *)
(* Enter, and the next call starts an empty line.                         *)
LineFull ==
  /\ pc = "check"
  /\ ~LineOpen
  /\ lines' = Append(lines, line)
  /\ line' = <<>>
  /\ UNCHANGED <<buf, head, tail, count, shift, caps, pc, ch, reg, build, accepted, got, held>>

(* Mutant: keyboard_has_input tests buffer_count > 1.                     *)
HasInputOffByOne ==
  /\ pc = "check"
  /\ LineOpen
  /\ pc' = IF count > 1 THEN "get" ELSE "hlt"
  /\ UNCHANGED <<buf, head, tail, count, shift, caps, ch, reg, build, accepted, got, line, lines, held>>

(* shell_read_input: keyboard_has_input, then keyboard_get_char or hlt.   *)
HasInput ==
  /\ pc = "check"
  /\ LineOpen
  /\ pc' = IF count > 0 THEN "get" ELSE "hlt"
  /\ UNCHANGED <<buf, head, tail, count, shift, caps, ch, reg, build, accepted, got, line, lines, held>>

(* Mutant: buffer_head is not advanced after the read.                    *)
GetCharNoAdvance ==
  /\ pc = "get"
  /\ IF count = 0
     THEN pc' = "check" /\ UNCHANGED <<head, ch>>
     ELSE /\ ch' = buf[head]
          /\ head' = head
          /\ pc' = IF build = "rmw" THEN "dec" ELSE "load"
  /\ UNCHANGED <<buf, tail, count, shift, caps, reg, build, accepted, got, line, lines, held>>

(* keyboard_get_char: an empty buffer returns 0, which the shell ignores; *)
(* otherwise read the head slot and advance head.                         *)
GetChar ==
  /\ pc = "get"
  /\ IF count = 0
     THEN pc' = "check" /\ UNCHANGED <<head, ch>>
     ELSE /\ ch' = buf[head]
          /\ head' = (head + 1) % BufferSize
          /\ pc' = IF build = "rmw" THEN "dec" ELSE "load"
  /\ UNCHANGED <<buf, tail, count, shift, caps, reg, build, accepted, got, line, lines, held>>

(* buffer_count-- as one instruction; the shell then takes the char.      *)
Decrement ==
  /\ pc = "dec"
  /\ count' = count - 1
  /\ ShellTakesChar(ch)
  /\ pc' = "check"
  /\ UNCHANGED <<buf, head, tail, shift, caps, ch, reg, build, accepted, held>>

(* buffer_count-- as a load into a register ...                           *)
DecLoad ==
  /\ pc = "load"
  /\ reg' = count
  /\ pc' = "store"
  /\ UNCHANGED <<buf, head, tail, count, shift, caps, ch, build, accepted, got,
                 line, lines, held>>

DecStore ==
  /\ pc = "store"
  /\ count' = reg - 1
  /\ ShellTakesChar(ch)
  /\ pc' = "check"
  /\ UNCHANGED <<buf, head, tail, shift, caps, ch, reg, build, accepted, held>>

(* The hlt instruction: the CPU stops until the next interrupt.           *)
Halt ==
  /\ pc \in {"hlt", "hltLate"}
  /\ pc' = "halted"
  /\ UNCHANGED <<buf, head, tail, count, shift, caps, ch, reg, build, accepted, got, line, lines, held>>

MainStep == HasInput \/ LineFull \/ GetChar \/ Decrement \/ DecLoad \/ DecStore \/ Halt

Next ==
  \/ \E k \in Keys, released \in BOOLEAN : KeyboardIrq(k, released)
  \/ MainStep

Spec == Init /\ [][Next]_vars

(* The CPU keeps executing the main loop whenever it is not halted.  Key *)
(* presses come from the user and are not assumed, but a key held down is *)
(* eventually let go, and the keyboard then sends its break code.          *)
FairSpec ==
  /\ Spec
  /\ WF_vars(MainStep)
  /\ \A k \in Keys : WF_vars(KeyboardIrq(k, TRUE))

-----------------------------------------------------------------------------
(* shell_execute_command's inner loop: the bytes up to the next blank,   *)
(* at most MAX_COMMAND_LENGTH - 1 of them (the size of args[argc]).      *)
TokenLen(s) ==
  LET ends == {i \in 1..Len(s) : s[i] \in Blank}
      n == IF ends = {} THEN Len(s) ELSE Min(ends) - 1
  IN IF n > MaxLength - 1 THEN MaxLength - 1 ELSE n

(* Its outer loop: skip blanks, copy one argument, while argc < MAX_ARGS. *)
RECURSIVE ParseFrom(_, _)
ParseFrom(s, args) ==
  IF s = <<>> \/ Len(args) >= MaxArgs THEN args
  ELSE IF Head(s) \in Blank THEN ParseFrom(Tail(s), args)
  ELSE ParseFrom(SubSeq(s, TokenLen(s) + 1, Len(s)),
                 Append(args, SubSeq(s, 1, TokenLen(s))))

(* The argv a line is executed with; an empty or blank line gives argc 0 *)
(* and only a new prompt.                                                 *)
ParseArgs(l) == ParseFrom(l, <<>>)

(* Reference: the maximal runs of non-blank characters of l, in order.   *)
Words(l) ==
  LET starts == {i \in 1..Len(l) : l[i] \notin Blank /\ (i = 1 \/ l[i - 1] \in Blank)}
      EndOf(a) == CHOOSE b \in a..Len(l) :
                    /\ \A k \in a..b : l[k] \notin Blank
                    /\ b = Len(l) \/ l[b + 1] \in Blank
  IN [k \in 1..Cardinality(starts) |->
        LET a == SetToSortSeq(starts, <)[k] IN SubSeq(l, a, EndOf(a))]

Chars == {NUL, NL, BS} \cup Lower \cup Upper \cup {ScancodeMap[k] : k \in Keys}
          \cup {ShiftMap[k] : k \in Keys}

TypeOK ==
  /\ buf \in [0..(BufferSize - 1) -> Chars]
  /\ {head, tail} \subseteq 0..(BufferSize - 1)
  /\ count \in 0..BufferSize
  /\ pc \in {"check", "get", "dec", "load", "store", "hlt", "hltLate", "halted"}
  /\ held \in 0..MaxHeld
  /\ build \in Builds
  /\ line \in Seq(Chars)

(* With a build that emits buffer_count-- as one instruction, which an   *)
(* interrupt cannot split, the shell reads exactly the characters the     *)
(* driver queued, in order, none lost or repeated, however the IRQ        *)
(* handler interleaves with keyboard_get_char.                            *)
AtomicBuildKeepsKeys == build = "rmw" => IsPrefix(got, accepted)

EveryKeyRead ==
  build = "rmw" => \A n \in 1..MaxKeys : Len(accepted) >= n ~> Len(got) >= n

(* Every line shell_read_input returns, ended by Enter or cut at its      *)
(* MAX_COMMAND_LENGTH - 1 cap, is executed as exactly its first MAX_ARGS  *)
(* blank-separated words, none split or cut short: the read cap must keep *)
(* every word within the MAX_COMMAND_LENGTH - 1 bytes shell_execute_command *)
(* copies into one argument, or the rest of the word becomes an argument  *)
(* of its own.                                                            *)
ArgsAreWords ==
  \A i \in 1..Len(lines) :
    LET w == Words(lines[i]) IN
    ParseArgs(lines[i]) = SubSeq(w, 1, IF Len(w) > MaxArgs THEN MaxArgs ELSE Len(w))
=============================================================================
