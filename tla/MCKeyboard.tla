----------------------------- MODULE MCKeyboard -----------------------------
(* Model-checking instance of Keyboard.                                     *)
EXTENDS Keyboard, TLC

(* A 256-byte ring scaled to 2 slots, so wrap-around and a full buffer     *)
(* are reached within a few keys.                                          *)
MCBufferSize == 2
(* A letter, the space bar, Shift, Caps Lock, Enter and Esc (special: no *)
(* char).                                                                   *)
MCKeys == {"KA", "KSPACE", "LSHIFT", "CAPS", "ENTER", "ESC"}
(* The rows of scancode_map and shift_map for those keys.                  *)
MCScancodeMap == ("KA" :> "a") @@ ("KSPACE" :> " ") @@ ("LSHIFT" :> "") @@
                 ("CAPS" :> "") @@ ("ENTER" :> "") @@ ("ESC" :> "")
MCShiftMap == ("KA" :> "A") @@ ("KSPACE" :> " ") @@ ("LSHIFT" :> "") @@
              ("CAPS" :> "") @@ ("ENTER" :> "") @@ ("ESC" :> "")
(* Enough characters to wrap the ring twice.                               *)
MCMaxKeys == 4
(* A one-instruction decrement, and a load/store pair.                     *)
MCBuilds == {"rmw", "loadstore"}
(* MAX_COMMAND_LENGTH 64 scaled to 4: a line holds 3 characters, so four  *)
(* keys fill it and go on into the next line.  MAX_ARGS 8 scaled to 1, so *)
(* a line of two words has one dropped, as 32 words of a 63-character     *)
(* line have 24 dropped.                                                   *)
MCMaxLength == 4
MCMaxArgs == 1
(* Two keys down at once besides Shift: one key pressed before the last   *)
(* is let go.                                                              *)
MCMaxHeld == 2
=============================================================================
