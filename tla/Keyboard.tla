------------------------------ MODULE Keyboard ------------------------------
(***************************************************************************)
(* The PS/2 keyboard, devices/Keyboard.cc: the dialogue of init with the   *)
(* controller, and the handler that decodes the bytes of the AT scan code  *)
(* set, for some keys of every group.  The keyboard and its controller are *)
(* external: what is typed arrives as bytes in order, also in the middle   *)
(* of init, and the acknowledgements of SetLeds arrive later, between the  *)
(* keys.  kbq is a MessageQueue (see there); here only what is sent to it  *)
(* matters.  Of keys that exist twice (control, shift, alt) one is typed.  *)
(***************************************************************************)
EXTENDS Integers, Sequences, FiniteSets

CONSTANT MaxTyped   \* bound: keys pressed, released or typed during init

ASSUME KeyboardAssumption == MaxTyped \in Nat

(* Key names, as in the enumeration; characters stand for themselves.      *)
Modifier == {"RCTRL", "LSHIFT", "LALT"}
LockKey == {"CAPSLOCK", "KP_NUMLOCK"}
Physical == Modifier \cup LockKey
            \cup {"a", "1", "KP_7", "HOME", "DELETE", "KP_ENTER", "PAUSE", "PRTSCR"}

(* tableATtoXT, for the codes of these keys.                               *)
ATtoXT == [c \in {28, 22, 108, 113, 18, 20, 17, 88, 119, 124, 90} |->
  CASE c = 28 -> 30 [] c = 22 -> 2 [] c = 108 -> 71 [] c = 113 -> 83 [] c = 18 -> 42 [] c = 20 -> 29
    [] c = 17 -> 56 [] c = 88 -> 58 [] c = 119 -> 69 [] c = 124 -> 55 [] c = 90 -> 28]

(* tableXTtoKey: plain and extended meaning.                               *)
XTtoKey == [c \in {30, 2, 71, 83, 42, 29, 56, 58, 69, 55, 28} |->
  CASE c = 30 -> <<"a", "UNKNOWN">>        [] c = 2  -> <<"1", "UNKNOWN">>
    [] c = 71 -> <<"KP_7", "HOME">>        [] c = 83 -> <<"KP_DOT", "DELETE">>
    [] c = 42 -> <<"LSHIFT", "PRTSCR">>    [] c = 29 -> <<"LCTRL", "RCTRL">>
    [] c = 56 -> <<"LALT", "RALT">>        [] c = 58 -> <<"CAPSLOCK", "UNKNOWN">>
    [] c = 69 -> <<"KP_NUMLOCK", "UNKNOWN">> [] c = 55 -> <<"KP_ASTERISK", "PRTSCR">>
    [] c = 28 -> <<"ENTER", "KP_ENTER">>]

E0 == 224
E1 == 225
F0 == 240
Ack == 250
Config == 71      \* configuration byte of the controller
Passed == 85      \* answer to its self test

(* What the keyboard sends for a key (external).                           *)
Code(k) == CHOOSE c \in DOMAIN ATtoXT : \E x \in {1, 2} : XTtoKey[ATtoXT[c]][x] = k
IsExtended(k) == XTtoKey[ATtoXT[Code(k)]][2] = k
Make(k) == CASE k = "PAUSE"  -> <<E1, 20, 119, E1, F0, 20, F0, 119>>
             [] k = "PRTSCR" -> <<E0, 18, E0, 124>>
             [] OTHER        -> IF IsExtended(k) THEN <<E0, Code(k)>> ELSE <<Code(k)>>
Break(k) == CASE k = "PAUSE"  -> <<>>
              [] k = "PRTSCR" -> <<E0, F0, 124, E0, F0, 18>>
              [] OTHER        -> IF IsExtended(k) THEN <<E0, F0, Code(k)>> ELSE <<F0, Code(k)>>

VARIABLES
  wire,       \* bytes in the output buffer of controller and keyboard
  owed,       \* acknowledgements that the keyboard has not sent yet
  held,       \* keys that are held down
  locks,      \* locks as the user sees them
  typed,      \* number of events; expected: what the user means by them
  expected,
  init,       \* step of Keyboard::init, config as read and changed, disturbed
  kb,         \* is_break, shift, alt, ctrl, led, acks, extended
  sent,       \* what has been sent to kbq
  dead        \* "no", or the assertion or request that reboots

kbVars == <<wire, owed, held, locks, typed, expected, init, kb, sent, dead>>
user == <<held, locks, typed, expected>>

KbInit ==
  /\ wire \in {<<>>, <<28>>}                       \* typed before init
  /\ owed = 0 /\ held = {} /\ locks = {} /\ typed = 0 /\ expected = <<>>
  /\ init = [at |-> "enable", irq |-> TRUE, xlate |-> TRUE, registered |-> FALSE, disturbed |-> FALSE]
  /\ kb = [is_break |-> FALSE, mods |-> {}, led |-> {}, acks |-> 0, extended |-> 0]
  /\ sent = <<>> /\ dead = "no"

-----------------------------------------------------------------------------
(* Mutants.                                                                *)

BreakKept(b, key) == [b EXCEPT !.extended = 0, !.mods = IF key \in Modifier THEN @ \ {key} ELSE @]

-----------------------------------------------------------------------------
(* Keyboard::init: commands whose answer is the next byte to come.         *)

(* Enable both ports and drain what is there; ask for the configuration.   *)
InitDrain ==
  /\ init.at = "enable"
  /\ wire' = <<Config>>
  /\ init' = [init EXCEPT !.at = "config"]
  /\ UNCHANGED <<owed, user, kb, sent, dead>>

(* Interrupts and XT translation off, written back, then the self test; a  *)
(* key typed in between is taken for the configuration.                    *)
InitConfig ==
  /\ init.at = "config" /\ wire # <<>>
  /\ init' = [init EXCEPT !.at = "selftest", !.irq = FALSE, !.xlate = FALSE,
                          !.disturbed = @ \/ Head(wire) # Config]
  /\ wire' = Append(Tail(wire), Passed)
  /\ UNCHANGED <<owed, user, kb, sent, dead>>

(* An answer other than 0x55 ends init; else the keyboard port is tested.  *)
InitSelfTest ==
  /\ init.at = "selftest" /\ wire # <<>>
  /\ IF Head(wire) = Passed
     THEN wire' = Append(Tail(wire), 0) /\ init' = [init EXCEPT !.at = "test"]
     ELSE wire' = Tail(wire) /\ init' = [init EXCEPT !.at = "failed"]
  /\ UNCHANGED <<owed, user, kb, sent, dead>>

(* The result is only reported; drain; register the handler; then enable   *)
(* the interrupt.                                                          *)
InitDone ==
  /\ wire' = <<>>
  /\ init' = [init EXCEPT !.at = "ready", !.registered = TRUE, !.irq = TRUE]

InitTest ==
  /\ init.at = "test" /\ wire # <<>>
  /\ InitDone
  /\ UNCHANGED <<owed, user, kb, sent, dead>>

(* A key is touched while init runs.                                       *)
TypeEarly ==
  /\ init.at \in {"config", "selftest", "test"} /\ typed < MaxTyped
  /\ typed' = typed + 1
  /\ \/ wire' = <<28>> \o wire
     \/ wire' = Append(wire, 28)
  /\ init' = [init EXCEPT !.disturbed = TRUE]
  /\ UNCHANGED <<owed, held, locks, expected, kb, sent, dead>>

-----------------------------------------------------------------------------
(* The user, after init (external).                                        *)

Meaning(k) ==
  CASE k = "a" -> IF "LSHIFT" \in held \/ "CAPSLOCK" \in locks THEN "A"
                  ELSE IF "RCTRL" \in held THEN "^a" ELSE "a"
    [] k = "1" -> IF "LSHIFT" \in held THEN "!" ELSE "1"
    [] k = "KP_7" -> IF "KP_NUMLOCK" \in locks THEN "7" ELSE "HOME"
    [] k = "KP_ENTER" -> "ENTER"
    [] OTHER -> k

Symbols(k) ==
  IF k \in Modifier \cup LockKey THEN <<>>
  ELSE LET s == IF "LALT" \in held THEN <<"ESCAPE", Meaning(k)>> ELSE <<Meaning(k)>>
       IN  IF k = "PRTSCR" THEN s \o s ELSE s

Press(k) ==
  /\ init.at = "ready" /\ ~init.disturbed /\ typed < MaxTyped /\ k \notin held
  /\ typed' = typed + 1
  /\ wire' = wire \o Make(k)
  /\ expected' = expected \o Symbols(k)
  /\ locks' = IF k \in LockKey THEN (locks \ {k}) \cup ({k} \ locks) ELSE locks
  /\ held' = IF k = "PAUSE" THEN held ELSE held \cup {k}
  /\ UNCHANGED <<owed, init, kb, sent, dead>>

LetGo(k) ==
  /\ k \in held /\ typed < MaxTyped
  /\ typed' = typed + 1
  /\ wire' = wire \o Break(k)
  /\ held' = held \ {k}
  /\ UNCHANGED <<owed, locks, expected, init, kb, sent, dead>>

SendAck ==
  /\ owed > 0
  /\ owed' = owed - 1
  /\ wire' = Append(wire, Ack)
  /\ UNCHANGED <<user, init, kb, sent, dead>>

-----------------------------------------------------------------------------
(* irqHandlerInternal, by byte.                                            *)

(* E0 and E1 announce an extended key, an ACK answers SetLeds.             *)
Prefix(b, c) ==
  CASE c = E0  -> [b EXCEPT !.extended = 1]
    [] c = E1  -> [b EXCEPT !.extended = 2]
    [] c = Ack -> [b EXCEPT !.acks = @ - 1]
    [] c = F0  -> [b EXCEPT !.is_break = TRUE]

(* The "pause" sequence E1 14 77, and all other keys by table.             *)
Half(b, c) == b.extended = 2 /\ ATtoXT[c] = 29
KeyOf(b, c) == IF b.extended = 3 /\ ATtoXT[c] = 69 THEN "PAUSE" ELSE XTtoKey[ATtoXT[c]][b.extended + 1]

(* A key is complete: extended = 0.                                        *)
Complete(b) == [b EXCEPT !.extended = 0]

(* Break code: a modifier is released.                                     *)
Released(b, key) ==
  [Complete(b) EXCEPT !.is_break = FALSE, !.mods = IF key \in Modifier THEN @ \ {key} ELSE @]

(* Lock keys: the LEDs are set, and two acknowledgements expected.         *)
Toggle(b, key) == [b EXCEPT !.led = (@ \ {key}) \cup ({key} \ @), !.acks = @ + 2]

(* Symbol of a key, given modifiers and locks.                             *)
Shifted(b, key) ==
  CASE key = "a" -> IF "LSHIFT" \in b.mods \/ "CAPSLOCK" \in b.led THEN "A"
                    ELSE IF "RCTRL" \in b.mods THEN "^a" ELSE key
    [] key = "1" -> IF "LSHIFT" \in b.mods THEN "!" ELSE key
    [] key = "KP_7" -> IF "KP_NUMLOCK" \in b.led THEN "7" ELSE "HOME"
    [] key = "KP_DOT" -> IF "KP_NUMLOCK" \in b.led THEN "." ELSE "DELETE"
    [] key = "KP_ENTER" -> "ENTER"
    [] key = "KP_ASTERISK" -> "*"
    [] OTHER -> key

(* A make code: with alt an escape is sent first, or all is rebooted.      *)
MakeCode(b, key) ==
  IF key \in Modifier THEN kb' = [b EXCEPT !.mods = @ \cup {key}] /\ UNCHANGED <<owed, sent, dead>>
  ELSE IF key \in LockKey THEN kb' = Toggle(b, key) /\ owed' = owed + 2 /\ UNCHANGED <<sent, dead>>
  ELSE /\ kb' = b
       /\ IF {"LALT", "RCTRL"} \subseteq b.mods /\ key = "DELETE"
          THEN dead' = "ctrl+alt+del" /\ UNCHANGED sent
          ELSE sent' = sent \o (IF "LALT" \in b.mods THEN <<"ESCAPE">> ELSE <<>>) \o <<Shifted(b, key)>>
               /\ UNCHANGED dead
       /\ UNCHANGED owed

(* Assertions on the way: no prefix within a prefix, a known code.         *)
Asserts(b, c) ==
  /\ c \in {E0, E1} => b.extended = 0
  /\ c \notin {E0, E1, F0, Ack} =>
       c \in DOMAIN ATtoXT /\ (b.extended \in {0, 1} \/ Half(b, c) \/ (b.extended = 3 /\ ATtoXT[c] = 69))

HandleByte ==
  /\ init.at = "ready" /\ init.registered /\ wire # <<>> /\ dead = "no"
  /\ wire' = Tail(wire)
  /\ LET c == Head(wire) IN
       IF ~Asserts(kb, c) THEN dead' = "assertion" /\ UNCHANGED <<kb, owed, sent>>
       ELSE IF c \in {E0, E1, F0, Ack} THEN kb' = Prefix(kb, c) /\ UNCHANGED <<owed, sent, dead>>
       ELSE IF Half(kb, c) THEN kb' = [kb EXCEPT !.extended = 3] /\ UNCHANGED <<owed, sent, dead>>
       ELSE IF kb.is_break THEN kb' = Released(kb, KeyOf(kb, c)) /\ UNCHANGED <<owed, sent, dead>>
       ELSE MakeCode(Complete(kb), KeyOf(kb, c))
  /\ UNCHANGED <<user, init>>

(* Nothing is typed any more: the bound, or init gave the keyboard up.     *)
KbQuiet == (typed = MaxTyped \/ init.at = "failed" \/ init.disturbed \/ dead # "no") /\ UNCHANGED kbVars

KbNext ==
  \/ InitDrain \/ InitConfig \/ InitSelfTest \/ InitTest \/ TypeEarly
  \/ (\E k \in Physical : Press(k) \/ LetGo(k)) \/ SendAck \/ HandleByte \/ KbQuiet

KbSpec == KbInit /\ [][KbNext]_kbVars

-----------------------------------------------------------------------------
(* What is sent is what the user meant, whatever prefixes, breaks, pauses, *)
(* lock keys and late acknowledgements lie between, and no assertion of    *)
(* the handler fails (lines 461-599).                                      *)
DecodesAsMeant ==
  /\ dead # "assertion"
  /\ wire = <<>> /\ init.at = "ready" /\ dead = "no" /\ ~init.disturbed =>
       /\ sent = expected
       /\ kb.mods = held \cap Modifier /\ kb.led = locks
       /\ kb.extended = 0 /\ ~kb.is_break

(* The expected acknowledgements are those still owed or on the wire       *)
(* (lines 370-373 and 474-476), so that KCHECK0(acks > 0) holds.           *)
AcksBalanced ==
  /\ kb.acks = owed + Cardinality({i \in DOMAIN wire : wire[i] = Ack})
  /\ kb.acks >= 0

(* Unless a key was touched while it ran, init leaves the keyboard with    *)
(* its interrupt on, registered, and translation off, which the decoder    *)
(* assumes (lines 375-459).                                                *)
InitComplete ==
  /\ init.at = "failed" => init.disturbed
  /\ init.at = "ready" => init.irq /\ init.registered /\ ~init.xlate

(* From the controller to the key code that is sent: keys are decoded as   *)
(* they were meant, acknowledgements are expected as often as they come, and *)
(* init leaves the controller as the handler needs it (Keyboard.cc).       *)
KeyboardSound == DecodesAsMeant /\ AcksBalanced /\ InitComplete

=============================================================================
