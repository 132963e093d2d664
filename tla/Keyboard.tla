-------------------------------- MODULE Keyboard --------------------------------
(****************************************************************************)
(* keyboard_handler of src/kernel/drivers/ps2.c: how the bytes the keyboard *)
(* sends become characters, with shift, caps lock and the prefix of the     *)
(* extended keys, against what somebody types on the keys.                  *)
(*                                                                          *)
(* The keyboard sends a byte for a key that is pressed, repeats or is       *)
(* released, preceded by a prefix if the key is an extended one.  Some      *)
(* extended keys share their code with another key, and around them the     *)
(* keyboard may send the code of the left shift, prefixed, to undo the      *)
(* effect of shift or num lock.                                             *)
(****************************************************************************)
EXTENDS Integers, SequencesExt

CONSTANTS
    Letters,    \* codes of letters
    Symbols,    \* codes of keys with a character that is no letter
    Silent,     \* codes of keys with none
    MaxEvents   \* bound: keys pressed, repeated or released

Shifts == {"lshift", "rshift"}
Arrows == {"up", "down"}

\* A key has one code, and one of the kinds above.
ASSUME KeyboardAssumption ==
    /\ MaxEvents \in Nat
    /\ Letters \cap (Symbols \cup Silent) = {} /\ Symbols \cap Silent = {}
    /\ (Letters \cup Symbols \cup Silent) \cap (Shifts \cup Arrows \cup {"caps"}) = {}

VARIABLES
    down,               \* the keys that are held down, the last pressed at the end
    wire,               \* the bytes on their way to the handler
    extended_prefix,
    shift_held,
    capslock_on,
    typed,              \* what the handler has pushed
    meant,              \* what was typed: the characters the keys stand for
    caps,               \* caps lock as somebody has set it
    untidy,             \* two shift keys were down together, or caps lock repeated
    events

handler  == <<extended_prefix, shift_held, capslock_on, typed>>
keyboard == <<down, meant, caps, untidy, events>>
vars     == <<keyboard, wire, handler>>

Codes == Letters \cup Symbols \cup Silent \cup Shifts \cup Arrows \cup {"caps"}

\* Extended keys: the arrows, which have the codes of keys of the number pad, and
\* the keys of the number pad that have the codes of others.
Keys == [code : Codes, extended : {FALSE}] \cup [code : Arrows \cup Symbols, extended : {TRUE}]

Prefix == [prefix |-> TRUE]
Byte(code, release) == [prefix |-> FALSE, code |-> code, release |-> release]

Char(code, upper) == [code |-> code, upper |-> upper]

Held == {down[i] : i \in DOMAIN down}
ShiftsHeld == {key \in Held : key.code \in Shifts}

--------------------------------------------------------------------------------
\* The keyboard.

Sent(key, release) ==
    IF key.extended THEN <<Prefix, Byte(key.code, release)>>
                    ELSE <<Byte(key.code, release)>>

\* What may come before an extended key.
Undo(key) ==
    {<<>>} \cup
    IF key.extended THEN {<<Prefix, Byte("lshift", release)>> : release \in BOOLEAN}
                    ELSE {}

\* What the key stands for.  The keys of the number pad stand for nothing: of the
\* extended keys the handler knows only the arrows (ps2.c:44).
Meant(key) ==
    LET shift == ShiftsHeld # {}
    IN  IF key.extended
          THEN IF key.code \in Arrows THEN <<Char(key.code, FALSE)>> ELSE <<>>
        ELSE IF key.code \in Letters THEN <<Char(key.code, shift # caps)>>
        ELSE IF key.code \in Symbols THEN <<Char(key.code, shift)>>
        ELSE <<>>

Sends(key, release) ==
    /\ events < MaxEvents
    /\ events' = events + 1
    /\ \E undo \in Undo(key) : wire' = wire \o undo \o Sent(key, release)

Press(key) ==
    /\ key \notin Held
    /\ Sends(key, FALSE)
    /\ down' = Append(down, key)
    /\ meant' = meant \o Meant(key)
    /\ caps' = IF key.code = "caps" THEN ~caps ELSE caps
    /\ untidy' = (untidy \/ (key.code \in Shifts /\ ShiftsHeld # {}))
    /\ UNCHANGED handler

\* The key pressed last repeats while it is down.
Repeat ==
    /\ down # <<>>
    /\ LET key == down[Len(down)]
       IN  /\ Sends(key, FALSE)
           /\ meant' = meant \o Meant(key)
           /\ untidy' = (untidy \/ key.code = "caps")
    /\ UNCHANGED <<handler, down, caps>>

Release(key) ==
    /\ \E i \in DOMAIN down : down[i] = key /\ down' = RemoveAt(down, i)
    /\ Sends(key, TRUE)
    /\ UNCHANGED <<handler, meant, caps, untidy>>

--------------------------------------------------------------------------------
\* The handler, which runs once for each byte.

\* scancode_to_ascii has a character for the code.
HasCharacter(code) == code \in Letters \cup Symbols

\* Caps lock and shift cancel each other out for letters; other keys have shift.
Shifted(code) ==
    IF code \in Letters THEN shift_held # capslock_on ELSE shift_held

\* What is pushed into the ring: an arrow, a character, or nothing.
Pushed(byte, extended) ==
    IF byte.release THEN <<>>
    ELSE IF extended
      THEN IF byte.code \in Arrows THEN <<Char(byte.code, FALSE)>> ELSE <<>>
    ELSE IF HasCharacter(byte.code) THEN <<Char(byte.code, Shifted(byte.code))>>
    ELSE <<>>

\* Mutant: the code of a shift key counts although it is prefixed.
IsShiftAnyhow(code, extended) == code \in Shifts

IsShift(code, extended) == ~extended /\ code \in Shifts

\* Mutant: the prefix is not forgotten when the key is released.
PrefixAfterKept(byte) ==
    IF byte.prefix THEN TRUE ELSE extended_prefix /\ byte.release

PrefixAfter(byte) == byte.prefix

keyboard_handler ==
    /\ wire # <<>>
    /\ LET byte     == Head(wire)
           extended == extended_prefix
       IN  /\ extended_prefix' = PrefixAfter(byte)
           /\ IF byte.prefix
                THEN UNCHANGED <<shift_held, capslock_on, typed>>
                ELSE /\ typed' = typed \o Pushed(byte, extended)
                     /\ shift_held' = IF IsShift(byte.code, extended)
                                        THEN ~byte.release ELSE shift_held
                     /\ capslock_on' =
                            IF ~extended /\ byte.code = "caps" /\ ~byte.release
                              THEN ~capslock_on ELSE capslock_on
    /\ wire' = Tail(wire)
    /\ UNCHANGED keyboard

--------------------------------------------------------------------------------
\* ps2_init has emptied the controller, and no key is down.
Init ==
    /\ down = <<>> /\ wire = <<>>
    /\ extended_prefix = FALSE /\ shift_held = FALSE /\ capslock_on = FALSE
    /\ typed = <<>> /\ meant = <<>>
    /\ caps = FALSE /\ untidy = FALSE
    /\ events = 0

Next ==
    \/ \E key \in Keys : Press(key) \/ Release(key)
    \/ Repeat
    \/ keyboard_handler

Spec == Init /\ [][Next]_vars

--------------------------------------------------------------------------------
\* When the handler has seen all that was sent, shift is not held unless a shift
\* key is down, whatever was pressed, repeated and released in between
\* (ps2.c:133-137).
NoStuckShift == wire = <<>> /\ ShiftsHeld = {} => ~shift_held

\* What the handler has pushed is what was typed, in order, as far as the bytes
\* have arrived (ps2.c:109-167), as long as the two shift keys are not down
\* together and caps lock is not held until it repeats.
TypedIsMeant ==
    ~untidy =>
        /\ Len(typed) <= Len(meant) /\ typed = SubSeq(meant, 1, Len(typed))
        /\ wire = <<>> => typed = meant
================================================================================
