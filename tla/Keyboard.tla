------------------------------ MODULE Keyboard ------------------------------
(***************************************************************************)
(* The keyboard of lab4's kernel: keyboard_readc(), which turns scan codes *)
(* into characters, and check_keyboard(), which acts on some of them       *)
(* (k-hardware.c).  The decoder is polled, one byte at a time, long after  *)
(* the keys moved; all it knows of them is what its two static variables,  *)
(* `modifiers' and `last_escape', made of the bytes before.  They outlive  *)
(* a soft reboot.  The keyboard itself, and the controller's queue, which  *)
(* may be full, are external.                                              *)
(***************************************************************************)
EXTENDS Integers, Sequences, FiniteSets, TLC

CONSTANTS
  Keys,       \* the keys the user moves, as <<escape, code>>: escape is 128
              \* for a key that sends 0xE0 before its code, else 0
  PauseKey,   \* whether there is a Pause key
  MaxHeld,    \* bound: keys held at a time
  MaxMoves,   \* bound: what the user does, in presses, repeats and releases
  MaxWire     \* bound: bytes the controller keeps for the kernel

ASSUME KeysAssumption == Keys \subseteq {0, 128} \X (0 .. 127)
ASSUME BoundsAssumption == {MaxHeld, MaxMoves, MaxWire} \subseteq Nat /\ PauseKey \in BOOLEAN

VARIABLES
  modifiers,    \* keyboard_readc(): the bits set
  last_escape,  \* keyboard_readc()
  argument,     \* what the kernel was started for, or "off"
  wire,         \* bytes not yet read; each with what it is about
  held,         \* keys the user holds down
  moves,        \* how often the user has moved
  seen          \* what the bytes sent so far say about the modifiers

vars == <<modifiers, last_escape, argument, wire, held, moves, seen>>
decoder == <<modifiers, last_escape>>

-----------------------------------------------------------------------------
\* The tables.

KEY_SHIFT      == 250
KEY_CONTROL    == 251
KEY_ALT        == 252
KEY_CAPSLOCK   == 253
KEY_NUMLOCK    == 254
KEY_SCROLLLOCK == 255

\* Bit numbers of `modifiers'.
SHIFT    == 0
CONTROL  == 1
ALT      == 2
CAPSLOCK == 3
NUMLOCK  == 4
Toggles  == {CAPSLOCK, NUMLOCK, 5}
Bits     == 0 .. 5

CKEY(cn) == 128 + cn

\* Consecutive entries of a table, the first at index `from'.
Row(from, entries) == [i \in from .. from + Len(entries) - 1 |-> entries[i - from + 1]]

keymap ==
  Row(0, <<0, 27>>) @@ [i \in 2 .. 13 |-> CKEY(i - 2)] @@ Row(14, <<8, 9>>)
  @@ Row(16, <<113, 119, 101, 114, 116, 121, 117, 105, 111, 112,
               CKEY(12), CKEY(13), CKEY(14), KEY_CONTROL,
               97, 115, 100, 102, 103, 104, 106, 107, 108,
               CKEY(15), CKEY(16), CKEY(17), KEY_SHIFT, CKEY(18),
               122, 120, 99, 118, 98, 110, 109, CKEY(19), CKEY(20), CKEY(21),
               KEY_SHIFT, 42, KEY_ALT, 32, KEY_CAPSLOCK>>)
  @@ Row(69, <<KEY_NUMLOCK, KEY_SCROLLLOCK, 55, 56, 57, 45, 52, 53, 54, 43,
               49, 50, 51, 48, 46>>)
  @@ Row(156, <<CKEY(14), KEY_CONTROL>>) @@ (181 :> 47) @@ (184 :> KEY_ALT)
  @@ Row(199, <<196, 192, 198, 0, 195, 0, 193, 0, 197, 194, 199, 200, 201>>)
  @@ [i \in 0 .. 255 |-> 0]

\* Plain, with Shift, with Control, with both.
complex_keymap ==
  Row(0, <<<<49, 33, 0, 0>>, <<50, 64, 0, 0>>, <<51, 35, 0, 0>>, <<52, 36, 0, 0>>,
           <<53, 37, 0, 0>>, <<54, 94, 0, 30>>, <<55, 38, 0, 0>>, <<56, 42, 0, 0>>,
           <<57, 40, 0, 0>>, <<48, 41, 0, 0>>, <<45, 95, 0, 31>>, <<61, 43, 0, 0>>,
           <<91, 123, 27, 0>>, <<93, 125, 29, 0>>, <<10, 10, 13, 13>>,
           <<59, 58, 0, 0>>, <<39, 34, 0, 0>>, <<96, 126, 0, 0>>,
           <<92, 124, 28, 0>>, <<44, 60, 0, 0>>, <<46, 62, 0, 0>>, <<47, 63, 0, 0>>>>)

-----------------------------------------------------------------------------
\* keyboard_readc(): the decoder's state after a byte, and the character.

Decoded(mods, escape, ch) == [modifiers |-> mods, last_escape |-> escape, ch |-> ch]

Flip(mods, bit) == IF bit \in mods THEN mods \ {bit} ELSE mods \union {bit}

Upper(mods) == (SHIFT \in mods) # (CAPSLOCK \in mods)

(* Mutants: any release of a modifier clears them all; releases are ignored. *)
ReleasedAll(mods, ch) == IF ch \in KEY_SHIFT .. KEY_CAPSLOCK - 1 THEN {} ELSE mods
ReleasedNever(mods, ch) == mods

\* A release: only Shift, Control and Alt matter.
Released(mods, ch) ==
  IF ch \in KEY_SHIFT .. KEY_CAPSLOCK - 1 THEN mods \ {ch - KEY_SHIFT} ELSE mods

\* A press of the key that the map calls ch.
Pressed(mods, ch) ==
  CASE ch \in 97 .. 122 ->
         Decoded(mods, 0, IF CONTROL \in mods THEN ch - 96
                          ELSE IF Upper(mods) THEN ch - 32 ELSE ch)
    [] ch >= KEY_CAPSLOCK -> Decoded(Flip(mods, ch - KEY_SHIFT), 0, 0)
    [] ch \in KEY_SHIFT .. KEY_CAPSLOCK - 1 -> Decoded(mods \union {ch - KEY_SHIFT}, 0, 0)
    [] ch \in CKEY(0) .. CKEY(21) ->
         LET both == (IF SHIFT \in mods THEN 1 ELSE 0) + (IF CONTROL \in mods THEN 2 ELSE 0)
         IN  Decoded(mods, 0, complex_keymap[ch - CKEY(0)][both + 1])
    [] OTHER -> Decoded(mods, 0, IF ch < 128 /\ CONTROL \in mods THEN 0 ELSE ch)

(* Mutant: the escape is not applied to a release, so that a grey key's 0xE0   *)
(* 0xAA is a Shift.                                                            *)
ReadcReleasesUnescaped(data) ==
  CASE data = 224 -> Decoded(modifiers, 128, 0)
    [] data # 224 /\ data >= 128 -> Decoded(Released(modifiers, keymap[data - 128]), 0, 0)
    [] OTHER -> Pressed(modifiers, keymap[data + last_escape])

keyboard_readc(data) ==
  CASE data = 224 -> Decoded(modifiers, 128, 0)
    [] data # 224 /\ data >= 128 ->
         Decoded(Released(modifiers, keymap[data - 128 + last_escape]), 0, 0)
    [] OTHER -> Pressed(modifiers, keymap[data + last_escape])

-----------------------------------------------------------------------------
\* The user and the keyboard.

\* The modifier bits a key is about; none for any other key.
KeyBits(k) ==
  LET ch == keymap[k[1] + k[2]]
  IN  IF ch >= KEY_SHIFT THEN {ch - KEY_SHIFT} ELSE {}

Holds(keys) == UNION {KeyBits(k) : k \in keys} \intersect {SHIFT, CONTROL, ALT}

\* A toggle key turns its bit over, any other key leaves the toggles alone.
Flips(on, k) ==
  (on \ (KeyBits(k) \intersect Toggles)) \union ((KeyBits(k) \intersect Toggles) \ on)

\* Grey keys lift a held Shift while they are down: 0xE0 0xAA, and put it
\* back when released: 0xE0 0x2A.  Neither is the left Shift key itself.
Grey(k) == k[1] = 128 /\ KeyBits(k) = {}
Escape(k) == IF k[1] = 128 THEN <<224>> ELSE <<>>
Make(k)  == (IF Grey(k) /\ SHIFT \in Holds(held) THEN <<224, 170>> ELSE <<>>)
            \o Escape(k) \o <<k[2]>>
Break(k) == Escape(k) \o <<k[2] + 128>>
            \o (IF Grey(k) /\ SHIFT \in Holds(held) THEN <<224, 42>> ELSE <<>>)

\* The Pause key says it is Control and NumLock, each behind a prefix 0xE1
\* that the decoder does not know; it sends no release of its own.
PauseBytes == <<225, 29, 69, 225, 157, 197>>

\* What the bytes sent say: `on', the modifiers they turn on; `over', those of
\* which two keys were down together since none was; `doubt', those that lost a
\* byte and were not heard of since; `torn', that the last code was cut.
Knowledge == [on : SUBSET Bits, over : SUBSET Bits, doubt : SUBSET Bits, torn : BOOLEAN]

\* The queue takes the bytes that fit and drops the rest.  A key heard of in
\* full is in doubt no more, but a toggle that missed a byte stays wrong.
Send(bytes, key, on, over) ==
  LET room  == MaxWire - Len(wire)
      fit   == IF Len(bytes) <= room THEN Len(bytes) ELSE room
      about == KeyBits(key)
  IN  /\ argument # "off" /\ moves < MaxMoves
      /\ moves' = moves + 1
      /\ wire' = wire \o [i \in 1 .. fit |->
                   [byte |-> bytes[i], key |-> key, before |-> seen, first |-> i = 1]]
      /\ seen' = [on |-> on, over |-> over,
                  doubt |-> CASE fit = Len(bytes) -> IF seen.torn THEN seen.doubt
                                                     ELSE seen.doubt \ (about \ Toggles)
                              [] fit = 0 -> seen.doubt \union about
                              [] OTHER -> Bits,
                  torn |-> IF fit = 0 THEN seen.torn ELSE fit < Len(bytes)]

Press(k) ==
  /\ k \notin held /\ Cardinality(held) < MaxHeld
  /\ held' = held \union {k}
  /\ Send(Make(k), k, Flips(seen.on, k) \union (KeyBits(k) \ Toggles),
          seen.over \union (KeyBits(k) \intersect Holds(held)))
  /\ UNCHANGED <<decoder, argument>>

\* A key that is held repeats; the decoder cannot tell, and toggles again.  (Of
\* a letter, a press sends the same code and says as much.)
Repeat(k) ==
  /\ k \in held /\ KeyBits(k) # {}
  /\ Send(Make(k), k, Flips(seen.on, k), seen.over)
  /\ UNCHANGED <<decoder, argument, held>>

Release(k) ==
  /\ k \in held
  /\ held' = held \ {k}
  /\ LET up == (KeyBits(k) \ Toggles) \ Holds(held')
     IN  Send(Break(k), k, seen.on \ up, seen.over \ up)
  /\ UNCHANGED <<decoder, argument>>

\* With Control held the key is called Break and is two codes in one.
Pause ==
  /\ PauseKey
  /\ IF CONTROL \in Holds(held)
     THEN Send(<<224, 70, 224, 198>>, <<128, 70>>, seen.on, seen.over)
     ELSE Send(PauseBytes, <<0, 69>>, Flip(seen.on, NUMLOCK), seen.over)
  /\ UNCHANGED <<decoder, argument, held>>

-----------------------------------------------------------------------------
\* check_keyboard(), whoever calls it: exception(), schedule() and fail() do.
\* A soft reboot leaves memory, and with it the decoder's state, as it is.

check_keyboard ==
  /\ argument # "off" /\ wire # <<>>
  /\ LET d == keyboard_readc(Head(wire).byte)
     IN  /\ modifiers' = d.modifiers
         /\ last_escape' = d.last_escape
         /\ argument' = CASE d.ch = 97  -> "allocator"
                          [] d.ch = 102 -> "fork"
                          [] d.ch = 101 -> "forkexit"
                          [] d.ch \in {3, 113} -> "off"
                          [] OTHER -> argument
  /\ wire' = Tail(wire)
  /\ UNCHANGED <<held, moves, seen>>

Init ==
  /\ modifiers = {} /\ last_escape = 0
  /\ argument = "" /\ wire = <<>> /\ held = {} /\ moves = 0
  /\ seen = [on |-> {}, over |-> {}, doubt |-> {}, torn |-> FALSE]

Next ==
  \/ \E k \in Keys : Press(k) \/ Repeat(k) \/ Release(k)
  \/ Pause
  \/ check_keyboard

\* Every path of the kernel polls again: a process runs until the next timer
\* interrupt at the latest, and the scheduler and fail() loop over the poll.
Spec == Init /\ [][Next]_vars /\ WF_vars(check_keyboard)

-----------------------------------------------------------------------------
\* Properties.

\* Every variable has its type and the wire its bound.
TypeOK ==
  /\ modifiers \subseteq Bits /\ last_escape \in {0, 128}
  /\ argument \in {"", "allocator", "fork", "forkexit", "off"}
  /\ held \subseteq Keys /\ moves \in 0 .. MaxMoves /\ seen \in Knowledge
  /\ Len(wire) <= MaxWire
  /\ \A i \in 1 .. Len(wire) :
       /\ wire[i].byte \in 0 .. 255 /\ wire[i].before \in Knowledge
       /\ wire[i].first \in BOOLEAN

\* What the bytes read so far say.
Heard == IF wire = <<>> THEN seen ELSE Head(wire).before

\* An escape is for the next byte of the same code, or for whatever follows a
\* code that was cut.
EscapeOwned ==
  last_escape = 128 => Heard.torn \/ (wire # <<>> /\ ~Head(wire).first)

\* Between two codes the decoder's modifiers are those of the bytes it has
\* read: no phantom Shift, Control or Alt stays behind, whatever the grey keys,
\* the Pause key and the repeats sent, and none is missing.  Two exceptions: a
\* modifier that lost a byte and has not moved since, and one of which two keys
\* were held, which the code drops with the first of them.
InStep ==
  /\ TypeOK /\ EscapeOwned
  /\ wire = <<>> \/ Head(wire).first =>
    /\ modifiers \ Heard.on \subseteq Heard.doubt
    /\ Heard.on \ modifiers \subseteq Heard.doubt \union Heard.over

\* A key means its command, as far as the user and the bytes agree.
Unmodified(s) ==
  /\ s.doubt = {} /\ s.over = {}
  /\ CONTROL \notin s.on /\ ~Upper(s.on)

\* The kernel restarts or stops for one key only, pressed without Control and
\* in lower case, or for Control-C: a code read late, across a restart, never
\* becomes a command that the user did not give.
CommandsMeant ==
  [][argument' # argument =>
       LET w == Head(wire)
           meant(code) == w.key = <<0, code>> /\ w.byte = code
           plain == w.before.doubt = {} /\ w.before.over = {} => Unmodified(w.before)
       IN  CASE argument' = "allocator" -> meant(30) /\ plain
             [] argument' = "fork"      -> meant(33) /\ plain
             [] argument' = "forkexit"  -> meant(18) /\ plain
             [] argument' = "off" ->
                  \/ meant(16) /\ plain
                  \/ /\ meant(46)
                     /\ CONTROL \in w.before.on \union w.before.doubt]_vars

\* A q that reaches the queue in lower case and unmodified stops the kernel,
\* whatever is queued before it and however often the kernel restarts first.
QuitAnswered ==
  (\E i \in 1 .. Len(wire) :
     /\ wire[i].byte = 16 /\ wire[i].first /\ ~wire[i].before.torn
     /\ Unmodified(wire[i].before))
  ~> (argument = "off")
=============================================================================
