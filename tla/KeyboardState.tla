--------------------------- MODULE KeyboardState ---------------------------
(***************************************************************************)
(* What the shared keyboard state (kuitui/src/input/keyboard/state.rs)     *)
(* holds and what an event makes of it.  SeqLock is the protocol by which  *)
(* it is stored; here a transition is one step.                            *)
(*                                                                         *)
(* A normalized key has a bit in pressed; the two shifts stand for a       *)
(* family of modifiers.  A native code is kept in an open-addressed set,   *)
(* whose hash function is any function.  The last-key fields, the counters *)
(* and the lock flags are left out.                                        *)
(***************************************************************************)
EXTENDS Naturals

CONSTANTS
    Normalized,  \* key codes with a slot of their own, the shifts among them
    Native,      \* native key codes
    Slots,       \* NATIVE_SLOTS, 32 in the code
    Empty, Tombstone

Shifts == {"ShiftLeft", "ShiftRight"}
Codes == Normalized \cup Native
Indices == 0..Slots - 1

ASSUME KeyboardConstants ==
    /\ Shifts \subseteq Normalized /\ Normalized \cap Native = {}
    /\ Slots \in Nat \ {0}
    /\ {Empty, Tombstone} \cap Native = {} /\ Empty # Tombstone

\* A keyboard state with native_start = start: held is the shift flag.
NewKeyboard(start) ==
    [start |-> start, pressed |-> {}, held |-> FALSE, native |-> [i \in Indices |-> Empty]]

-----------------------------------------------------------------------------
(* The native key set.                                                      *)

\* The slot looked at in a step of the probe, and the first one with one of these values.
Probe(k, code, step) == (k.start[code] + step) % Slots
Stops(k, code, values) == {s \in Indices : k.native[Probe(k, code, s)] \in values}
FirstStop(k, code, values) ==
    CHOOSE s \in Stops(k, code, values) : \A t \in Stops(k, code, values) : s <= t

\* native_insert: the first slot that holds the code or is free, if there is one.
HasSlot(k, code) == Stops(k, code, {code, Empty, Tombstone}) # {}
NativeInsert(k, code) ==
    IF HasSlot(k, code)
    THEN [k EXCEPT !.native[Probe(k, code, FirstStop(k, code, {code, Empty, Tombstone}))] = code]
    ELSE k

\* native_contains: the probe goes past other codes and tombstones, not past an empty slot.
NativeContains(k, code) ==
    /\ Stops(k, code, {code, Empty}) # {}
    /\ k.native[Probe(k, code, FirstStop(k, code, {code, Empty}))] = code

\* Mutant: a removed code leaves an empty slot behind.
NativeRemoveEmpties(k, code) ==
    IF NativeContains(k, code)
    THEN [k EXCEPT !.native[Probe(k, code, FirstStop(k, code, {code, Empty}))] = Empty]
    ELSE k

\* native_remove
NativeRemove(k, code) ==
    IF NativeContains(k, code)
    THEN [k EXCEPT !.native[Probe(k, code, FirstStop(k, code, {code, Empty}))] = Tombstone]
    ELSE k
-----------------------------------------------------------------------------
\* mark_pressed
MarkPressed(k, code, pressed) ==
    CASE code \in Normalized /\ pressed   -> [k EXCEPT !.pressed = @ \cup {code}]
      [] code \in Normalized /\ ~ pressed -> [k EXCEPT !.pressed = @ \ {code}]
      [] code \in Native /\ pressed       -> NativeInsert(k, code)
      [] code \in Native /\ ~ pressed     -> NativeRemove(k, code)

\* refresh_modifier: the pressed set is the source of truth, whichever side was released.
RefreshModifier(k) == [k EXCEPT !.held = k.pressed \cap Shifts # {}]

\* apply: a press also sets the modifiers the backend reports with it; the release of a
\* modifier recomputes its flag; a repeat changes neither.
Applied(k, code, state, shift) ==
    CASE state = "press" ->
           [MarkPressed(k, code, TRUE) EXCEPT !.held = @ \/ code \in Shifts \/ shift]
      [] state = "release" ->
           IF code \in Shifts THEN RefreshModifier(MarkPressed(k, code, FALSE))
                              ELSE MarkPressed(k, code, FALSE)
      [] state = "repeat" -> k

\* is_pressed
IsPressed(k, code) == IF code \in Native THEN NativeContains(k, code) ELSE code \in k.pressed
=============================================================================
