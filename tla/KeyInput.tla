------------------------------- MODULE KeyInput -------------------------------
(****************************************************************************)
(* What the keyboard path of hyprcrd-portal promises an application: it     *)
(* sees one key event after the other, each with the modifiers that follow  *)
(* from the events so far. Keys are evdev key codes; the modifiers a key    *)
(* holds down or toggles are those of Portal::update_modifier_state.        *)
(****************************************************************************)
EXTENDS Naturals

CONSTANT Keys   \* the key codes clients send

VARIABLE seen   \* the last key event an application saw, and its modifiers

\* The two codes of each modifier, and the codes that toggle a lock.
Groups == [shift |-> {42, 54}, ctrl |-> {29, 97}, alt |-> {56, 100},
           meta |-> {125, 126}]
LockKeys == [caps |-> {58}, num |-> {69}]

Modifiers == {"shift", "ctrl", "alt", "meta"}
Locks == {"caps", "num"}

ModifierOf(k) == {m \in Modifiers : k \in Groups[m]}
LockOf(k) == {l \in Locks : k \in LockKeys[l]}

ModState == [depressed : SUBSET Modifiers, locked : SUBSET Locks]
Clear == [depressed |-> {}, locked |-> {}]

Toggle(S, T) == (S \ T) \cup (T \ S)

\* Portal::update_modifier_state. Either code of a pair presses or releases
\* the modifier; a lock toggles on press.
Update(m, k, press) ==
    [depressed |-> IF press THEN m.depressed \cup ModifierOf(k)
                            ELSE m.depressed \ ModifierOf(k),
     locked |-> IF press THEN Toggle(m.locked, LockOf(k)) ELSE m.locked]

NoKey == [key |-> 0, press |-> FALSE, mods |-> Clear]

Init == seen = NoKey

Deliver(k, press) ==
    seen' = [key |-> k, press |-> press, mods |-> Update(seen.mods, k, press)]

Next == \E k \in Keys, press \in BOOLEAN : Deliver(k, press)

Spec == Init /\ [][Next]_seen
=============================================================================
