--------------------------- MODULE KeyboardBridge ---------------------------
(****************************************************************************)
(* How hyprcrd-portal delivers key events. Every injector, the D-Bus event  *)
(* loop (NotifyKeyboardKeycode) or a ConnectToEIS thread (handle_eis_event), *)
(* runs the same four steps for a key: update the shared modifier words,     *)
(* send them, send the key, send them again. The words are plain members of  *)
(* Portal, so the read and the write of an update, and the load of arguments *)
(* and the request they go out with, are steps of their own.                 *)
(****************************************************************************)
EXTENDS Naturals

CONSTANTS
    Keys,       \* the key codes clients send
    Injectors   \* threads that deliver key events, one client each

VARIABLES
    mods,      \* modifier_state_depressed and modifier_state_locked
    pc,        \* the next step of each injector
    event,     \* the key event each injector works on
    word,      \* what each injector has read or loaded of mods
    comp,      \* the compositor's virtual keyboard: modifiers and keys down
    held,      \* the keys each client holds down
    orphaned,  \* keys down when their client went away
    seen       \* history: the last key event the compositor handed on

vars == <<mods, pc, event, word, comp, held, orphaned, seen>>

\* The abstract delivery of key events.
Input == INSTANCE KeyInput WITH Keys <- Keys, seen <- seen

Steps == {"idle", "store", "load", "send", "key", "reload", "resend"}

NoEvent == [key |-> 0, press |-> FALSE]

Goto(t, step) == pc' = [pc EXCEPT ![t] = step]

----------------------------------------------------------------------------
\* Faulty form of NewMods: a lock key goes to the word of the keys held down.
LockHeldDown(m, k, press) ==
    [m EXCEPT !.depressed = @ \cup Input!ModifierOf(k) \cup Input!LockOf(k)]

\* Faulty form of NewMods: a release leaves the modifier down.
NeverReleases(m, k, press) ==
    IF press THEN Input!Update(m, k, press) ELSE m

NewMods(m, k, press) == Input!Update(m, k, press)

\* A client presses a key it does not hold or releases one it holds, and the
\* injector reads the words for its update.
Read(t, k, press) ==
    /\ pc[t] = "idle" /\ (k \in held[t]) # press
    /\ held' = [held EXCEPT ![t] = IF press THEN @ \cup {k} ELSE @ \ {k}]
    /\ event' = [event EXCEPT ![t] = [key |-> k, press |-> press]]
    /\ word' = [word EXCEPT ![t] = NewMods(mods, k, press)]
    /\ Goto(t, "store")
    /\ UNCHANGED <<mods, comp, orphaned, seen>>

\* The update writes the one word its key has a part in, if any.
Store(t) ==
    /\ pc[t] = "store"
    /\ mods' = IF Input!ModifierOf(event[t].key) # {}
                 THEN [mods EXCEPT !.depressed = word[t].depressed]
                 ELSE IF Input!LockOf(event[t].key) # {} /\ event[t].press
                 THEN [mods EXCEPT !.locked = word[t].locked]
                 ELSE mods
    /\ Goto(t, "load")
    /\ UNCHANGED <<event, word, comp, held, orphaned, seen>>

\* send_modifiers: its arguments, then the request with its flush. Both are
\* done twice, before and after the key.
Load(t, from, to) ==
    /\ pc[t] = from
    /\ word' = [word EXCEPT ![t] = mods]
    /\ Goto(t, to)
    /\ UNCHANGED <<mods, event, comp, held, orphaned, seen>>

\* Faulty form of Sent: the locked modifiers are left out of the request.
SentWithoutLocks(t) == [word[t] EXCEPT !.locked = {}]

Sent(t) == word[t]

Send(t, from, to) ==
    /\ pc[t] = from
    /\ comp' = [comp EXCEPT !.mods = Sent(t)]
    /\ Goto(t, to)
    /\ UNCHANGED <<mods, event, word, held, orphaned, seen>>

\* Faulty form of KeysDown: every event presses its key.
AlwaysDown(e) == comp.keys \cup {e.key}

\* send_key with its flush.
KeysDown(e) == IF e.press THEN comp.keys \cup {e.key} ELSE comp.keys \ {e.key}

SendKey(t) ==
    /\ pc[t] = "key"
    /\ comp' = [comp EXCEPT !.keys = KeysDown(event[t])]
    /\ seen' = [key |-> event[t].key, press |-> event[t].press,
                mods |-> comp.mods]
    /\ orphaned' = IF event[t].press THEN orphaned ELSE orphaned \ {event[t].key}
    /\ Goto(t, "reload")
    /\ UNCHANGED <<mods, event, word, held>>

\* Neither the session's Close nor EIS_EVENT_CLIENT_DISCONNECT releases a key
\* or a modifier. Another client may take the injector's place.
Disconnect(t) ==
    /\ pc[t] = "idle"
    /\ held' = [held EXCEPT ![t] = {}]
    /\ orphaned' = orphaned \cup held[t]
    /\ UNCHANGED <<mods, pc, event, word, comp, seen>>

----------------------------------------------------------------------------
Init ==
    /\ mods = Input!Clear
    /\ pc = [t \in Injectors |-> "idle"]
    /\ event = [t \in Injectors |-> NoEvent]
    /\ word = [t \in Injectors |-> Input!Clear]
    /\ comp = [mods |-> Input!Clear, keys |-> {}]
    /\ held = [t \in Injectors |-> {}]
    /\ orphaned = {}
    /\ seen = Input!NoKey

Next == \E t \in Injectors :
    \/ \E k \in Keys, press \in BOOLEAN : Read(t, k, press)
    \/ Store(t)
    \/ Load(t, "load", "send")
    \/ Send(t, "send", "key")
    \/ SendKey(t)
    \/ Load(t, "reload", "resend")
    \/ Send(t, "resend", "idle")
    \/ Disconnect(t)

Spec == Init /\ [][Next]_vars

----------------------------------------------------------------------------
(* Properties. *)

Event == [key : Keys \cup {0}, press : BOOLEAN]

\* The type invariant.
TypeOK ==
    /\ mods \in Input!ModState
    /\ pc \in [Injectors -> Steps]
    /\ event \in [Injectors -> Event]
    /\ word \in [Injectors -> Input!ModState]
    /\ comp \in [mods : Input!ModState, keys : SUBSET Keys]
    /\ held \in [Injectors -> SUBSET Keys]
    /\ orphaned \subseteq Keys
    /\ seen \in [key : Keys \cup {0}, press : BOOLEAN, mods : Input!ModState]

Quiet == \A t \in Injectors : pc[t] = "idle"

AllHeld == UNION {held[t] : t \in Injectors}

\* An application sees every key with the modifiers of the events up to and
\* including it: the bridge implements KeyInput.
AtomicDelivery == Input!Spec

\* Between two key events the compositor has the modifiers the portal tracks:
\* nothing is left unsent, or sent out of date.
CompositorInSync == Quiet => comp.mods = mods

\* Between two key events exactly the keys some client holds are down, and
\* those of clients that went away without releasing them.
KeysAccountedFor == Quiet => comp.keys = AllHeld \cup orphaned

\* With any number of injectors, where two clients may hold the same key: no
\* key stays down that nobody holds and no client went away with.
NoPhantomKey == Quiet => comp.keys \subseteq AllHeld \cup orphaned

\* A modifier is down only because of a key that is: no release is lost.
NoPhantomModifier ==
    Quiet => \A m \in comp.mods.depressed :
                 \E k \in AllHeld \cup orphaned : m \in Input!ModifierOf(k)

\* Not kept by the code with both keys of a pair, the documented accuracy:
\* between two key events every modifier whose key is held is down.
HeldModifiersAreDown ==
    Quiet => \A k \in AllHeld : Input!ModifierOf(k) \subseteq comp.mods.depressed
=============================================================================
