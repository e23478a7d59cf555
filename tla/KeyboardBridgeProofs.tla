------------------------ MODULE KeyboardBridgeProofs ------------------------
(****************************************************************************)
(* With a single injector, and any key codes, the four steps of the bridge  *)
(* deliver key events as KeyInput does, and what is down is accounted for.   *)
(* With a second injector they do not: its update can be lost between a Read *)
(* and a Store. That no key stays down without a reason holds for any number *)
(* of them.                                                                  *)
(****************************************************************************)
EXTENDS KeyboardBridge, TLAPS

\* One client at a time: only the event loop, or only one EIS thread.
SoleInjector == \A t, u \in Injectors : t = u

After(t) == Input!Update(seen.mods, event[t].key, event[t].press)

\* How far the current event has come, at each step of the injector.
Progress(t) ==
    /\ pc[t] # "idle" => event[t].key \in Keys
    /\ pc[t] \in {"idle", "store", "reload", "resend"}
           => comp.mods = mods /\ seen.mods = mods
    /\ pc[t] = "store" => word[t] = After(t)
    /\ pc[t] \in {"load", "send", "key"} => mods = After(t)
    /\ pc[t] \in {"send", "resend"} => word[t] = mods
    /\ pc[t] = "key" => comp.mods = mods

IInv == TypeOK /\ \A t \in Injectors : Progress(t)

\* No key code is both a modifier and a lock.
LEMMA DisjointCodes ==
    ASSUME NEW k, Input!ModifierOf(k) # {}
    PROVE  Input!LockOf(k) = {}
BY DEF Input!ModifierOf, Input!LockOf, Input!Modifiers, Input!Locks,
       Input!Groups, Input!LockKeys

\* Updates stay within the modifiers, and touch one word at most.
LEMMA UpdateTypes ==
    ASSUME NEW m \in Input!ModState, NEW k, NEW press \in BOOLEAN
    PROVE  /\ Input!Update(m, k, press) \in Input!ModState
           /\ Input!ModifierOf(k) # {}
                 => Input!Update(m, k, press).locked = m.locked
           /\ Input!ModifierOf(k) = {}
                 => Input!Update(m, k, press).depressed = m.depressed
           /\ Input!LockOf(k) = {} \/ ~press
                 => Input!Update(m, k, press).locked = m.locked
<1>1. Input!ModifierOf(k) \subseteq Input!Modifiers
      /\ Input!LockOf(k) \subseteq Input!Locks
  BY DEF Input!ModifierOf, Input!LockOf
<1>2. m.depressed \subseteq Input!Modifiers /\ m.locked \subseteq Input!Locks
  BY DEF Input!ModState
<1>3. \A S : Input!Toggle(S, {}) = S
  BY DEF Input!Toggle
<1>4. Input!Toggle(m.locked, Input!LockOf(k)) \subseteq Input!Locks
  BY <1>1, <1>2 DEF Input!Toggle
<1>5. Input!Update(m, k, press) \in Input!ModState
  BY <1>1, <1>2, <1>4 DEF Input!Update, Input!ModState
<1>6. QED
  BY <1>3, <1>5, DisjointCodes DEF Input!Update

\* Nothing is held or sent initially.
LEMMA InitIInv == Init => IInv
BY DEF Init, IInv, TypeOK, Progress, Steps, Event, NoEvent, Input!Clear,
       Input!NoKey, Input!ModState

\* Every step of the sole injector preserves the invariant.
LEMMA Step == ASSUME SoleInjector, IInv, [Next]_vars PROVE IInv'
<1> USE DEF IInv, TypeOK, SoleInjector, Goto
<1>1. ASSUME NEW t \in Injectors, NEW k \in Keys, NEW press \in BOOLEAN,
             Read(t, k, press)
      PROVE  IInv'
  <2>1. NewMods(mods, k, press) \in Input!ModState
    BY UpdateTypes DEF NewMods
  <2>2. TypeOK'
    BY <1>1, <2>1 DEF Read, Event, Steps
  <2>3. Progress(t)'
    BY <1>1 DEF Read, Progress, After, NewMods
  <2>4. QED
    BY <2>2, <2>3
<1>2. ASSUME NEW t \in Injectors, Store(t) PROVE IInv'
  <2> DEFINE k == event[t].key
             p == event[t].press
             u == Input!Update(mods, k, p)
  <2>1. word[t] = u /\ seen.mods = mods /\ k \in Keys /\ p \in BOOLEAN
    BY <1>2 DEF Store, Progress, After, Event
  <2>2. u \in Input!ModState
    BY <2>1, UpdateTypes
  <2>3. mods' = u
    <3>1. CASE Input!ModifierOf(k) # {}
      <4>1. mods' = [mods EXCEPT !.depressed = u.depressed]
        BY <1>2, <2>1, <3>1 DEF Store
      <4>2. u.locked = mods.locked
        BY <2>1, <3>1, UpdateTypes
      <4>3. QED
        BY <4>1, <4>2, <2>2 DEF Input!ModState
    <3>2. CASE Input!ModifierOf(k) = {} /\ Input!LockOf(k) # {} /\ p
      <4>1. mods' = [mods EXCEPT !.locked = u.locked]
        BY <1>2, <2>1, <3>2 DEF Store
      <4>2. u.depressed = mods.depressed
        BY <2>1, <3>2, UpdateTypes
      <4>3. QED
        BY <4>1, <4>2, <2>2 DEF Input!ModState
    <3>3. CASE Input!ModifierOf(k) = {} /\ ~(Input!LockOf(k) # {} /\ p)
      <4>1. mods' = mods
        BY <1>2, <3>3 DEF Store
      <4>2. u.depressed = mods.depressed /\ u.locked = mods.locked
        BY <2>1, <3>3, UpdateTypes
      <4>3. QED
        BY <4>1, <4>2, <2>2 DEF Input!ModState
    <3>4. QED
      BY <3>1, <3>2, <3>3
  <2> HIDE DEF u
  <2>4. TypeOK'
    BY <1>2, <2>2, <2>3 DEF Store, Steps
  <2>5. Progress(t)'
    BY <1>2, <2>1, <2>3 DEF Store, Progress, After, u
  <2>6. QED
    BY <2>4, <2>5
<1>3. ASSUME NEW t \in Injectors, Load(t, "load", "send") PROVE IInv'
  BY <1>3 DEF Load, Progress, After, Steps
<1>4. ASSUME NEW t \in Injectors, Send(t, "send", "key") PROVE IInv'
  BY <1>4 DEF Send, Sent, Progress, After, Steps
<1>5. ASSUME NEW t \in Injectors, SendKey(t) PROVE IInv'
  <2>1. event[t].key \in Keys /\ event[t].press \in BOOLEAN
    BY <1>5 DEF SendKey, Progress, Event
  <2>2. TypeOK'
    BY <1>5, <2>1 DEF SendKey, KeysDown, Event, Steps
  <2>3. Progress(t)'
    BY <1>5 DEF SendKey, Progress, After
  <2>4. QED
    BY <2>2, <2>3
<1>6. ASSUME NEW t \in Injectors, Load(t, "reload", "resend") PROVE IInv'
  BY <1>6 DEF Load, Progress, After, Steps
<1>7. ASSUME NEW t \in Injectors, Send(t, "resend", "idle") PROVE IInv'
  BY <1>7 DEF Send, Sent, Progress, After, Steps
<1>8. ASSUME NEW t \in Injectors, Disconnect(t) PROVE IInv'
  BY <1>8 DEF Disconnect, Progress, After
<1>9. CASE UNCHANGED vars
  BY <1>9 DEF vars, Progress, After
<1>10. QED
  BY <1>1, <1>2, <1>3, <1>4, <1>5, <1>6, <1>7, <1>8, <1>9 DEF Next

\* Every step of the sole injector is a delivery or invisible.
LEMMA StepRefines ==
    ASSUME SoleInjector, IInv, [Next]_vars PROVE [Input!Next]_seen
<1>1. ASSUME NEW t \in Injectors, SendKey(t) PROVE [Input!Next]_seen
  <2>1. /\ event[t].key \in Keys /\ event[t].press \in BOOLEAN
        /\ comp.mods = After(t)
    BY <1>1 DEF SendKey, IInv, TypeOK, Progress, Event
  <2>2. Input!Deliver(event[t].key, event[t].press)
    BY <1>1, <2>1 DEF SendKey, Input!Deliver, After
  <2>3. QED
    BY <2>1, <2>2 DEF Input!Next
<1>2. CASE UNCHANGED seen
  BY <1>2
<1>3. QED
  BY <1>1, <1>2 DEF Next, Read, Store, Load, Send, Disconnect, vars

\* The invariant holds in every reachable state of a sole injector.
LEMMA Invariance == ASSUME SoleInjector PROVE Spec => []IInv
<1>1. IInv /\ [Next]_vars => IInv'
  BY Step
<1>2. QED
  BY InitIInv, <1>1, PTL DEF Spec

\* After every key event the compositor has the modifiers the portal tracks,
\* whatever keys the one client sends.
THEOREM InSync == ASSUME SoleInjector, Injectors # {}
                  PROVE  Spec => []CompositorInSync
<1>1. IInv => CompositorInSync
  BY DEF IInv, Progress, CompositorInSync, Quiet
<1>2. QED
  BY <1>1, Invariance, PTL

\* With one client the bridge implements the atomic delivery of KeyInput: a
\* key is never seen with the modifiers of another moment.
THEOREM Refinement == ASSUME SoleInjector PROVE Spec => AtomicDelivery
<1>1. Init => Input!Init
  BY DEF Init, Input!Init
<1>2. IInv /\ [Next]_vars => [Input!Next]_seen
  BY StepRefines
<1>3. QED
  BY <1>1, <1>2, Invariance, PTL DEF Spec, AtomicDelivery, Input!Spec

----------------------------------------------------------------------------
(* What is down at the compositor, and why.                                  *)

\* Every modifier of D has a key in S that holds it down.
Backed(D, S) == \A m \in D : \E k \in S : m \in Input!ModifierOf(k)

\* The keys of departed clients once the current event is delivered.
Left(t) == IF event[t].press THEN orphaned ELSE orphaned \ {event[t].key}

\* Until the key is sent the account holds of what it will be then: a client's
\* key counts as held from the moment the client presses it.
KeysKnown(t) ==
    /\ pc[t] \in {"idle", "reload", "resend"} =>
          /\ comp.keys = held[t] \cup orphaned
          /\ Backed(mods.depressed, held[t] \cup orphaned)
    /\ pc[t] \in {"store", "load", "send", "key"} =>
          /\ KeysDown(event[t]) = held[t] \cup Left(t)
          /\ Backed(After(t).depressed, held[t] \cup Left(t))

KeysInv == IInv /\ \A t \in Injectors : KeysKnown(t)

\* A release takes its modifier along, so what stays down needs another key.
LEMMA UpdateBacked ==
    ASSUME NEW m \in Input!ModState, NEW H, NEW O, NEW k,
           NEW press \in BOOLEAN, Backed(m.depressed, H \cup O)
    PROVE  Backed(Input!Update(m, k, press).depressed,
                  (IF press THEN H \cup {k} ELSE H \ {k})
                      \cup (IF press THEN O ELSE O \ {k}))
BY DEF Backed, Input!Update

\* Every step of the sole injector keeps the account.
LEMMA KeysStep == ASSUME SoleInjector, KeysInv, [Next]_vars PROVE KeysInv'
<1> USE DEF KeysInv, KeysKnown
<1>1. IInv /\ IInv'
  BY Step
<1>2. TypeOK
  BY DEF IInv
<1>3. ASSUME NEW t \in Injectors, KeysKnown(t)' PROVE KeysInv'
  BY <1>1, <1>3 DEF SoleInjector
<1>4. ASSUME NEW t \in Injectors, NEW k \in Keys, NEW press \in BOOLEAN,
             Read(t, k, press)
      PROVE  KeysInv'
  <2>1. /\ pc[t] = "idle" /\ pc'[t] = "store" /\ seen' = seen /\ orphaned' = orphaned
        /\ event'[t] = [key |-> k, press |-> press] /\ comp' = comp
        /\ held'[t] = IF press THEN held[t] \cup {k} ELSE held[t] \ {k}
    BY <1>2, <1>4 DEF Read, Goto, TypeOK
  <2>2. comp.keys = held[t] \cup orphaned /\ seen.mods = mods
        /\ Backed(mods.depressed, held[t] \cup orphaned) /\ mods \in Input!ModState
    BY <1>2, <2>1 DEF IInv, Progress, TypeOK
  <2>3. Left(t)' = IF press THEN orphaned ELSE orphaned \ {k}
    BY <2>1 DEF Left
  <2>4. After(t)' = Input!Update(mods, k, press)
    BY <2>1, <2>2 DEF After
  <2>5. Backed(After(t)'.depressed, held'[t] \cup Left(t)')
    <3>1. Backed(Input!Update(mods, k, press).depressed,
                 (IF press THEN held[t] \cup {k} ELSE held[t] \ {k})
                     \cup (IF press THEN orphaned ELSE orphaned \ {k}))
      BY <2>2, UpdateBacked
    <3>2. QED
      BY <2>1, <2>3, <2>4, <3>1
  <2>6. KeysDown(event[t])' = held'[t] \cup Left(t)'
    BY <2>1, <2>2, <2>3 DEF KeysDown
  <2>7. KeysKnown(t)'
    BY <2>1, <2>5, <2>6 DEF Backed
  <2>8. QED
    BY <1>3, <2>7
<1>5. ASSUME NEW t \in Injectors,
             /\ pc[t] \in {"store", "load", "send"}
             /\ pc'[t] \in {"load", "send", "key"}
             /\ event' = event /\ held' = held /\ orphaned' = orphaned
             /\ seen' = seen /\ comp'.keys = comp.keys
      PROVE  KeysInv'
  <2>1. KeysKnown(t)'
    BY <1>5 DEF Left, After, KeysDown, Backed
  <2>2. QED
    BY <1>3, <2>1
<1>6. ASSUME NEW t \in Injectors,
             /\ pc[t] \in {"idle", "reload", "resend"}
             /\ pc'[t] \in {"idle", "reload", "resend"}
             /\ held'[t] \cup orphaned' = held[t] \cup orphaned
             /\ mods' = mods /\ comp'.keys = comp.keys
      PROVE  KeysInv'
  <2>1. KeysKnown(t)'
    BY <1>6 DEF Backed
  <2>2. QED
    BY <1>3, <2>1
<1>7. ASSUME NEW t \in Injectors, SendKey(t) PROVE KeysInv'
  <2>1. /\ pc[t] = "key" /\ pc'[t] = "reload" /\ mods' = mods /\ held' = held
        /\ comp'.keys = KeysDown(event[t]) /\ orphaned' = Left(t)
    BY <1>2, <1>7 DEF SendKey, Goto, TypeOK, Left
  <2>2. mods = After(t)
    BY <2>1 DEF IInv, Progress
  <2>3. KeysKnown(t)'
    BY <2>1, <2>2 DEF Backed
  <2>4. QED
    BY <1>3, <2>3
<1>8. ASSUME NEW t \in Injectors, Store(t) PROVE KeysInv'
  BY <1>2, <1>5, <1>8 DEF Store, Goto, TypeOK
<1>9. ASSUME NEW t \in Injectors, Load(t, "load", "send") PROVE KeysInv'
  BY <1>2, <1>5, <1>9 DEF Load, Goto, TypeOK
<1>10. ASSUME NEW t \in Injectors, Send(t, "send", "key") PROVE KeysInv'
  BY <1>2, <1>5, <1>10 DEF Send, Goto, TypeOK
<1>11. ASSUME NEW t \in Injectors, Load(t, "reload", "resend") PROVE KeysInv'
  BY <1>2, <1>6, <1>11 DEF Load, Goto, TypeOK
<1>12. ASSUME NEW t \in Injectors, Send(t, "resend", "idle") PROVE KeysInv'
  BY <1>2, <1>6, <1>12 DEF Send, Goto, TypeOK
<1>13. ASSUME NEW t \in Injectors, Disconnect(t) PROVE KeysInv'
  <2>1. held'[t] \cup orphaned' = held[t] \cup orphaned
    BY <1>2, <1>13 DEF Disconnect, TypeOK
  <2>2. QED
    BY <1>6, <1>13, <2>1 DEF Disconnect
<1>14. CASE UNCHANGED vars
  BY <1>1, <1>14 DEF vars, Left, After, KeysDown, Backed
<1>15. QED
  BY <1>4, <1>7, <1>8, <1>9, <1>10, <1>11, <1>12, <1>13, <1>14 DEF Next

LEMMA KeysInvariance == ASSUME SoleInjector PROVE Spec => []KeysInv
<1>1. Init => KeysInv
  BY InitIInv DEF Init, KeysInv, KeysKnown, Backed, Input!Clear
<1>2. KeysInv /\ [Next]_vars => KeysInv'
  BY KeysStep
<1>3. QED
  BY <1>1, <1>2, PTL DEF Spec

\* With one client exactly the keys it holds are down between two events, and
\* those that were down when a client before it went away.
THEOREM KeysCounted == ASSUME SoleInjector, Injectors # {}
                       PROVE  Spec => []KeysAccountedFor
<1>1. KeysInv => KeysAccountedFor
  <2>1. PICK t \in Injectors : Injectors = {t}
    BY DEF SoleInjector
  <2>2. AllHeld = held[t]
    BY <2>1 DEF AllHeld
  <2>3. QED
    BY <2>1, <2>2 DEF KeysInv, KeysKnown, KeysAccountedFor, Quiet
<1>2. QED
  BY <1>1, KeysInvariance, PTL

\* With one client no modifier stays down at the compositor without a key that
\* is down, whichever keys of a pair are pressed and released in which order.
THEOREM ModifiersBacked == ASSUME SoleInjector, Injectors # {}
                           PROVE  Spec => []NoPhantomModifier
<1>1. KeysInv => NoPhantomModifier
  <2>1. PICK t \in Injectors : Injectors = {t}
    BY DEF SoleInjector
  <2>2. AllHeld = held[t]
    BY <2>1 DEF AllHeld
  <2>3. QED
    BY <2>1, <2>2 DEF KeysInv, KeysKnown, IInv, Progress, Backed, NoPhantomModifier,
                      Quiet
<1>2. QED
  BY <1>1, KeysInvariance, PTL

----------------------------------------------------------------------------
(* Any number of clients.                                                    *)

\* The injector has begun the event and not yet sent its key.
Unsent(t) == pc[t] \in {"store", "load", "send", "key"}

\* A press on its way is of a key its client holds.
PressesHeld ==
    \A t \in Injectors :
        /\ pc[t] # "idle" => event[t].key \in Keys
        /\ Unsent(t) /\ event[t].press => event[t].key \in held[t]

\* What is down is held, was left behind, or its release is on its way.
DownForAReason ==
    \A k \in comp.keys : \/ k \in AllHeld \cup orphaned
                        \/ \E t \in Injectors : /\ Unsent(t) /\ ~event[t].press
                                                /\ event[t].key = k

DownInv == TypeOK /\ PressesHeld /\ DownForAReason

\* A step that sends no key and lets no key go leaves every reason as it is.
LEMMA ReasonsStay ==
    ASSUME DownInv, NEW t \in Injectors, TypeOK',
           event' = event, comp'.keys = comp.keys, held' = held, orphaned' = orphaned,
           \A u \in Injectors \ {t} : pc'[u] = pc[u],
           Unsent(t)' <=> Unsent(t), pc[t] # "idle"
    PROVE  DownInv'
<1>1. AllHeld' = AllHeld
  BY DEF AllHeld
<1>2. \A u \in Injectors : (Unsent(u)' <=> Unsent(u)) /\ (pc'[u] # "idle" => pc[u] # "idle")
  BY DEF Unsent
<1>3. PressesHeld'
  BY <1>2 DEF DownInv, PressesHeld
<1>4. DownForAReason'
  BY <1>1, <1>2 DEF DownInv, DownForAReason
<1>5. QED
  BY <1>3, <1>4 DEF DownInv

LEMMA DownStep == ASSUME DownInv, [Next]_vars PROVE DownInv'
<1> USE DEF Goto
<1>1. TypeOK /\ PressesHeld /\ DownForAReason
  BY DEF DownInv
<1>2. CASE UNCHANGED vars
  <2>1. TypeOK' /\ PressesHeld' /\ DownForAReason'
    BY <1>1, <1>2 DEF vars, TypeOK, PressesHeld, DownForAReason, Unsent, AllHeld
  <2>2. QED
    BY <2>1 DEF DownInv
<1>3. ASSUME NEW t \in Injectors, NEW k \in Keys, NEW press \in BOOLEAN,
             Read(t, k, press)
      PROVE  DownInv'
  <2>1. /\ pc[t] = "idle" /\ pc' = [pc EXCEPT ![t] = "store"]
        /\ event' = [event EXCEPT ![t] = [key |-> k, press |-> press]]
        /\ held' = [held EXCEPT ![t] = IF press THEN @ \cup {k} ELSE @ \ {k}]
        /\ comp' = comp /\ orphaned' = orphaned /\ mods' = mods /\ seen' = seen
        /\ word' = [word EXCEPT ![t] = NewMods(mods, k, press)]
    BY <1>3 DEF Read
  <2>2. NewMods(mods, k, press) \in Input!ModState
    BY <1>1, UpdateTypes DEF NewMods, TypeOK
  <2>3. TypeOK'
    BY <1>1, <2>1, <2>2 DEF TypeOK, Steps, Event
  <2>4. /\ pc'[t] = "store" /\ event'[t] = [key |-> k, press |-> press]
        /\ held'[t] = IF press THEN held[t] \cup {k} ELSE held[t] \ {k}
        /\ \A u \in Injectors \ {t} : /\ pc'[u] = pc[u] /\ event'[u] = event[u]
                                      /\ held'[u] = held[u]
    BY <1>1, <2>1 DEF TypeOK
  <2>5. PressesHeld'
    BY <1>1, <2>4 DEF PressesHeld, Unsent
  <2>6. ASSUME NEW c \in comp'.keys
        PROVE  \/ c \in (AllHeld \cup orphaned)'
               \/ \E u \in Injectors : /\ Unsent(u)' /\ ~event'[u].press
                                       /\ event'[u].key = c
    <3>1. CASE c \in AllHeld \cup orphaned
      <4>1. CASE c \in (AllHeld \cup orphaned)'
        BY <4>1
      <4>2. CASE c \notin (AllHeld \cup orphaned)'
        <5>1. c = k /\ ~press
          BY <2>1, <2>4, <3>1, <4>2 DEF AllHeld
        <5>2. QED
          BY <2>4, <5>1 DEF Unsent
      <4>3. QED
        BY <4>1, <4>2
    <3>2. CASE c \notin AllHeld \cup orphaned
      <4>1. PICK u \in Injectors : Unsent(u) /\ ~event[u].press /\ event[u].key = c
        BY <1>1, <2>1, <3>2 DEF DownForAReason
      <4>2. u # t
        BY <2>1, <4>1 DEF Unsent
      <4>3. QED
        BY <2>4, <4>1, <4>2 DEF Unsent
    <3>3. QED
      BY <3>1, <3>2
  <2>7. QED
    BY <2>3, <2>5, <2>6 DEF DownInv, DownForAReason, Unsent
<1>4. ASSUME NEW t \in Injectors, Store(t) PROVE DownInv'
  <2>1. /\ pc[t] = "store" /\ pc' = [pc EXCEPT ![t] = "load"]
        /\ event' = event /\ comp' = comp /\ held' = held /\ orphaned' = orphaned
        /\ word' = word /\ seen' = seen
    BY <1>4 DEF Store
  <2>2. mods' \in Input!ModState
    BY <1>1, <1>4 DEF Store, TypeOK, Input!ModState
  <2>3. TypeOK'
    BY <1>1, <2>1, <2>2 DEF TypeOK, Steps
  <2>4. /\ pc'[t] = "load" /\ \A u \in Injectors \ {t} : pc'[u] = pc[u]
    BY <1>1, <2>1 DEF TypeOK
  <2>5. QED
    BY <2>1, <2>3, <2>4, ReasonsStay DEF Unsent
<1>5. ASSUME NEW t \in Injectors, NEW from, NEW to,
             <<from, to>> \in {<<"load", "send">>, <<"reload", "resend">>},
             Load(t, from, to)
      PROVE  DownInv'
  <2>1. /\ pc[t] = from /\ pc' = [pc EXCEPT ![t] = to]
        /\ event' = event /\ comp' = comp /\ held' = held /\ orphaned' = orphaned
        /\ word' = [word EXCEPT ![t] = mods] /\ mods' = mods /\ seen' = seen
    BY <1>5 DEF Load
  <2>2. TypeOK'
    BY <1>1, <1>5, <2>1 DEF TypeOK, Steps
  <2>3. /\ pc'[t] = to /\ \A u \in Injectors \ {t} : pc'[u] = pc[u]
    BY <1>1, <2>1 DEF TypeOK
  <2>4. QED
    BY <1>5, <2>1, <2>2, <2>3, ReasonsStay DEF Unsent
<1>6. ASSUME NEW t \in Injectors, NEW from, NEW to,
             <<from, to>> \in {<<"send", "key">>, <<"resend", "idle">>},
             Send(t, from, to)
      PROVE  DownInv'
  <2>1. /\ pc[t] = from /\ pc' = [pc EXCEPT ![t] = to]
        /\ event' = event /\ held' = held /\ orphaned' = orphaned
        /\ word' = word /\ mods' = mods /\ seen' = seen
        /\ comp' = [comp EXCEPT !.mods = word[t]]
    BY <1>6 DEF Send, Sent
  <2>2. TypeOK' /\ comp'.keys = comp.keys
    BY <1>1, <1>6, <2>1 DEF TypeOK, Steps
  <2>3. /\ pc'[t] = to /\ \A u \in Injectors \ {t} : pc'[u] = pc[u]
    BY <1>1, <2>1 DEF TypeOK
  <2>4. QED
    BY <1>6, <2>1, <2>2, <2>3, ReasonsStay DEF Unsent
<1>7. ASSUME NEW t \in Injectors, SendKey(t) PROVE DownInv'
  <2> DEFINE k == event[t].key
  <2>1. /\ pc[t] = "key" /\ pc' = [pc EXCEPT ![t] = "reload"]
        /\ event' = event /\ held' = held /\ mods' = mods /\ word' = word
        /\ comp' = [comp EXCEPT !.keys = KeysDown(event[t])]
        /\ seen' = [key |-> k, press |-> event[t].press, mods |-> comp.mods]
        /\ orphaned' = IF event[t].press THEN orphaned ELSE orphaned \ {k}
    BY <1>7 DEF SendKey
  <2>2. /\ k \in Keys /\ event[t].press \in BOOLEAN
        /\ Unsent(t) /\ (event[t].press => k \in held[t])
    BY <1>1, <2>1 DEF PressesHeld, Unsent, TypeOK, Event
  <2>3. /\ comp'.keys = IF event[t].press THEN comp.keys \cup {k} ELSE comp.keys \ {k}
        /\ comp'.keys \subseteq Keys /\ comp'.mods = comp.mods
    BY <1>1, <2>1, <2>2 DEF KeysDown, TypeOK
  <2>4. TypeOK'
    <3>1. /\ pc' \in [Injectors -> Steps] /\ orphaned' \subseteq Keys
          /\ seen' \in [key : Keys \cup {0}, press : BOOLEAN, mods : Input!ModState]
          /\ comp' \in [mods : Input!ModState, keys : SUBSET Keys]
      BY <1>1, <2>1, <2>2, <2>3 DEF TypeOK, Steps
    <3>2. QED
      BY <1>1, <2>1, <3>1 DEF TypeOK
  <2>5. pc'[t] = "reload" /\ \A u \in Injectors \ {t} : pc'[u] = pc[u]
    BY <1>1, <2>1 DEF TypeOK
  <2>6. PressesHeld'
    BY <1>1, <2>1, <2>2, <2>5 DEF PressesHeld, Unsent
  <2>7. AllHeld' = AllHeld /\ (event[t].press => k \in AllHeld)
    BY <2>1, <2>2 DEF AllHeld
  <2>8. ASSUME NEW c \in comp'.keys
        PROVE  \/ c \in (AllHeld \cup orphaned)'
               \/ \E u \in Injectors : /\ Unsent(u)' /\ ~event'[u].press
                                       /\ event'[u].key = c
    <3>1. CASE event[t].press /\ c = k
      BY <2>7, <3>1
    <3>2. CASE ~(event[t].press /\ c = k)
      <4>1. c \in comp.keys /\ ~(~event[t].press /\ c = k)
        BY <2>2, <2>3, <2>8, <3>2
      <4>2. CASE c \in AllHeld \cup orphaned
        BY <2>1, <2>7, <4>1, <4>2
      <4>3. CASE c \notin AllHeld \cup orphaned
        <5>1. PICK u \in Injectors : Unsent(u) /\ ~event[u].press /\ event[u].key = c
          BY <1>1, <4>1, <4>3 DEF DownForAReason
        <5>2. u # t
          BY <4>1, <5>1
        <5>3. QED
          BY <2>1, <2>5, <5>1, <5>2 DEF Unsent
      <4>4. QED
        BY <4>2, <4>3
    <3>3. QED
      BY <3>1, <3>2
  <2>9. QED
    BY <2>4, <2>6, <2>8 DEF DownInv, DownForAReason, Unsent
<1>8. ASSUME NEW t \in Injectors, Disconnect(t) PROVE DownInv'
  <2>1. /\ pc[t] = "idle" /\ pc' = pc /\ event' = event /\ comp' = comp
        /\ held' = [held EXCEPT ![t] = {}] /\ orphaned' = orphaned \cup held[t]
        /\ mods' = mods /\ word' = word /\ seen' = seen
    BY <1>8 DEF Disconnect
  <2>2. TypeOK'
    BY <1>1, <2>1 DEF TypeOK
  <2>3. \A u \in Injectors \ {t} : held'[u] = held[u]
    BY <1>1, <2>1 DEF TypeOK
  <2>4. PressesHeld'
    BY <1>1, <2>1, <2>3 DEF PressesHeld, Unsent
  <2>5. AllHeld \cup orphaned \subseteq (AllHeld \cup orphaned)'
    BY <2>1, <2>3 DEF AllHeld
  <2>6. DownForAReason'
    BY <1>1, <2>1, <2>5 DEF DownForAReason, Unsent
  <2>7. QED
    BY <2>2, <2>4, <2>6 DEF DownInv
<1>9. QED
  BY <1>2, <1>3, <1>4, <1>5, <1>6, <1>7, <1>8 DEF Next

LEMMA DownInvariance == Spec => []DownInv
<1>1. Init => DownInv
  BY InitIInv DEF Init, IInv, DownInv, PressesHeld, DownForAReason, Unsent
<1>2. DownInv /\ [Next]_vars => DownInv'
  BY DownStep
<1>3. QED
  BY <1>1, <1>2, PTL DEF Spec

\* The type invariant of the keyboard bridge, for any number of threads.
THEOREM TypeCorrect == Spec => []TypeOK
BY DownInvariance, PTL DEF DownInv

\* However the updates and requests of any number of threads mix on the one
\* virtual keyboard, the portal leaves no key down that nobody holds and no
\* client went away with, although the modifiers may go wrong then.
THEOREM NoKeyStuck == Spec => []NoPhantomKey
<1>1. DownInv => NoPhantomKey
  BY DEF DownInv, DownForAReason, NoPhantomKey, Quiet, Unsent
<1>2. QED
  BY <1>1, DownInvariance, PTL
=============================================================================
