---------------------------- MODULE PointerBridge ----------------------------
(****************************************************************************)
(* How hyprcrd-portal delivers pointer events. The D-Bus event loop          *)
(* (NotifyPointer...) and every ConnectToEIS thread (handle_eis_event) turn  *)
(* an event into a sequence of requests that a frame ends. All of them use  *)
(* the one virtual pointer; nothing keeps the requests of two threads apart. *)
(****************************************************************************)
EXTENDS Integers, Sequences, FiniteSets

CONSTANTS
    EisThreads,   \* threads of ConnectToEIS
    Buttons,      \* the buttons clients press
    Amounts,      \* scroll distances clients send
    Wrap          \* the distances are summed modulo Wrap (a bound)

Injectors == {"dbus"} \cup EisThreads

ASSUME PointerAssumption ==
    /\ Wrap \in Nat \ {0}
    /\ Amounts \subseteq Int
    /\ "dbus" \notin EisThreads

VARIABLES
    todo,      \* the requests each injector still has to send for its event
    comp,      \* what the compositor's virtual pointer got
    held,      \* the buttons the client of each injector holds down
    orphaned,  \* buttons down when their client went away
    due        \* history: the distances all events so far are worth

vars == <<todo, comp, held, orphaned, due>>

Axes == {"horizontal", "vertical"}
Nowhere == [a \in Axes |-> 0]

Request(op, target, value) == [op |-> op, target |-> target, value |-> value]
Frame == Request("frame", "all", 0)
Wheel == Request("source", "wheel", 0)

----------------------------------------------------------------------------
(* The requests of an event. *)

\* Faulty form of Scroll: the axis source is passed as the axis.
ScrollSource(axis, value) ==
    IF value = 0 THEN <<>>
    ELSE <<Request("axis", "wheel", value), Request("stop", "wheel", 0)>>

\* Faulty form of Scroll: the scroll is left open.
ScrollOpen(axis, value) ==
    IF value = 0 THEN <<>> ELSE <<Request("axis", axis, value)>>

\* A smooth scroll along one axis, if there is any.
Scroll(axis, value) ==
    IF value = 0 THEN <<>>
    ELSE <<Request("axis", axis, value), Request("stop", axis, 0)>>

\* Faulty form of Smooth: a diagonal scroll only goes along one axis.
SmoothOneAxis(dx, dy) ==
    <<Wheel>> \o (IF dx # 0 THEN Scroll("horizontal", dx)
                            ELSE Scroll("vertical", dy)) \o <<Frame>>

Smooth(dx, dy) ==
    <<Wheel>> \o Scroll("horizontal", dx) \o Scroll("vertical", dy) \o <<Frame>>

Step(axis, steps) ==
    IF steps = 0 THEN <<>> ELSE <<Request("discrete", axis, 15 * steps)>>

\* Faulty form of Discrete: no frame ends the steps.
DiscreteUnframed(dx, dy) ==
    <<Wheel>> \o Step("vertical", dy) \o Step("horizontal", dx)

\* Wheel steps, each worth 15. An event without any is dropped.
Discrete(dx, dy) ==
    IF dx = 0 /\ dy = 0 THEN <<>>
    ELSE <<Wheel>> \o Step("vertical", dy) \o Step("horizontal", dx) \o <<Frame>>

----------------------------------------------------------------------------
(* The handlers. *)

Begin(i, requests) ==
    todo[i] = <<>> /\ todo' = [todo EXCEPT ![i] = requests]

\* What an event moves the content by, once all its requests are carried out.
Owe(dx, dy) ==
    due' = [horizontal |-> (due.horizontal + dx) % Wrap,
            vertical |-> (due.vertical + dy) % Wrap]

\* NotifyPointerMotion, POINTER_MOTION and POINTER_MOTION_ABSOLUTE.
Motion(i) ==
    /\ Begin(i, <<Request("motion", "pointer", 0), Frame>>)
    /\ UNCHANGED <<comp, held, orphaned, due>>

\* Faulty form of ButtonState: an event that is not a press is not a release.
AlwaysPress(press) == "press"

ButtonState(press) == IF press THEN "press" ELSE "release"

\* NotifyPointerButton and BUTTON_BUTTON: a client presses a button it does
\* not hold or releases one it holds.
Button(i, b, press) ==
    /\ (b \in held[i]) # press
    /\ Begin(i, <<Request(ButtonState(press), b, 0), Frame>>)
    /\ held' = [held EXCEPT ![i] = IF press THEN @ \cup {b} ELSE @ \ {b}]
    /\ UNCHANGED <<comp, orphaned, due>>

NotifyPointerAxis(dx, dy) ==
    /\ Begin("dbus", Smooth(dx, dy)) /\ Owe(dx, dy)
    /\ UNCHANGED <<comp, held, orphaned>>

ScrollDelta(e, dx, dy) ==
    /\ Begin(e, Smooth(15 * dx, 15 * dy)) /\ Owe(15 * dx, 15 * dy)
    /\ UNCHANGED <<comp, held, orphaned>>

ScrollDiscrete(e, dx, dy) ==
    /\ Begin(e, Discrete(dx, dy)) /\ Owe(15 * dx, 15 * dy)
    /\ UNCHANGED <<comp, held, orphaned>>

\* One request goes to the compositor; a frame is flushed with all before it.
After(i, r) ==
    [unframed |-> IF r.op = "frame" THEN {} ELSE comp.unframed \cup {i},
     scrolling |-> IF r.op = "axis" THEN comp.scrolling \cup {r.target}
                   ELSE IF r.op = "stop" THEN comp.scrolling \ {r.target}
                   ELSE comp.scrolling,
     down |-> IF r.op = "press" THEN comp.down \cup {r.target}
              ELSE IF r.op = "release" THEN comp.down \ {r.target}
              ELSE comp.down,
     travel |-> [a \in Axes |->
                   IF r.op \in {"axis", "discrete"} /\ r.target = a
                     THEN (comp.travel[a] + r.value) % Wrap
                     ELSE comp.travel[a]]]

Send(i) ==
    /\ todo[i] # <<>>
    /\ comp' = After(i, Head(todo[i]))
    /\ todo' = [todo EXCEPT ![i] = Tail(@)]
    /\ orphaned' = IF Head(todo[i]).op = "release"
                     THEN orphaned \ {Head(todo[i]).target} ELSE orphaned
    /\ UNCHANGED <<held, due>>

\* Neither the session's Close nor EIS_EVENT_CLIENT_DISCONNECT releases a
\* button. Another client may take the injector's place.
Disconnect(i) ==
    /\ todo[i] = <<>>
    /\ held' = [held EXCEPT ![i] = {}]
    /\ orphaned' = orphaned \cup held[i]
    /\ UNCHANGED <<todo, comp, due>>

----------------------------------------------------------------------------
Init ==
    /\ todo = [i \in Injectors |-> <<>>]
    /\ comp = [unframed |-> {}, scrolling |-> {}, down |-> {}, travel |-> Nowhere]
    /\ held = [i \in Injectors |-> {}]
    /\ orphaned = {}
    /\ due = Nowhere

Next ==
    \/ \E i \in Injectors :
         \/ Motion(i) \/ Send(i) \/ Disconnect(i)
         \/ \E b \in Buttons, press \in BOOLEAN : Button(i, b, press)
    \/ \E dx, dy \in Amounts :
         \/ NotifyPointerAxis(dx, dy)
         \/ \E e \in EisThreads : ScrollDelta(e, dx, dy) \/ ScrollDiscrete(e, dx, dy)

Spec == Init /\ [][Next]_vars

----------------------------------------------------------------------------
(* Properties. All but FramesHoldOneEvent hold for any number of injectors. *)

Requests == [op : {"motion", "press", "release", "source", "axis", "stop",
                   "discrete", "frame"},
             target : Buttons \cup Axes \cup {"pointer", "wheel", "all"},
             value : Int]

\* The type invariant.
TypeOK ==
    /\ todo \in [Injectors -> Seq(Requests)]
    /\ comp \in [unframed : SUBSET Injectors, scrolling : SUBSET Axes,
                 down : SUBSET Buttons, travel : [Axes -> 0 .. Wrap - 1]]
    /\ held \in [Injectors -> SUBSET Buttons]
    /\ orphaned \subseteq Buttons
    /\ due \in [Axes -> 0 .. Wrap - 1]

Pending(i, r) == \E n \in 1 .. Len(todo[i]) : todo[i][n] = r

Quiet == \A i \in Injectors : todo[i] = <<>>

AllHeld == UNION {held[i] : i \in Injectors}

\* Whatever an injector has begun is finished by an injector still at work,
\* however the requests of the threads mix: a frame follows every request, so
\* that an application sees it, and no application is left scrolling.
EventsCompleted ==
    /\ \A i \in comp.unframed : Pending(i, Frame)
    /\ \A a \in comp.scrolling : \E i \in Injectors : Pending(i, Request("stop", a, 0))

\* A button is down only while a client holds it, or because the client went
\* away with it, or its release is on its way.
NoPhantomButton ==
    \A b \in comp.down :
        \/ b \in AllHeld \cup orphaned
        \/ \E i \in Injectors : Pending(i, Request("release", b, 0))

\* Between events the content has moved by what all events together are worth:
\* each counts once, along each axis, at the scale of its kind.
ScrollsInFull == Quiet => comp.travel = due

\* Not kept by the code with two injectors, what the protocol says of a frame,
\* that it "Indicates the set of events that logically belong together": no
\* two injectors have requests in the same one.
FramesHoldOneEvent == Cardinality(comp.unframed) <= 1
=============================================================================
