------------------------- MODULE PointerBridgeProofs -------------------------
(****************************************************************************)
(* The pointer leaves nothing unfinished, for any number of injectors,       *)
(* buttons and distances: every request an injector sends comes from a       *)
(* sequence that ends with a frame and stops each scroll it begins, and what *)
(* the others send in between takes nothing of it away. What is scrolled in  *)
(* the end is what all events are worth.                                     *)
(****************************************************************************)
EXTENDS PointerBridge, SequenceTheorems, WellFoundedInduction, TLAPS

\* The requests of an event, or what is left of them, of a client that holds
\* the buttons down: an axis request is followed by its stop, and a press is of
\* a button that is still held.
WellFormed(q, down) ==
    /\ q \in Seq(Requests)
    /\ \A n \in 1 .. Len(q) :
         /\ q[n].op = "axis" => /\ n < Len(q)
                                /\ q[n + 1] = Request("stop", q[n].target, 0)
         /\ q[n].op \in {"axis", "stop"} => q[n].target \in Axes
         /\ q[n].op \in {"press", "release"} => q[n].target \in Buttons
         /\ q[n].op = "press" => q[n].target \in down

EndsFramed(q) == q # <<>> => q[Len(q)] = Frame

Orderly ==
    \A i \in Injectors : WellFormed(todo[i], held[i]) /\ EndsFramed(todo[i])

\* EventsCompleted and NoPhantomButton speak of what is still to be sent; that
\* it is there follows from the form of what is left of each event.
IInv == TypeOK /\ Orderly /\ EventsCompleted /\ NoPhantomButton

----------------------------------------------------------------------------
(* The requests of an event. *)

LEMMA RequestTypes ==
    /\ Frame \in Requests /\ Wheel \in Requests
    /\ \A op \in {"axis", "stop", "discrete"}, a \in Axes, v \in Int :
          Request(op, a, v) \in Requests
    /\ \A op \in {"press", "release"}, b \in Buttons : Request(op, b, 0) \in Requests
    /\ Request("motion", "pointer", 0) \in Requests
BY DEF Frame, Wheel, Request, Requests, Axes

LEMMA ConcatWellFormed ==
    ASSUME NEW p, NEW q, NEW down, WellFormed(p, down), WellFormed(q, down)
    PROVE  WellFormed(p \o q, down)
<1>1. p \in Seq(Requests) /\ q \in Seq(Requests)
  BY DEF WellFormed
<1>2. /\ p \o q \in Seq(Requests)
      /\ Len(p \o q) = Len(p) + Len(q)
      /\ \A i \in 1 .. Len(p) + Len(q) :
            (p \o q)[i] = IF i <= Len(p) THEN p[i] ELSE q[i - Len(p)]
  BY <1>1, ConcatProperties
<1>3. Len(p) \in Nat /\ Len(q) \in Nat
  BY <1>1, LenProperties
<1>4. ASSUME NEW n \in 1 .. Len(p \o q)
      PROVE  LET r == p \o q IN
             /\ r[n].op = "axis" => /\ n < Len(r)
                                    /\ r[n + 1] = Request("stop", r[n].target, 0)
             /\ r[n].op \in {"axis", "stop"} => r[n].target \in Axes
             /\ r[n].op \in {"press", "release"} => r[n].target \in Buttons
             /\ r[n].op = "press" => r[n].target \in down
  <2> DEFINE r == p \o q
  <2>1. CASE n <= Len(p)
    <3>1. n \in 1 .. Len(p) /\ r[n] = p[n]
      BY <1>2, <1>3, <2>1
    <3>2. n < Len(p) => r[n + 1] = p[n + 1] /\ n < Len(r)
      BY <1>2, <1>3, <2>1
    <3>3. QED
      BY <3>1, <3>2 DEF WellFormed
  <2>2. CASE n > Len(p)
    <3> DEFINE k == n - Len(p)
    <3>1. k \in 1 .. Len(q) /\ r[n] = q[k]
      BY <1>2, <1>3, <2>2
    <3>2. k < Len(q) => r[n + 1] = q[k + 1] /\ n < Len(r)
      <4>1. SUFFICES ASSUME k < Len(q) PROVE r[n + 1] = q[k + 1] /\ n < Len(r)
        OBVIOUS
      <4>2. n + 1 \in 1 .. Len(p) + Len(q) /\ ~(n + 1 <= Len(p))
            /\ (n + 1) - Len(p) = k + 1
        BY <1>3, <2>2, <4>1
      <4>3. QED
        BY <1>2, <1>3, <2>2, <4>1, <4>2
    <3>3. QED
      BY <3>1, <3>2 DEF WellFormed
  <2>3. QED
    BY <1>2, <1>3, <2>1, <2>2
<1>5. QED
  BY <1>2, <1>4 DEF WellFormed

LEMMA SmallWellFormed ==
    ASSUME NEW down
    PROVE
    /\ WellFormed(<<>>, down) /\ WellFormed(<<Wheel>>, down) /\ WellFormed(<<Frame>>, down)
    /\ WellFormed(<<Request("motion", "pointer", 0)>>, down)
    /\ \A b \in Buttons, press \in BOOLEAN :
          (press => b \in down)
              => WellFormed(<<Request(ButtonState(press), b, 0)>>, down)
    /\ \A a \in Axes, v \in Int : WellFormed(Scroll(a, v), down) /\ WellFormed(Step(a, v), down)
<1>1. WellFormed(<<>>, down)
  BY DEF WellFormed
<1>2. ASSUME NEW r \in Requests, r.op # "axis",
             r.op = "stop" => r.target \in Axes,
             r.op \in {"press", "release"} => r.target \in Buttons,
             r.op = "press" => r.target \in down
      PROVE  WellFormed(<<r>>, down)
  BY <1>2 DEF WellFormed
<1>3. WellFormed(<<Wheel>>, down) /\ WellFormed(<<Frame>>, down)
      /\ WellFormed(<<Request("motion", "pointer", 0)>>, down)
  BY <1>2, RequestTypes DEF Wheel, Frame, Request
<1>4. ASSUME NEW b \in Buttons, NEW press \in BOOLEAN, press => b \in down
      PROVE  WellFormed(<<Request(ButtonState(press), b, 0)>>, down)
  <2>1. ButtonState(press) \in {"press", "release"}
        /\ (ButtonState(press) = "press" => b \in down)
    BY <1>4 DEF ButtonState
  <2>2. QED
    BY <1>2, <2>1, RequestTypes DEF Request
<1>5. ASSUME NEW a \in Axes, NEW v \in Int PROVE WellFormed(Scroll(a, v), down)
  <2> DEFINE q == <<Request("axis", a, v), Request("stop", a, 0)>>
  <2>1. Request("axis", a, v) \in Requests /\ Request("stop", a, 0) \in Requests
    BY RequestTypes
  <2>2. q \in Seq(Requests) /\ Len(q) = 2
    BY <2>1
  <2>3. /\ q[1].op = "axis" /\ q[1].target = a /\ q[2] = Request("stop", a, 0)
        /\ q[2].op = "stop" /\ q[2].target = a
    BY DEF Request
  <2>4. WellFormed(q, down)
    BY <2>2, <2>3 DEF WellFormed
  <2>5. QED
    BY <1>1, <2>4 DEF Scroll
<1>6. ASSUME NEW a \in Axes, NEW v \in Int PROVE WellFormed(Step(a, v), down)
  <2>1. Request("discrete", a, 15 * v) \in Requests
    BY RequestTypes
  <2>2. WellFormed(<<Request("discrete", a, 15 * v)>>, down)
    BY <1>2, <2>1 DEF Request
  <2>3. QED
    BY <1>1, <2>2 DEF Step
<1>7. QED
  BY <1>1, <1>3, <1>4, <1>5, <1>6

\* What a frame is put behind is framed.
LEMMA FrameEnds ==
    ASSUME NEW q, NEW down, WellFormed(q, down)
    PROVE  WellFormed(q \o <<Frame>>, down) /\ EndsFramed(q \o <<Frame>>)
<1>1. WellFormed(<<Frame>>, down) /\ <<Frame>> \in Seq(Requests) /\ Len(<<Frame>>) = 1
  BY SmallWellFormed, RequestTypes
<1>2. q \in Seq(Requests) /\ Len(q) \in Nat
  BY LenProperties DEF WellFormed
<1>3. /\ Len(q \o <<Frame>>) = Len(q) + 1
      /\ (q \o <<Frame>>)[Len(q) + 1] = <<Frame>>[1]
  BY <1>1, <1>2, ConcatProperties
<1>4. QED
  BY <1>1, <1>3, ConcatWellFormed DEF EndsFramed

\* Every kind of scrolling, by whoever holds whatever buttons down.
LEMMA ScrollEvents ==
    ASSUME NEW dx \in Int, NEW dy \in Int, NEW down
    PROVE  /\ WellFormed(Smooth(dx, dy), down) /\ EndsFramed(Smooth(dx, dy))
           /\ WellFormed(Discrete(dx, dy), down) /\ EndsFramed(Discrete(dx, dy))
<1>1. "horizontal" \in Axes /\ "vertical" \in Axes
  BY DEF Axes
<1>2. WellFormed(<<Wheel>> \o Scroll("horizontal", dx) \o Scroll("vertical", dy), down)
  BY <1>1, SmallWellFormed, ConcatWellFormed
<1>3. WellFormed(<<Wheel>> \o Step("vertical", dy) \o Step("horizontal", dx), down)
  <2>1. /\ WellFormed(<<Wheel>>, down)
        /\ WellFormed(Step("vertical", dy), down)
        /\ WellFormed(Step("horizontal", dx), down)
    BY <1>1, SmallWellFormed
  <2>2. WellFormed(<<Wheel>> \o Step("vertical", dy), down)
    BY <2>1, ConcatWellFormed
  <2>3. QED
    BY <2>1, <2>2, ConcatWellFormed
<1>4. WellFormed(<<>>, down) /\ EndsFramed(<<>>)
  BY SmallWellFormed DEF EndsFramed
<1>5. QED
  BY <1>2, <1>3, <1>4, FrameEnds DEF Smooth, Discrete

\* A motion or a button.
LEMMA FramedRequest ==
    ASSUME NEW r, NEW down, WellFormed(<<r>>, down)
    PROVE  WellFormed(<<r, Frame>>, down) /\ EndsFramed(<<r, Frame>>)
<1>1. r \in Requests /\ r.op # "axis"
      /\ (r.op \in {"axis", "stop"} => r.target \in Axes)
      /\ (r.op \in {"press", "release"} => r.target \in Buttons)
      /\ (r.op = "press" => r.target \in down)
  BY DEF WellFormed
<1>2. Frame \in Requests /\ Frame.op = "frame"
  BY RequestTypes DEF Frame, Request
<1>3. /\ <<r, Frame>> \in Seq(Requests) /\ Len(<<r, Frame>>) = 2
      /\ <<r, Frame>>[1] = r /\ <<r, Frame>>[2] = Frame
  BY <1>1, <1>2
<1>4. QED
  BY <1>1, <1>2, <1>3 DEF WellFormed, EndsFramed

----------------------------------------------------------------------------
(* The steps. *)

LEMMA InitIInv == Init => IInv
<1>1. SUFFICES ASSUME Init PROVE IInv
  OBVIOUS
<1>2. TypeOK
  BY <1>1, PointerAssumption DEF Init, TypeOK, Nowhere, Axes
<1>3. Orderly
  BY <1>1, SmallWellFormed DEF Init, Orderly, EndsFramed
<1>4. EventsCompleted /\ NoPhantomButton
  BY <1>1 DEF Init, EventsCompleted, NoPhantomButton
<1>5. QED
  BY <1>2, <1>3, <1>4 DEF IInv

\* An event begins: nothing of another's is lost, for i had nothing to send.
LEMMA BeginStep ==
    ASSUME IInv, NEW i \in Injectors, NEW q, Begin(i, q),
           held' \in [Injectors -> SUBSET Buttons],
           \A j \in Injectors \ {i} : held'[j] = held[j],
           WellFormed(q, held'[i]), EndsFramed(q), comp' = comp
    PROVE  /\ todo' \in [Injectors -> Seq(Requests)]
           /\ Orderly'
           /\ EventsCompleted'
           /\ \A j \in Injectors, r \in Requests : Pending(j, r) => Pending(j, r)'
<1>1. todo \in [Injectors -> Seq(Requests)] /\ todo[i] = <<>>
      /\ todo' = [todo EXCEPT ![i] = q]
  BY DEF IInv, TypeOK, Begin
<1>2. todo' \in [Injectors -> Seq(Requests)]
  BY <1>1 DEF WellFormed
<1>3. todo'[i] = q /\ \A j \in Injectors \ {i} : todo'[j] = todo[j]
  BY <1>1
<1>4. Orderly'
  <2>1. SUFFICES ASSUME NEW j \in Injectors
                 PROVE  WellFormed(todo'[j], held'[j]) /\ EndsFramed(todo'[j])
    BY DEF Orderly, WellFormed, EndsFramed
  <2>2. CASE j = i
    BY <1>3, <2>2
  <2>3. CASE j # i
    BY <1>3, <2>3 DEF IInv, Orderly
  <2>4. QED
    BY <2>2, <2>3
<1>5. ASSUME NEW j \in Injectors, NEW r \in Requests, Pending(j, r)
      PROVE  Pending(j, r)'
  BY <1>1, <1>3, <1>5 DEF Pending
<1>6. EventsCompleted'
  <2>1. ASSUME NEW j \in comp'.unframed PROVE Pending(j, Frame)'
    BY <1>5, <2>1, RequestTypes DEF IInv, TypeOK, EventsCompleted
  <2>2. ASSUME NEW a \in comp'.scrolling
        PROVE  \E j \in Injectors : Pending(j, Request("stop", a, 0))'
    <3>1. a \in Axes /\ a \in comp.scrolling
      BY <2>2 DEF IInv, TypeOK
    <3>2. PICK j \in Injectors : Pending(j, Request("stop", a, 0))
      BY <3>1 DEF IInv, EventsCompleted
    <3>3. Request("stop", a, 0) \in Requests
      BY <3>1, RequestTypes
    <3>4. QED
      BY <1>5, <3>2, <3>3
  <2>3. QED
    BY <2>1, <2>2 DEF EventsCompleted, Pending, Frame, Request
<1>7. QED
  BY <1>2, <1>4, <1>5, <1>6

\* The types a step of an injector that begins an event leaves as they are.
LEMMA BeginTypes ==
    ASSUME IInv, NEW i \in Injectors, NEW q, Begin(i, q), WellFormed(q, held'[i]),
           held' \in [Injectors -> SUBSET Buttons], comp' = comp,
           orphaned' = orphaned, due' \in [Axes -> 0 .. Wrap - 1]
    PROVE  TypeOK'
BY DEF IInv, TypeOK, Begin, WellFormed

LEMMA OweTypes ==
    ASSUME IInv, NEW dx \in Int, NEW dy \in Int, Owe(dx, dy)
    PROVE  due' \in [Axes -> 0 .. Wrap - 1]
<1>1. due.horizontal \in Int /\ due.vertical \in Int
  BY PointerAssumption DEF IInv, TypeOK, Axes
<1>2. ASSUME NEW n \in Int PROVE n % Wrap \in 0 .. Wrap - 1
  BY PointerAssumption
<1>3. /\ (due.horizontal + dx) % Wrap \in 0 .. Wrap - 1
      /\ (due.vertical + dy) % Wrap \in 0 .. Wrap - 1
  BY <1>1, <1>2
<1>4. QED
  BY <1>3 DEF Owe, Axes

\* A button that is down keeps its reason if no client lets go of it.
LEMMA ReasonsKept ==
    ASSUME IInv, comp' = comp, AllHeld \cup orphaned \subseteq (AllHeld \cup orphaned)',
           \A j \in Injectors, r \in Requests : Pending(j, r) => Pending(j, r)'
    PROVE  NoPhantomButton'
<1>1. ASSUME NEW b \in comp'.down
      PROVE  \/ b \in (AllHeld \cup orphaned)'
             \/ \E j \in Injectors : Pending(j, Request("release", b, 0))'
  <2>1. b \in comp.down /\ b \in Buttons
    BY <1>1 DEF IInv, TypeOK
  <2>2. Request("release", b, 0) \in Requests
    BY <2>1, RequestTypes
  <2>3. QED
    BY <2>1, <2>2 DEF IInv, NoPhantomButton
<1>2. QED
  BY <1>1 DEF NoPhantomButton, Pending, Request

LEMMA MotionStep ==
    ASSUME IInv, NEW i \in Injectors, Motion(i) PROVE IInv'
<1> DEFINE q == <<Request("motion", "pointer", 0), Frame>>
<1>1. WellFormed(q, held'[i]) /\ EndsFramed(q)
  BY SmallWellFormed, FramedRequest
<1>2. /\ Begin(i, q) /\ held' = held /\ comp' = comp
      /\ orphaned' = orphaned /\ due' = due
  BY DEF Motion
<1>3. held' \in [Injectors -> SUBSET Buttons] /\ due' \in [Axes -> 0 .. Wrap - 1]
  BY <1>2 DEF IInv, TypeOK
<1>4. TypeOK' /\ Orderly' /\ EventsCompleted'
      /\ \A j \in Injectors, r \in Requests : Pending(j, r) => Pending(j, r)'
  BY <1>1, <1>2, <1>3, BeginStep, BeginTypes
<1>5. NoPhantomButton'
  BY <1>2, <1>4, ReasonsKept DEF AllHeld
<1>6. QED
  BY <1>4, <1>5 DEF IInv

LEMMA ScrollStep ==
    ASSUME IInv, NEW i \in Injectors, NEW dx \in Int, NEW dy \in Int,
           Begin(i, Smooth(dx, dy)) \/ Begin(i, Discrete(dx, dy)),
           due' \in [Axes -> 0 .. Wrap - 1], UNCHANGED <<comp, held, orphaned>>
    PROVE  IInv'
<1>1. PICK q \in {Smooth(dx, dy), Discrete(dx, dy)} : Begin(i, q)
  OBVIOUS
<1>2. WellFormed(q, held'[i]) /\ EndsFramed(q)
  BY <1>1, ScrollEvents
<1>3. held' \in [Injectors -> SUBSET Buttons]
  BY DEF IInv, TypeOK
<1>4. TypeOK' /\ Orderly' /\ EventsCompleted'
      /\ \A j \in Injectors, r \in Requests : Pending(j, r) => Pending(j, r)'
  BY <1>1, <1>2, <1>3, BeginStep, BeginTypes
<1>5. NoPhantomButton'
  BY <1>4, ReasonsKept DEF AllHeld
<1>6. QED
  BY <1>4, <1>5 DEF IInv

\* A press: the client holds the button from now on. A release: the client lets
\* go of it, and the request to lift it is on its way.
LEMMA ButtonStep ==
    ASSUME IInv, NEW i \in Injectors, NEW b \in Buttons, NEW press \in BOOLEAN,
           Button(i, b, press)
    PROVE  IInv'
<1> DEFINE r == Request(ButtonState(press), b, 0)
           q == <<r, Frame>>
<1>1. /\ Begin(i, q) /\ comp' = comp /\ orphaned' = orphaned /\ due' = due
      /\ held' = [held EXCEPT ![i] = IF press THEN @ \cup {b} ELSE @ \ {b}]
  BY DEF Button
<1>2. held \in [Injectors -> SUBSET Buttons]
  BY DEF IInv, TypeOK
<1>3. /\ held' \in [Injectors -> SUBSET Buttons]
      /\ \A j \in Injectors \ {i} : held'[j] = held[j]
      /\ press => b \in held'[i]
      /\ held[i] \subseteq held'[i] \cup {b}
      /\ press => held[i] \subseteq held'[i]
  BY <1>1, <1>2
<1>4. WellFormed(q, held'[i]) /\ EndsFramed(q)
  <2>1. WellFormed(<<r>>, held'[i])
    BY <1>3, SmallWellFormed
  <2>2. QED
    BY <2>1, FramedRequest
<1>5. TypeOK' /\ Orderly' /\ EventsCompleted'
      /\ \A j \in Injectors, x \in Requests : Pending(j, x) => Pending(j, x)'
  <2>1. due' \in [Axes -> 0 .. Wrap - 1]
    BY <1>1 DEF IInv, TypeOK
  <2>2. QED
    BY <1>1, <1>3, <1>4, <2>1, BeginStep, BeginTypes
<1>6. AllHeld \subseteq AllHeld' \cup {b}
  BY <1>2, <1>3 DEF AllHeld
<1>7. CASE press
  <2>1. AllHeld \subseteq AllHeld'
    BY <1>2, <1>3, <1>7 DEF AllHeld
  <2>2. NoPhantomButton'
    BY <1>1, <1>5, <2>1, ReasonsKept
  <2>3. QED
    BY <1>5, <2>2 DEF IInv
<1>8. CASE ~press
  <2>1. todo'[i] = q /\ q[1] = Request("release", b, 0) /\ 1 \in 1 .. Len(q)
    BY <1>1, <1>8 DEF Begin, IInv, TypeOK, ButtonState
  <2>2. ASSUME NEW c \in comp'.down
        PROVE  \/ c \in (AllHeld \cup orphaned)'
               \/ \E j \in Injectors : Pending(j, Request("release", c, 0))'
    <3>1. CASE c = b
      BY <2>1, <3>1 DEF Pending
    <3>2. CASE c # b
      <4>1. c \in comp.down /\ c \in Buttons
        BY <1>1, <2>2 DEF IInv, TypeOK
      <4>2. Request("release", c, 0) \in Requests
        BY <4>1, RequestTypes
      <4>3. \/ c \in AllHeld \cup orphaned
            \/ \E j \in Injectors : Pending(j, Request("release", c, 0))
        BY <4>1 DEF IInv, NoPhantomButton
      <4>4. QED
        BY <1>1, <1>5, <1>6, <3>2, <4>2, <4>3
    <3>3. QED
      BY <3>1, <3>2
  <2>3. NoPhantomButton'
    BY <2>2 DEF NoPhantomButton, Pending, Request
  <2>4. QED
    BY <1>5, <2>3 DEF IInv
<1>9. QED
  BY <1>7, <1>8

LEMMA DisconnectStep ==
    ASSUME IInv, NEW i \in Injectors, Disconnect(i) PROVE IInv'
<1>1. /\ todo[i] = <<>> /\ todo' = todo /\ comp' = comp /\ due' = due
      /\ held' = [held EXCEPT ![i] = {}] /\ orphaned' = orphaned \cup held[i]
  BY DEF Disconnect
<1>2. held \in [Injectors -> SUBSET Buttons]
  BY DEF IInv, TypeOK
<1>3. held'[i] = {} /\ \A j \in Injectors \ {i} : held'[j] = held[j]
  BY <1>1, <1>2
<1>4. TypeOK'
  BY <1>1 DEF IInv, TypeOK
<1>5. Orderly'
  <2>1. SUFFICES ASSUME NEW j \in Injectors
                 PROVE  WellFormed(todo'[j], held'[j]) /\ EndsFramed(todo'[j])
    BY DEF Orderly, WellFormed, EndsFramed
  <2>2. CASE j = i
    BY <1>1, <2>2, SmallWellFormed DEF EndsFramed
  <2>3. CASE j # i
    BY <1>1, <1>3, <2>3 DEF IInv, Orderly
  <2>4. QED
    BY <2>2, <2>3
<1>6. EventsCompleted'
  BY <1>1 DEF IInv, EventsCompleted, Pending
<1>7. NoPhantomButton'
  <2>1. AllHeld \cup orphaned \subseteq (AllHeld \cup orphaned)'
    BY <1>1, <1>2, <1>3 DEF AllHeld
  <2>2. \A j \in Injectors, r \in Requests : Pending(j, r) => Pending(j, r)'
    BY <1>1 DEF Pending
  <2>3. QED
    BY <1>1, <2>1, <2>2, ReasonsKept
<1>8. QED
  BY <1>4, <1>5, <1>6, <1>7 DEF IInv

----------------------------------------------------------------------------
(* A request goes out. *)

\* What is left of an event keeps its form, and holds all but the request sent.
LEMMA TailOrderly ==
    ASSUME NEW q, NEW down, q # <<>>, WellFormed(q, down), EndsFramed(q)
    PROVE  /\ Head(q) = q[1] /\ Head(q) \in Requests /\ Len(q) \in Nat \ {0}
           /\ WellFormed(Tail(q), down) /\ EndsFramed(Tail(q))
           /\ \A n \in 2 .. Len(q) : Tail(q)[n - 1] = q[n]
           /\ Len(Tail(q)) = Len(q) - 1
<1>1. q \in Seq(Requests) /\ Len(q) \in Nat \ {0}
  BY EmptySeq DEF WellFormed
<1>2. /\ Head(q) \in Requests /\ Tail(q) \in Seq(Requests)
      /\ Len(Tail(q)) = Len(q) - 1
      /\ \A n \in 1 .. Len(Tail(q)) : Tail(q)[n] = q[n + 1]
  BY <1>1, HeadTailProperties
<1>3. WellFormed(Tail(q), down)
  <2>1. SUFFICES ASSUME NEW n \in 1 .. Len(Tail(q))
                 PROVE  LET t == Tail(q) IN
                        /\ t[n].op = "axis" =>
                              n < Len(t) /\ t[n + 1] = Request("stop", t[n].target, 0)
                        /\ t[n].op \in {"axis", "stop"} => t[n].target \in Axes
                        /\ t[n].op \in {"press", "release"} => t[n].target \in Buttons
                        /\ t[n].op = "press" => t[n].target \in down
    BY <1>2 DEF WellFormed
  <2>2. n + 1 \in 1 .. Len(q) /\ Tail(q)[n] = q[n + 1]
    BY <1>1, <1>2
  <2>3. n + 1 < Len(q) => n < Len(Tail(q)) /\ Tail(q)[n + 1] = q[n + 1 + 1]
    BY <1>1, <1>2
  <2>4. QED
    BY <2>2, <2>3 DEF WellFormed
<1>4. EndsFramed(Tail(q))
  <2>1. SUFFICES ASSUME Tail(q) # <<>> PROVE Tail(q)[Len(Tail(q))] = Frame
    BY DEF EndsFramed
  <2>2. Len(Tail(q)) \in Nat \ {0}
    BY <1>2, <2>1, EmptySeq
  <2>3. QED
    BY <1>1, <1>2, <2>2 DEF EndsFramed
<1>5. Head(q) = q[1]
  BY <1>1
<1>6. QED
  BY <1>1, <1>2, <1>3, <1>4, <1>5

LEMMA SendStep ==
    ASSUME IInv, NEW i \in Injectors, Send(i) PROVE IInv'
<1> DEFINE q == todo[i]
           r == Head(q)
<1>1. /\ q # <<>> /\ comp' = After(i, r) /\ todo' = [todo EXCEPT ![i] = Tail(@)]
      /\ held' = held /\ due' = due
      /\ orphaned' = IF r.op = "release" THEN orphaned \ {r.target} ELSE orphaned
  BY DEF Send
<1>2. todo \in [Injectors -> Seq(Requests)] /\ WellFormed(q, held[i]) /\ EndsFramed(q)
  BY DEF IInv, TypeOK, Orderly
<1>3. todo'[i] = Tail(q) /\ \A j \in Injectors \ {i} : todo'[j] = todo[j]
  BY <1>1, <1>2
<1>4. /\ r = q[1] /\ r \in Requests /\ Len(q) \in Nat \ {0}
      /\ WellFormed(Tail(q), held[i]) /\ EndsFramed(Tail(q))
      /\ \A n \in 2 .. Len(q) : Tail(q)[n - 1] = q[n]
      /\ Len(Tail(q)) = Len(q) - 1
  BY <1>1, <1>2, TailOrderly
<1>5. ASSUME NEW j \in Injectors, NEW x, Pending(j, x), j # i \/ x # r
      PROVE  Pending(j, x)'
  <2>1. PICK n \in 1 .. Len(todo[j]) : todo[j][n] = x
    BY <1>5 DEF Pending
  <2>2. CASE j # i
    BY <1>3, <2>1, <2>2 DEF Pending
  <2>3. CASE j = i
    <3>1. n \in 2 .. Len(q) /\ n - 1 \in 1 .. Len(Tail(q)) /\ Tail(q)[n - 1] = x
      BY <1>4, <1>5, <2>1, <2>3
    <3>2. QED
      BY <1>3, <2>3, <3>1 DEF Pending
  <2>4. QED
    BY <2>2, <2>3
<1>6. TypeOK'
  <2>1. todo' \in [Injectors -> Seq(Requests)]
    BY <1>1, <1>2, <1>4 DEF WellFormed
  <2>2. /\ r.value \in Int
        /\ comp.travel \in [Axes -> 0 .. Wrap - 1]
    BY <1>4 DEF Requests, IInv, TypeOK
  <2>3. \A a \in Axes : (comp.travel[a] + r.value) % Wrap \in 0 .. Wrap - 1
    <3>1. ASSUME NEW n \in Int PROVE n % Wrap \in 0 .. Wrap - 1
      BY PointerAssumption
    <3>2. \A a \in Axes : comp.travel[a] + r.value \in Int
      BY <2>2
    <3>3. QED
      BY <3>1, <3>2
  <2>4. 1 \in 1 .. Len(q) /\ q[1] = r
    BY <1>4
  <2>5. /\ r.op \in {"axis", "stop"} => r.target \in Axes
        /\ r.op \in {"press", "release"} => r.target \in Buttons
    BY <1>2, <2>4 DEF WellFormed
  <2>6. comp' \in [unframed : SUBSET Injectors, scrolling : SUBSET Axes,
                   down : SUBSET Buttons, travel : [Axes -> 0 .. Wrap - 1]]
    BY <1>1, <2>2, <2>3, <2>5 DEF After, IInv, TypeOK
  <2>7. QED
    BY <1>1, <2>1, <2>6 DEF IInv, TypeOK
<1>7. Orderly'
  <2>1. SUFFICES ASSUME NEW j \in Injectors
                 PROVE  WellFormed(todo'[j], held'[j]) /\ EndsFramed(todo'[j])
    BY DEF Orderly, WellFormed, EndsFramed
  <2>2. CASE j = i
    BY <1>1, <1>3, <1>4, <2>2
  <2>3. CASE j # i
    BY <1>1, <1>3, <2>3 DEF IInv, Orderly
  <2>4. QED
    BY <2>2, <2>3
<1>8. ASSUME NEW j \in comp'.unframed PROVE Pending(j, Frame)'
  <2>1. r.op # "frame" /\ j \in comp.unframed \cup {i} /\ j \in Injectors
    BY <1>1, <1>8 DEF After, IInv, TypeOK
  <2>2. r # Frame
    BY <2>1 DEF Frame, Request
  <2>3. Pending(i, Frame)
    BY <1>1, <1>2, <1>4 DEF EndsFramed, Pending
  <2>4. Pending(j, Frame)
    BY <2>1, <2>3 DEF IInv, EventsCompleted
  <2>5. QED
    BY <1>5, <2>1, <2>2, <2>4
<1>9. ASSUME NEW a \in comp'.scrolling
      PROVE  \E j \in Injectors : Pending(j, Request("stop", a, 0))'
  <2>1. CASE r.op = "axis" /\ r.target = a
    <3>1. 1 \in 1 .. Len(q) /\ 1 < Len(q) /\ q[2] = Request("stop", a, 0)
      BY <1>2, <1>4, <2>1 DEF WellFormed
    <3>2. Pending(i, Request("stop", a, 0)) /\ r # Request("stop", a, 0)
      BY <1>4, <2>1, <3>1 DEF Pending, Request
    <3>3. QED
      BY <1>5, <3>2
  <2>2. CASE ~(r.op = "axis" /\ r.target = a)
    <3>1. a \in comp.scrolling /\ ~(r.op = "stop" /\ r.target = a)
      BY <1>1, <1>9, <2>2 DEF After
    <3>2. r # Request("stop", a, 0)
      BY <3>1 DEF Request
    <3>3. PICK j \in Injectors : Pending(j, Request("stop", a, 0))
      BY <3>1 DEF IInv, EventsCompleted
    <3>4. QED
      BY <1>5, <3>2, <3>3
  <2>3. QED
    BY <2>1, <2>2
<1>10. EventsCompleted'
  BY <1>8, <1>9 DEF EventsCompleted, Pending, Frame, Request
<1>11. ASSUME NEW b \in comp'.down
       PROVE  \/ b \in (AllHeld \cup orphaned)'
              \/ \E j \in Injectors : Pending(j, Request("release", b, 0))'
  <2>1. AllHeld' = AllHeld
    BY <1>1 DEF AllHeld
  <2>2. CASE r.op = "press" /\ r.target = b
    <3>1. 1 \in 1 .. Len(q)
      BY <1>4
    <3>2. b \in held[i]
      BY <1>2, <1>4, <2>2, <3>1 DEF WellFormed
    <3>3. QED
      BY <2>1, <3>2 DEF AllHeld
  <2>3. CASE ~(r.op = "press" /\ r.target = b)
    <3>1. b \in comp.down /\ ~(r.op = "release" /\ r.target = b)
      BY <1>1, <1>11, <2>3 DEF After
    <3>2. r # Request("release", b, 0)
      BY <3>1 DEF Request
    <3>3. \/ b \in AllHeld \cup orphaned
          \/ \E j \in Injectors : Pending(j, Request("release", b, 0))
      BY <3>1 DEF IInv, NoPhantomButton
    <3>4. QED
      BY <1>1, <1>5, <2>1, <3>1, <3>2, <3>3
  <2>4. QED
    BY <2>2, <2>3
<1>12. NoPhantomButton'
  BY <1>11 DEF NoPhantomButton, Pending, Request
<1>13. QED
  BY <1>6, <1>7, <1>10, <1>12 DEF IInv

----------------------------------------------------------------------------
LEMMA NextStep == ASSUME IInv, [Next]_vars PROVE IInv'
<1>1. CASE UNCHANGED vars
  <2>1. TypeOK'
    BY <1>1 DEF vars, IInv, TypeOK
  <2>2. Orderly'
    BY <1>1 DEF vars, IInv, Orderly, WellFormed, EndsFramed
  <2>3. EventsCompleted'
    BY <1>1 DEF vars, IInv, EventsCompleted, Pending
  <2>4. NoPhantomButton'
    BY <1>1 DEF vars, IInv, NoPhantomButton, AllHeld, Pending
  <2>5. QED
    BY <2>1, <2>2, <2>3, <2>4 DEF IInv
<1>2. ASSUME NEW i \in Injectors, Motion(i) \/ Send(i) \/ Disconnect(i) PROVE IInv'
  BY <1>2, MotionStep, SendStep, DisconnectStep
<1>3. ASSUME NEW i \in Injectors, NEW b \in Buttons, NEW press \in BOOLEAN,
             Button(i, b, press)
      PROVE  IInv'
  BY <1>3, ButtonStep
<1>4. ASSUME NEW dx \in Amounts, NEW dy \in Amounts, NotifyPointerAxis(dx, dy)
      PROVE  IInv'
  <2>1. dx \in Int /\ dy \in Int /\ "dbus" \in Injectors
    BY PointerAssumption DEF Injectors
  <2>2. due' \in [Axes -> 0 .. Wrap - 1]
    BY <1>4, <2>1, OweTypes DEF NotifyPointerAxis
  <2>3. QED
    BY <1>4, <2>1, <2>2, ScrollStep DEF NotifyPointerAxis
<1>5. ASSUME NEW dx \in Amounts, NEW dy \in Amounts, NEW e \in EisThreads,
             ScrollDelta(e, dx, dy) \/ ScrollDiscrete(e, dx, dy)
      PROVE  IInv'
  <2>1. /\ dx \in Int /\ dy \in Int /\ 15 * dx \in Int /\ 15 * dy \in Int
        /\ e \in Injectors
    BY PointerAssumption DEF Injectors
  <2>2. due' \in [Axes -> 0 .. Wrap - 1]
    BY <1>5, <2>1, OweTypes DEF ScrollDelta, ScrollDiscrete
  <2>3. CASE ScrollDelta(e, dx, dy)
    BY <2>1, <2>2, <2>3, ScrollStep DEF ScrollDelta
  <2>4. CASE ScrollDiscrete(e, dx, dy)
    BY <2>1, <2>2, <2>4, ScrollStep DEF ScrollDiscrete
  <2>5. QED
    BY <1>5, <2>3, <2>4
<1>6. QED
  BY <1>1, <1>2, <1>3, <1>4, <1>5 DEF Next

LEMMA Invariance == Spec => []IInv
<1>1. IInv /\ [Next]_vars => IInv'
  BY NextStep
<1>2. QED
  BY InitIInv, <1>1, PTL DEF Spec

\* Type correctness of the pointer bridge.
THEOREM TypeCorrect == Spec => []TypeOK
BY Invariance, PTL DEF IInv

\* Every request is framed and every smooth scroll stopped, however many
\* threads send through the one pointer of wayland_virtual_pointer.cpp.
THEOREM Completed == Spec => []EventsCompleted
BY Invariance, PTL DEF IInv

\* No button is down without a client that holds it or went away with it.
THEOREM ButtonsHaveReasons == Spec => []NoPhantomButton
BY Invariance, PTL DEF IInv

----------------------------------------------------------------------------
(* What is scrolled. The events that have something left to scroll may be of *)
(* any threads; what they leave is accounted for in a ledger with an entry   *)
(* for each, from what the compositor got to what all events are worth.      *)

Scrolls(r, a) == r.op \in {"axis", "discrete"} /\ r.target = a

ScrollsNothing(q, a) == \A m \in 1 .. Len(q) : ~Scrolls(q[m], a)

\* The requests q still move the content by v along the axis, in one request.
Worth(q, a, v) ==
    /\ \A m \in 1 .. Len(q) : Scrolls(q[m], a) =>
          /\ q[m].value = v
          /\ \A n \in 1 .. Len(q) : Scrolls(q[n], a) => n = m
    /\ v # 0 => \E m \in 1 .. Len(q) : Scrolls(q[m], a)

\* Entry n is worth amt[n] and of an event of own[n]; sum[n] is what is scrolled
\* once the entries up to n are paid. An injector without an open entry has
\* nothing left to scroll.
Ledger(a, k, own, amt, sum) ==
    /\ sum[0] % Wrap = comp.travel[a] /\ sum[k] % Wrap = due[a]
    /\ \A n \in 1 .. k : sum[n] = sum[n - 1] + amt[n]
    /\ \A n \in 1 .. k : amt[n] # 0 => Worth(todo[own[n]], a, amt[n])
    /\ \A m, n \in 1 .. k : amt[m] # 0 /\ amt[n] # 0 /\ own[m] = own[n] => m = n
    /\ \A i \in Injectors : \/ Worth(todo[i], a, 0)
                            \/ \E n \in 1 .. k : own[n] = i /\ amt[n] # 0

Balanced(a) ==
    \E k \in Nat : \E own \in [1 .. k -> Injectors], amt \in [1 .. k -> Int],
                     sum \in [0 .. k -> Int] : Ledger(a, k, own, amt, sum)

ScrollInv == IInv /\ \A a \in Axes : Balanced(a)

----------------------------------------------------------------------------
(* Arithmetic modulo Wrap. *)

LEMMA Division ==
    ASSUME NEW w \in Nat \ {0}, NEW n \in Int
    PROVE  n = w * (n \div w) + (n % w) /\ n \div w \in Int /\ n % w \in 0 .. w - 1
OBVIOUS

LEMMA RestOf ==
    ASSUME NEW w \in Nat \ {0}, NEW p \in Int, NEW r \in 0 .. w - 1
    PROVE  (w * p + r) % w = r
OBVIOUS

\* A sum may be reduced at each step or in the end.
LEMMA SumWraps ==
    ASSUME NEW w \in Nat \ {0}, NEW x \in Int, NEW v \in Int
    PROVE  ((x % w) + v) % w = (x + v) % w
<1> DEFINE r == x % w
           p == x \div w
           s == (r + v) % w
           q == (r + v) \div w
<1>1. r \in 0 .. w - 1 /\ p \in Int /\ x = w * p + r
  BY Division
<1>2. s \in 0 .. w - 1 /\ q \in Int /\ r + v = w * q + s
  <2>1. r + v \in Int
    BY <1>1
  <2> HIDE DEF r, p
  <2>2. QED
    BY <2>1, Division
<1>3. x + v = w * p + (w * q + s)
  <2>1. x = w * p + r /\ r + v = w * q + s
    BY <1>1, <1>2
  <2>2. r \in Int /\ s \in Int /\ w * p \in Int /\ w * q \in Int
    BY <1>1, <1>2
  <2> HIDE DEF r, p, s, q
  <2>3. QED
    BY <2>1, <2>2
<1> HIDE DEF r, p, s, q
<1>4. p + q \in Int /\ x + v = w * (p + q) + s
  BY <1>1, <1>2, <1>3
<1>5. (x + v) % w = s
  BY <1>1, <1>2, <1>4, RestOf
<1>6. QED
  BY <1>5 DEF s, r

LEMMA Reduced == ASSUME NEW w \in Nat \ {0}, NEW x \in 0 .. w - 1 PROVE x % w = x
OBVIOUS

----------------------------------------------------------------------------
(* What an event is worth. *)

LEMMA NothingIsWorthZero ==
    ASSUME NEW q, NEW a, ScrollsNothing(q, a) PROVE Worth(q, a, 0)
BY DEF ScrollsNothing, Worth

LEMMA EmptyIsWorthZero ==
    ASSUME NEW a, NEW v, Worth(<<>>, a, v) PROVE v = 0
BY DEF Worth

LEMMA WorthOfConcat ==
    ASSUME NEW p \in Seq(Requests), NEW q \in Seq(Requests), NEW a, NEW v \in Int
    PROVE  /\ ScrollsNothing(p, a) /\ ScrollsNothing(q, a) => ScrollsNothing(p \o q, a)
           /\ ScrollsNothing(p, a) /\ Worth(q, a, v) => Worth(p \o q, a, v)
           /\ Worth(p, a, v) /\ ScrollsNothing(q, a) => Worth(p \o q, a, v)
<1> DEFINE r == p \o q
<1>1. /\ Len(r) = Len(p) + Len(q) /\ Len(p) \in Nat /\ Len(q) \in Nat
      /\ \A i \in 1 .. Len(p) + Len(q) :
            r[i] = IF i <= Len(p) THEN p[i] ELSE q[i - Len(p)]
  BY ConcatProperties, LenProperties
<1> HIDE DEF r
<1>2. ASSUME NEW m \in 1 .. Len(r)
      PROVE  \/ m \in 1 .. Len(p) /\ r[m] = p[m]
             \/ m - Len(p) \in 1 .. Len(q) /\ r[m] = q[m - Len(p)]
  BY <1>1
<1>3. ScrollsNothing(p, a) /\ ScrollsNothing(q, a) => ScrollsNothing(r, a)
  BY <1>2 DEF ScrollsNothing
<1>4. ASSUME ScrollsNothing(p, a), Worth(q, a, v) PROVE Worth(r, a, v)
  <2>1. ASSUME NEW m \in 1 .. Len(r), Scrolls(r[m], a)
        PROVE  m - Len(p) \in 1 .. Len(q) /\ r[m] = q[m - Len(p)]
    BY <1>2, <1>4, <2>1 DEF ScrollsNothing
  <2>2. ASSUME NEW m \in 1 .. Len(r), NEW n \in 1 .. Len(r),
               Scrolls(r[m], a), Scrolls(r[n], a)
        PROVE  r[m].value = v /\ n = m
    <3>1. /\ m - Len(p) \in 1 .. Len(q) /\ Scrolls(q[m - Len(p)], a)
          /\ n - Len(p) \in 1 .. Len(q) /\ Scrolls(q[n - Len(p)], a)
          /\ r[m] = q[m - Len(p)]
      BY <2>1, <2>2
    <3>2. r[m].value = v /\ n - Len(p) = m - Len(p)
      BY <1>4, <3>1 DEF Worth
    <3>3. QED
      BY <1>1, <3>2
  <2>3. ASSUME v # 0 PROVE \E m \in 1 .. Len(r) : Scrolls(r[m], a)
    <3>1. PICK n \in 1 .. Len(q) : Scrolls(q[n], a)
      BY <1>4, <2>3 DEF Worth
    <3>2. n + Len(p) \in 1 .. Len(r) /\ r[n + Len(p)] = q[n]
      BY <1>1
    <3>3. QED
      BY <3>1, <3>2
  <2>4. QED
    BY <2>2, <2>3 DEF Worth
<1>5. ASSUME Worth(p, a, v), ScrollsNothing(q, a) PROVE Worth(r, a, v)
  <2>1. ASSUME NEW m \in 1 .. Len(r), Scrolls(r[m], a)
        PROVE  m \in 1 .. Len(p) /\ r[m] = p[m]
    BY <1>2, <1>5, <2>1 DEF ScrollsNothing
  <2>2. ASSUME NEW m \in 1 .. Len(r), NEW n \in 1 .. Len(r),
               Scrolls(r[m], a), Scrolls(r[n], a)
        PROVE  r[m].value = v /\ n = m
    <3>1. /\ m \in 1 .. Len(p) /\ Scrolls(p[m], a) /\ r[m] = p[m]
          /\ n \in 1 .. Len(p) /\ Scrolls(p[n], a)
      BY <2>1, <2>2
    <3>2. QED
      BY <1>5, <3>1 DEF Worth
  <2>3. ASSUME v # 0 PROVE \E m \in 1 .. Len(r) : Scrolls(r[m], a)
    <3>1. PICK n \in 1 .. Len(p) : Scrolls(p[n], a)
      BY <1>5, <2>3 DEF Worth
    <3>2. n \in 1 .. Len(r) /\ r[n] = p[n]
      BY <1>1
    <3>3. QED
      BY <3>1, <3>2
  <2>4. QED
    BY <2>2, <2>3 DEF Worth
<1>6. QED
  BY <1>3, <1>4, <1>5 DEF r

\* The parts of an event: only a scroll along the axis moves it.
LEMMA WorthOfParts ==
    ASSUME NEW a \in Axes
    PROVE  /\ ScrollsNothing(<<>>, a)
           /\ ScrollsNothing(<<Wheel>>, a) /\ ScrollsNothing(<<Frame>>, a)
           /\ \A v \in Int : Worth(Scroll(a, v), a, v) /\ Worth(Step(a, v), a, 15 * v)
           /\ \A b \in Axes, v \in Int :
                 b # a => ScrollsNothing(Scroll(b, v), a) /\ ScrollsNothing(Step(b, v), a)
<1>1. ScrollsNothing(<<>>, a)
  BY DEF ScrollsNothing
<1>2. ASSUME NEW r, ~Scrolls(r, a) PROVE ScrollsNothing(<<r>>, a)
  BY <1>2 DEF ScrollsNothing
<1>3. ScrollsNothing(<<Wheel>>, a) /\ ScrollsNothing(<<Frame>>, a)
  BY <1>2 DEF Scrolls, Wheel, Frame, Request
<1>4. ASSUME NEW b \in Axes, NEW v \in Int
      PROVE  IF b = a THEN Worth(Scroll(b, v), a, v) ELSE ScrollsNothing(Scroll(b, v), a)
  <2> DEFINE q == <<Request("axis", b, v), Request("stop", b, 0)>>
  <2>1. Len(q) = 2 /\ q[1] = Request("axis", b, v) /\ q[2] = Request("stop", b, 0)
    OBVIOUS
  <2> HIDE DEF q
  <2>2. /\ q[1].value = v /\ (Scrolls(q[1], a) <=> b = a)
        /\ ~Scrolls(q[2], a)
    BY <2>1 DEF Scrolls, Request
  <2>3. \A m \in 1 .. Len(q) : m = 1 \/ m = 2
    BY <2>1
  <2>4. 1 \in 1 .. Len(q)
    BY <2>1
  <2>5. IF b = a THEN Worth(q, a, v) ELSE ScrollsNothing(q, a)
    BY <2>2, <2>3, <2>4 DEF Worth, ScrollsNothing
  <2>6. CASE v = 0
    BY <1>1, <2>6, NothingIsWorthZero DEF Scroll
  <2>7. CASE v # 0
    BY <2>5, <2>7 DEF Scroll, q
  <2>8. QED
    BY <2>6, <2>7
<1>5. ASSUME NEW b \in Axes, NEW v \in Int
      PROVE  IF b = a THEN Worth(Step(b, v), a, 15 * v) ELSE ScrollsNothing(Step(b, v), a)
  <2> DEFINE r == Request("discrete", b, 15 * v)
  <2>1. r.value = 15 * v /\ (Scrolls(r, a) <=> b = a)
    BY DEF Scrolls, Request
  <2> HIDE DEF r
  <2>2. IF b = a THEN Worth(<<r>>, a, 15 * v) ELSE ScrollsNothing(<<r>>, a)
    BY <2>1 DEF Worth, ScrollsNothing
  <2>3. CASE v = 0
    <3>1. 15 * v = 0
      BY <2>3
    <3>2. QED
      BY <1>1, <2>3, <3>1, NothingIsWorthZero DEF Step
  <2>4. CASE v # 0
    BY <2>2, <2>4 DEF Step, r
  <2>5. QED
    BY <2>3, <2>4
<1>6. QED
  BY <1>1, <1>3, <1>4, <1>5

\* Each event moves the content by what its sender asked for, along both axes.
LEMMA WorthOfEvents ==
    ASSUME NEW dx \in Int, NEW dy \in Int
    PROVE  /\ Worth(Smooth(dx, dy), "horizontal", dx)
           /\ Worth(Smooth(dx, dy), "vertical", dy)
           /\ Worth(Discrete(dx, dy), "horizontal", 15 * dx)
           /\ Worth(Discrete(dx, dy), "vertical", 15 * dy)
<1> DEFINE hor == Scroll("horizontal", dx)
           ver == Scroll("vertical", dy)
           shor == Step("horizontal", dx)
           sver == Step("vertical", dy)
<1>1. "horizontal" \in Axes /\ "vertical" \in Axes
  BY DEF Axes
<1>2. /\ <<Wheel>> \in Seq(Requests) /\ <<Frame>> \in Seq(Requests)
      /\ hor \in Seq(Requests) /\ ver \in Seq(Requests)
      /\ shor \in Seq(Requests) /\ sver \in Seq(Requests)
  BY <1>1, SmallWellFormed DEF WellFormed
<1>3. /\ <<Wheel>> \o hor \in Seq(Requests) /\ <<Wheel>> \o hor \o ver \in Seq(Requests)
      /\ <<Wheel>> \o sver \in Seq(Requests) /\ <<Wheel>> \o sver \o shor \in Seq(Requests)
  BY <1>2, ConcatProperties
<1>4. /\ Worth(hor, "horizontal", dx) /\ ScrollsNothing(ver, "horizontal")
      /\ Worth(ver, "vertical", dy) /\ ScrollsNothing(hor, "vertical")
      /\ Worth(shor, "horizontal", 15 * dx) /\ ScrollsNothing(sver, "horizontal")
      /\ Worth(sver, "vertical", 15 * dy) /\ ScrollsNothing(shor, "vertical")
      /\ \A a \in Axes : ScrollsNothing(<<Wheel>>, a) /\ ScrollsNothing(<<Frame>>, a)
  BY <1>1, WorthOfParts
<1> HIDE DEF hor, ver, shor, sver
<1>5. Worth(<<Wheel>> \o hor \o ver \o <<Frame>>, "horizontal", dx)
  <2>1. Worth(<<Wheel>> \o hor, "horizontal", dx)
    BY <1>1, <1>2, <1>4, WorthOfConcat
  <2>2. Worth(<<Wheel>> \o hor \o ver, "horizontal", dx)
    BY <1>2, <1>3, <1>4, <2>1, WorthOfConcat
  <2>3. QED
    BY <1>1, <1>2, <1>3, <1>4, <2>2, WorthOfConcat
<1>6. Worth(<<Wheel>> \o hor \o ver \o <<Frame>>, "vertical", dy)
  <2>1. ScrollsNothing(<<Wheel>> \o hor, "vertical")
    BY <1>1, <1>2, <1>4, WorthOfConcat
  <2>2. Worth(<<Wheel>> \o hor \o ver, "vertical", dy)
    BY <1>2, <1>3, <1>4, <2>1, WorthOfConcat
  <2>3. QED
    BY <1>1, <1>2, <1>3, <1>4, <2>2, WorthOfConcat
<1>7. ASSUME NEW v \in Int, v = 15 * dx
      PROVE  Worth(<<Wheel>> \o sver \o shor \o <<Frame>>, "horizontal", v)
  <2>1. Worth(shor, "horizontal", v)
    BY <1>4, <1>7
  <2>2. ScrollsNothing(<<Wheel>> \o sver, "horizontal")
    BY <1>1, <1>2, <1>4, WorthOfConcat
  <2>3. Worth(<<Wheel>> \o sver \o shor, "horizontal", v)
    BY <1>2, <1>3, <2>1, <2>2, WorthOfConcat
  <2>4. QED
    BY <1>1, <1>2, <1>3, <1>4, <2>3, WorthOfConcat
<1>8. ASSUME NEW v \in Int, v = 15 * dy
      PROVE  Worth(<<Wheel>> \o sver \o shor \o <<Frame>>, "vertical", v)
  <2>1. Worth(sver, "vertical", v)
    BY <1>4, <1>8
  <2>2. Worth(<<Wheel>> \o sver, "vertical", v)
    BY <1>1, <1>2, <1>4, <2>1, WorthOfConcat
  <2>3. Worth(<<Wheel>> \o sver \o shor, "vertical", v)
    BY <1>2, <1>3, <1>4, <2>2, WorthOfConcat
  <2>4. QED
    BY <1>1, <1>2, <1>3, <1>4, <2>3, WorthOfConcat
<1>9. ASSUME dx = 0 /\ dy = 0
      PROVE  Worth(<<>>, "horizontal", 15 * dx) /\ Worth(<<>>, "vertical", 15 * dy)
  <2>1. 15 * dx = 0 /\ 15 * dy = 0
    BY <1>9
  <2>2. QED
    BY <1>1, <2>1, WorthOfParts, NothingIsWorthZero
<1>10. 15 * dx \in Int /\ 15 * dy \in Int
  OBVIOUS
<1>11. /\ Worth(<<Wheel>> \o sver \o shor \o <<Frame>>, "horizontal", 15 * dx)
       /\ Worth(<<Wheel>> \o sver \o shor \o <<Frame>>, "vertical", 15 * dy)
  BY <1>7, <1>8, <1>10, Zenon
<1>12. QED
  BY <1>5, <1>6, <1>9, <1>11 DEF Smooth, Discrete, hor, ver, shor, sver

----------------------------------------------------------------------------
(* The steps. *)

LEMMA InitBalanced == ASSUME Init, NEW a \in Axes PROVE Balanced(a)
<1> DEFINE own == [n \in 1 .. 0 |-> "dbus"]
           amt == [n \in 1 .. 0 |-> 0]
           sum == [n \in 0 .. 0 |-> 0]
<1>1. /\ own \in [1 .. 0 -> Injectors] /\ amt \in [1 .. 0 -> Int]
      /\ sum \in [0 .. 0 -> Int] /\ sum[0] = 0 /\ 0 \in Nat
  BY DEF Injectors
<1> HIDE DEF own, amt, sum
<1>2. comp.travel[a] = 0 /\ due[a] = 0 /\ 0 % Wrap = 0
  <2>1. 0 \in 0 .. Wrap - 1
    BY PointerAssumption
  <2>2. 0 % Wrap = 0
    BY <2>1, PointerAssumption, Reduced
  <2>3. QED
    BY <2>2 DEF Init, Nowhere
<1>3. \A i \in Injectors : Worth(todo[i], a, 0)
  BY WorthOfParts, NothingIsWorthZero DEF Init
<1>4. \A n \in 1 .. 0 : FALSE
  OBVIOUS
<1>5. Ledger(a, 0, own, amt, sum)
  BY <1>1, <1>2, <1>3, <1>4 DEF Ledger
<1>6. QED
  BY <1>1, <1>5 DEF Balanced

\* The ledger stands while nothing is scrolled or owed and what is left of each
\* event is worth what it was.
LEMMA BalanceKept ==
    ASSUME NEW a \in Axes, Balanced(a),
           comp'.travel[a] = comp.travel[a], due'[a] = due[a],
           \A j \in Injectors, v \in Int : Worth(todo[j], a, v) => Worth(todo'[j], a, v)
    PROVE  Balanced(a)'
<1>0. PICK k \in Nat : \E own \in [1 .. k -> Injectors], amt \in [1 .. k -> Int],
                         sum \in [0 .. k -> Int] : Ledger(a, k, own, amt, sum)
  BY DEF Balanced
<1>1. PICK own \in [1 .. k -> Injectors], amt \in [1 .. k -> Int],
           sum \in [0 .. k -> Int] : Ledger(a, k, own, amt, sum)
  BY <1>0
<1>2. /\ sum[0] % Wrap = comp'.travel[a] /\ sum[k] % Wrap = due'[a]
      /\ \A n \in 1 .. k : sum[n] = sum[n - 1] + amt[n]
      /\ \A m, n \in 1 .. k : amt[m] # 0 /\ amt[n] # 0 /\ own[m] = own[n] => m = n
  BY <1>1 DEF Ledger
<1>3. \A n \in 1 .. k : amt[n] # 0 => Worth(todo'[own[n]], a, amt[n])
  BY <1>1 DEF Ledger
<1>4. \A i \in Injectors : \/ Worth(todo'[i], a, 0)
                           \/ \E n \in 1 .. k : own[n] = i /\ amt[n] # 0
  BY <1>1 DEF Ledger
<1>5. Ledger(a, k, own, amt, sum)'
  BY <1>2, <1>3, <1>4 DEF Ledger
<1>6. QED
  BY <1>5 DEF Balanced

\* An event begins: it gets an entry at the end of the ledger.
LEMMA BeginBalanced ==
    ASSUME IInv, NEW i \in Injectors, NEW q, Begin(i, q),
           NEW a \in Axes, NEW v \in Int, Worth(q, a, v), Balanced(a),
           comp'.travel[a] = comp.travel[a], due'[a] = (due[a] + v) % Wrap
    PROVE  Balanced(a)'
<1>0. PICK k \in Nat : \E own \in [1 .. k -> Injectors], amt \in [1 .. k -> Int],
                         sum \in [0 .. k -> Int] : Ledger(a, k, own, amt, sum)
  BY DEF Balanced
<1>1. PICK own \in [1 .. k -> Injectors], amt \in [1 .. k -> Int],
           sum \in [0 .. k -> Int] : Ledger(a, k, own, amt, sum)
  BY <1>0
<1> DEFINE own2 == [n \in 1 .. k + 1 |-> IF n <= k THEN own[n] ELSE i]
           amt2 == [n \in 1 .. k + 1 |-> IF n <= k THEN amt[n] ELSE v]
           sum2 == [n \in 0 .. k + 1 |-> IF n <= k THEN sum[n] ELSE sum[k] + v]
<1>2. /\ k + 1 \in Nat /\ (k + 1) - 1 = k
      /\ 0 \in 0 .. k /\ k \in 0 .. k /\ k + 1 \in 1 .. k + 1 /\ k + 1 \in 0 .. k + 1
      /\ 1 .. k \subseteq 1 .. k + 1 /\ 0 .. k \subseteq 0 .. k + 1
      /\ \A n \in 1 .. k + 1 : n \in 1 .. k \/ n = k + 1
      /\ \A n \in 1 .. k : n \in 0 .. k /\ n - 1 \in 0 .. k
      /\ ~(k + 1 <= k)
  OBVIOUS
<1>3. \A n \in 1 .. k + 1 : n <= k => n \in 1 .. k
  OBVIOUS
<1>4. \A n \in 0 .. k + 1 : n <= k => n \in 0 .. k
  OBVIOUS
<1>5. /\ own2 \in [1 .. k + 1 -> Injectors] /\ own2[k + 1] = i
      /\ \A n \in 1 .. k : own2[n] = own[n]
  BY <1>2, <1>3
<1>6. /\ amt2 \in [1 .. k + 1 -> Int] /\ amt2[k + 1] = v
      /\ \A n \in 1 .. k : amt2[n] = amt[n]
  BY <1>2, <1>3
<1>7. /\ sum2 \in [0 .. k + 1 -> Int] /\ sum2[k + 1] = sum[k] + v
      /\ \A n \in 0 .. k : sum2[n] = sum[n]
  BY <1>2, <1>4
<1> HIDE DEF own2, amt2, sum2
<1>8. /\ todo[i] = <<>> /\ todo'[i] = q
      /\ \A j \in Injectors \ {i} : todo'[j] = todo[j]
  BY DEF Begin, IInv, TypeOK
<1>9. \A n \in 1 .. k : amt[n] # 0 => own[n] # i /\ Worth(todo'[own[n]], a, amt[n])
  <2>1. SUFFICES ASSUME NEW n \in 1 .. k, amt[n] # 0
                 PROVE  own[n] # i /\ Worth(todo'[own[n]], a, amt[n])
    OBVIOUS
  <2>2. Worth(todo[own[n]], a, amt[n]) /\ own[n] \in Injectors
    BY <1>1, <2>1 DEF Ledger
  <2>3. own[n] # i
    BY <1>8, <2>1, <2>2, EmptyIsWorthZero
  <2>4. QED
    BY <1>8, <2>2, <2>3
<1>10. sum2[0] % Wrap = comp'.travel[a] /\ sum2[k + 1] % Wrap = due'[a]
  <2>1. sum[k] \in Int /\ Wrap \in Nat \ {0}
    BY <1>2, <1>5, <1>6, <1>7, PointerAssumption
  <2>2. ((sum[k] % Wrap) + v) % Wrap = (sum[k] + v) % Wrap
    BY <2>1, SumWraps
  <2>3. QED
    BY <1>1, <1>2, <1>5, <1>6, <1>7, <2>2 DEF Ledger
<1>11. \A n \in 1 .. k + 1 : sum2[n] = sum2[n - 1] + amt2[n]
  <2>1. \A n \in 1 .. k : sum2[n] = sum2[n - 1] + amt2[n]
    BY <1>1, <1>2, <1>5, <1>6, <1>7 DEF Ledger
  <2>2. sum2[k + 1] = sum2[(k + 1) - 1] + amt2[k + 1]
    BY <1>2, <1>5, <1>6, <1>7
  <2>3. QED
    BY <1>2, <1>5, <1>6, <1>7, <2>1, <2>2
<1>12. \A n \in 1 .. k + 1 : amt2[n] # 0 => Worth(todo'[own2[n]], a, amt2[n])
  BY <1>2, <1>5, <1>6, <1>7, <1>8, <1>9
<1>13. \A m, n \in 1 .. k + 1 : amt2[m] # 0 /\ amt2[n] # 0 /\ own2[m] = own2[n] => m = n
  <2>1. \A m, n \in 1 .. k : amt2[m] # 0 /\ amt2[n] # 0 /\ own2[m] = own2[n] => m = n
    BY <1>1, <1>2, <1>5, <1>6, <1>7 DEF Ledger
  <2>2. \A n \in 1 .. k : amt2[n] # 0 => own2[n] # own2[k + 1]
    BY <1>2, <1>5, <1>6, <1>7, <1>9
  <2>3. QED
    BY <1>2, <1>5, <1>6, <1>7, <2>1, <2>2
<1>14. \A j \in Injectors : \/ Worth(todo'[j], a, 0)
                           \/ \E n \in 1 .. k + 1 : own2[n] = j /\ amt2[n] # 0
  <2>1. ASSUME NEW j \in Injectors \ {i}
        PROVE  \/ Worth(todo'[j], a, 0)
               \/ \E n \in 1 .. k + 1 : own2[n] = j /\ amt2[n] # 0
    <3>1. Worth(todo[j], a, 0) \/ \E n \in 1 .. k : own[n] = j /\ amt[n] # 0
      BY <1>1 DEF Ledger
    <3>2. QED
      BY <1>2, <1>5, <1>6, <1>7, <1>8, <3>1
  <2>2. \/ Worth(todo'[i], a, 0)
        \/ \E n \in 1 .. k + 1 : own2[n] = i /\ amt2[n] # 0
    BY <1>2, <1>5, <1>6, <1>7, <1>8
  <2>3. QED
    BY <2>1, <2>2
<1>15. Ledger(a, k + 1, own2, amt2, sum2)'
  BY <1>10, <1>11, <1>12, <1>13, <1>14 DEF Ledger
<1>16. QED
  BY <1>2, <1>5, <1>6, <1>7, <1>15 DEF Balanced

\* A request of one event: the others' are worth what they were.
LEMMA WorthOfTail ==
    ASSUME NEW q \in Seq(Requests), q # <<>>, NEW a, NEW v \in Int, Worth(q, a, v)
    PROVE  IF Scrolls(Head(q), a) THEN Head(q).value = v /\ Worth(Tail(q), a, 0)
                                  ELSE Worth(Tail(q), a, v)
<1>1. /\ Len(q) \in Nat \ {0} /\ Head(q) = q[1] /\ 1 \in 1 .. Len(q)
  BY EmptySeq
<1>2. /\ Len(Tail(q)) = Len(q) - 1
      /\ \A n \in 1 .. Len(Tail(q)) : Tail(q)[n] = q[n + 1] /\ n + 1 \in 1 .. Len(q)
  BY <1>1, HeadTailProperties
<1>3. \A n \in 1 .. Len(q) : n # 1 => /\ n - 1 \in 1 .. Len(Tail(q))
                                      /\ Tail(q)[n - 1] = q[n]
  <2>1. SUFFICES ASSUME NEW n \in 1 .. Len(q), n # 1
                 PROVE  n - 1 \in 1 .. Len(Tail(q)) /\ Tail(q)[n - 1] = q[n]
    OBVIOUS
  <2>2. n - 1 \in 1 .. Len(Tail(q)) /\ (n - 1) + 1 = n
    BY <1>1, <1>2, <2>1
  <2>3. QED
    BY <1>2, <2>2
<1>4. CASE Scrolls(Head(q), a)
  <2>1. Head(q).value = v
    BY <1>1, <1>4 DEF Worth
  <2>2. ASSUME NEW n \in 1 .. Len(Tail(q)), Scrolls(Tail(q)[n], a) PROVE FALSE
    <3>1. n + 1 \in 1 .. Len(q) /\ Scrolls(q[n + 1], a) /\ n + 1 # 1
      BY <1>1, <1>2, <2>2
    <3>2. QED
      BY <1>1, <1>4, <3>1 DEF Worth
  <2>3. QED
    BY <1>4, <2>1, <2>2, NothingIsWorthZero DEF ScrollsNothing
<1>5. CASE ~Scrolls(Head(q), a)
  <2>1. ASSUME NEW m \in 1 .. Len(Tail(q)), NEW n \in 1 .. Len(Tail(q)),
               Scrolls(Tail(q)[m], a), Scrolls(Tail(q)[n], a)
        PROVE  Tail(q)[m].value = v /\ n = m
    <3>1. q[m + 1].value = v /\ n + 1 = m + 1
      BY <1>2, <2>1 DEF Worth
    <3>2. QED
      BY <1>2, <3>1
  <2>2. ASSUME v # 0 PROVE \E m \in 1 .. Len(Tail(q)) : Scrolls(Tail(q)[m], a)
    <3>1. PICK m \in 1 .. Len(q) : Scrolls(q[m], a)
      BY <2>2 DEF Worth
    <3>2. m # 1
      BY <1>1, <1>5, <3>1
    <3>3. QED
      BY <1>3, <3>1, <3>2
  <2>3. Worth(Tail(q), a, v)
    BY <2>1, <2>2 DEF Worth
  <2>4. QED
    BY <1>5, <2>3
<1>6. QED
  BY <1>4, <1>5

\* A request goes out. One that scrolls pays the entry of its event: what it is
\* worth moves from the entry to all the sums before it.
LEMMA SendBalanced ==
    ASSUME IInv, NEW i \in Injectors, Send(i), NEW a \in Axes, Balanced(a)
    PROVE  Balanced(a)'
<1> DEFINE q == todo[i]
           r == Head(q)
<1>1. /\ q \in Seq(Requests) /\ q # <<>> /\ r \in Requests /\ r.value \in Int
      /\ todo'[i] = Tail(q) /\ \A j \in Injectors \ {i} : todo'[j] = todo[j]
      /\ due'[a] = due[a] /\ comp.travel[a] \in 0 .. Wrap - 1
      /\ comp'.travel[a] = IF Scrolls(r, a) THEN (comp.travel[a] + r.value) % Wrap
                                            ELSE comp.travel[a]
  <2>1. todo \in [Injectors -> Seq(Requests)] /\ comp.travel \in [Axes -> 0 .. Wrap - 1]
    BY DEF IInv, TypeOK
  <2>2. /\ q # <<>> /\ comp' = After(i, r) /\ todo' = [todo EXCEPT ![i] = Tail(@)]
        /\ due' = due
    BY DEF Send
  <2>3. r \in Requests
    BY <2>1, <2>2, HeadTailProperties
  <2>4. r.value \in Int
    BY <2>3 DEF Requests
  <2>5. comp'.travel[a] = IF Scrolls(r, a) THEN (comp.travel[a] + r.value) % Wrap
                                          ELSE comp.travel[a]
    BY <2>2 DEF After, Scrolls
  <2>6. QED
    BY <2>1, <2>2, <2>3, <2>4, <2>5
<1>2. CASE ~Scrolls(r, a) \/ r.value = 0
  <2>1. comp'.travel[a] = comp.travel[a]
    <3>1. \A n \in 0 .. Wrap - 1 : (n + 0) % Wrap = n
      BY PointerAssumption
    <3>2. QED
      BY <1>1, <1>2, <3>1
  <2>2. \A j \in Injectors, v \in Int : Worth(todo[j], a, v) => Worth(todo'[j], a, v)
    BY <1>1, <1>2, WorthOfTail
  <2>3. QED
    BY <1>1, <2>1, <2>2, BalanceKept
<1>3. CASE Scrolls(r, a) /\ r.value # 0
  <2>0. PICK k \in Nat : \E own \in [1 .. k -> Injectors], amt \in [1 .. k -> Int],
                           sum \in [0 .. k -> Int] : Ledger(a, k, own, amt, sum)
    BY DEF Balanced
  <2>1. PICK own \in [1 .. k -> Injectors], amt \in [1 .. k -> Int],
             sum \in [0 .. k -> Int] : Ledger(a, k, own, amt, sum)
    BY <2>0
  <2>2. ~Worth(q, a, 0)
    BY <1>1, <1>3, WorthOfTail
  <2>3. PICK n \in 1 .. k : own[n] = i /\ amt[n] # 0
    BY <2>1, <2>2 DEF Ledger
  <2>4. r.value = amt[n] /\ Worth(Tail(q), a, 0) /\ amt[n] \in Int
    <3>1. Worth(q, a, amt[n]) /\ amt[n] \in Int
      BY <2>1, <2>3 DEF Ledger
    <3>2. QED
      BY <1>1, <1>3, <3>1, WorthOfTail
  <2> DEFINE amt2 == [m \in 1 .. k |-> IF m = n THEN 0 ELSE amt[m]]
             sum2 == [m \in 0 .. k |-> IF m < n THEN sum[m] + amt[n] ELSE sum[m]]
  <2>5. /\ amt2 \in [1 .. k -> Int]
        /\ \A m \in 1 .. k : amt2[m] = IF m = n THEN 0 ELSE amt[m]
    OBVIOUS
  <2>6. /\ sum2 \in [0 .. k -> Int]
        /\ \A m \in 0 .. k : sum2[m] = IF m < n THEN sum[m] + amt[n] ELSE sum[m]
    BY <2>4
  <2> HIDE DEF amt2, sum2
  <2>7. sum2[0] % Wrap = comp'.travel[a] /\ sum2[k] % Wrap = due'[a]
    <3>1. /\ 0 \in 0 .. k /\ k \in 0 .. k /\ 0 < n /\ ~(k < n)
          /\ sum[0] \in Int /\ Wrap \in Nat \ {0}
      BY PointerAssumption
    <3>2. ((sum[0] % Wrap) + amt[n]) % Wrap = (sum[0] + amt[n]) % Wrap
      BY <2>4, <3>1, SumWraps
    <3>3. QED
      BY <1>1, <1>3, <2>1, <2>4, <2>6, <3>1, <3>2 DEF Ledger
  <2>8. \A m \in 1 .. k : sum2[m] = sum2[m - 1] + amt2[m]
    <3>1. SUFFICES ASSUME NEW m \in 1 .. k PROVE sum2[m] = sum2[m - 1] + amt2[m]
      OBVIOUS
    <3>2. /\ m \in 0 .. k /\ m - 1 \in 0 .. k
          /\ sum[m] \in Int /\ sum[m - 1] \in Int /\ amt[m] \in Int
          /\ sum[m] = sum[m - 1] + amt[m]
      <4>1. m \in 0 .. k /\ m - 1 \in 0 .. k
        OBVIOUS
      <4>2. sum[m] = sum[m - 1] + amt[m]
        BY <2>1 DEF Ledger
      <4>3. QED
        BY <4>1, <4>2
    <3>3. CASE m = n
      BY <2>4, <2>5, <2>6, <3>2, <3>3
    <3>4. CASE m < n
      BY <2>4, <2>5, <2>6, <3>2, <3>4
    <3>5. CASE m > n
      BY <2>4, <2>5, <2>6, <3>2, <3>5
    <3>6. QED
      BY <3>3, <3>4, <3>5
  <2>9. \A m \in 1 .. k : amt2[m] # 0 => Worth(todo'[own[m]], a, amt2[m])
    <3>1. SUFFICES ASSUME NEW m \in 1 .. k, amt2[m] # 0
                   PROVE  Worth(todo'[own[m]], a, amt2[m])
      OBVIOUS
    <3>2. m # n /\ amt2[m] = amt[m]
      BY <2>5, <3>1
    <3>3. own[m] \in Injectors \ {i} /\ Worth(todo[own[m]], a, amt[m])
      BY <2>1, <2>3, <3>1, <3>2 DEF Ledger
    <3>4. QED
      BY <1>1, <3>2, <3>3
  <2>10. \A l, m \in 1 .. k : amt2[l] # 0 /\ amt2[m] # 0 /\ own[l] = own[m] => l = m
    BY <2>1, <2>5 DEF Ledger
  <2>11. \A j \in Injectors : \/ Worth(todo'[j], a, 0)
                              \/ \E m \in 1 .. k : own[m] = j /\ amt2[m] # 0
    <3>1. Worth(todo'[i], a, 0)
      BY <1>1, <2>4
    <3>2. ASSUME NEW j \in Injectors \ {i}
          PROVE  \/ Worth(todo'[j], a, 0)
                 \/ \E m \in 1 .. k : own[m] = j /\ amt2[m] # 0
      <4>1. Worth(todo[j], a, 0) \/ \E m \in 1 .. k : own[m] = j /\ amt[m] # 0
        BY <2>1 DEF Ledger
      <4>2. QED
        BY <1>1, <2>3, <2>5, <4>1
    <3>3. QED
      BY <3>1, <3>2
  <2>12. Ledger(a, k, own, amt2, sum2)'
    BY <2>7, <2>8, <2>9, <2>10, <2>11 DEF Ledger
  <2>13. QED
    BY <2>5, <2>6, <2>12 DEF Balanced
<1>4. QED
  BY <1>2, <1>3

\* An event that does not scroll.
LEMMA StillBalanced ==
    ASSUME IInv, NEW i \in Injectors, NEW r \in Requests, Begin(i, <<r, Frame>>),
           r.op \notin {"axis", "discrete"}, comp' = comp, due' = due,
           NEW a \in Axes, Balanced(a)
    PROVE  Balanced(a)'
<1>1. ScrollsNothing(<<r, Frame>>, a)
  BY DEF ScrollsNothing, Scrolls, Frame, Request
<1>2. due[a] \in 0 .. Wrap - 1
  BY DEF IInv, TypeOK
<1>3. due[a] + 0 = due[a] /\ due[a] % Wrap = due[a]
  BY <1>2, PointerAssumption, Reduced
<1>4. Worth(<<r, Frame>>, a, 0)
  BY <1>1, NothingIsWorthZero
<1>5. QED
  BY <1>3, <1>4, BeginBalanced

\* An event that scrolls: it is worth what it adds to what is due.
LEMMA ScrollBalanced ==
    ASSUME IInv, NEW i \in Injectors, NEW q, NEW dx \in Int, NEW dy \in Int,
           Begin(i, q), Owe(dx, dy), comp' = comp,
           Worth(q, "horizontal", dx), Worth(q, "vertical", dy),
           NEW a \in Axes, Balanced(a)
    PROVE  Balanced(a)'
<1>1. /\ due'["horizontal"] = (due["horizontal"] + dx) % Wrap
      /\ due'["vertical"] = (due["vertical"] + dy) % Wrap
  BY DEF Owe
<1>2. CASE a = "horizontal"
  BY <1>1, <1>2, BeginBalanced
<1>3. CASE a = "vertical"
  BY <1>1, <1>3, BeginBalanced
<1>4. QED
  BY <1>2, <1>3 DEF Axes

LEMMA NextBalanced ==
    ASSUME IInv, [Next]_vars, NEW a \in Axes, Balanced(a) PROVE Balanced(a)'
<1>1. CASE UNCHANGED vars
  BY <1>1, BalanceKept DEF vars
<1>2. ASSUME NEW i \in Injectors, Motion(i) PROVE Balanced(a)'
  <2>1. /\ Request("motion", "pointer", 0) \in Requests
        /\ Request("motion", "pointer", 0).op \notin {"axis", "discrete"}
    BY RequestTypes DEF Request
  <2>2. QED
    BY <1>2, <2>1, StillBalanced DEF Motion
<1>3. ASSUME NEW i \in Injectors, NEW b \in Buttons, NEW press \in BOOLEAN,
             Button(i, b, press)
      PROVE  Balanced(a)'
  <2>1. ButtonState(press) \in {"press", "release"}
    BY DEF ButtonState
  <2>2. /\ Request(ButtonState(press), b, 0) \in Requests
        /\ Request(ButtonState(press), b, 0).op \notin {"axis", "discrete"}
    BY <2>1, RequestTypes DEF Request
  <2>3. QED
    BY <1>3, <2>2, StillBalanced DEF Button
<1>4. ASSUME NEW i \in Injectors, Send(i) PROVE Balanced(a)'
  BY <1>4, SendBalanced
<1>5. ASSUME NEW i \in Injectors, Disconnect(i) PROVE Balanced(a)'
  BY <1>5, BalanceKept DEF Disconnect
<1>6. ASSUME NEW dx \in Amounts, NEW dy \in Amounts, NotifyPointerAxis(dx, dy)
      PROVE  Balanced(a)'
  <2>1. dx \in Int /\ dy \in Int /\ "dbus" \in Injectors
    BY PointerAssumption DEF Injectors
  <2>2. QED
    BY <1>6, <2>1, WorthOfEvents, ScrollBalanced DEF NotifyPointerAxis
<1>7. ASSUME NEW dx \in Amounts, NEW dy \in Amounts, NEW e \in EisThreads,
             ScrollDelta(e, dx, dy) \/ ScrollDiscrete(e, dx, dy)
      PROVE  Balanced(a)'
  <2>1. /\ dx \in Int /\ dy \in Int /\ 15 * dx \in Int /\ 15 * dy \in Int
        /\ e \in Injectors
    BY PointerAssumption DEF Injectors
  <2>2. PICK q \in {Smooth(15 * dx, 15 * dy), Discrete(dx, dy)} :
           Begin(e, q) /\ Owe(15 * dx, 15 * dy) /\ comp' = comp
    BY <1>7 DEF ScrollDelta, ScrollDiscrete
  <2>3. Worth(q, "horizontal", 15 * dx) /\ Worth(q, "vertical", 15 * dy)
    BY <2>1, <2>2, WorthOfEvents
  <2>4. QED
    BY <2>1, <2>2, <2>3, ScrollBalanced
<1>8. QED
  BY <1>1, <1>2, <1>3, <1>4, <1>5, <1>6, <1>7 DEF Next

\* A ledger whose entries are all paid has the same sum throughout: if one
\* differed, there would be a first that does.
LEMMA PaidInFull ==
    ASSUME NEW k \in Nat, NEW sum \in [0 .. k -> Int],
           \A n \in 1 .. k : sum[n] = sum[n - 1]
    PROVE  sum[k] = sum[0]
<1> DEFINE less == {p \in Nat \X Nat : p[1] < p[2]}
           wrong == {n \in 0 .. k : sum[n] # sum[0]}
<1>1. IsWellFoundedOn(less, Nat)
  BY NatLessThanWellFounded DEF OpToRel
<1>2. wrong \in SUBSET Nat
  OBVIOUS
<1>3. \A n \in 0 .. k, m \in 0 .. k : m < n => <<m, n>> \in less
  OBVIOUS
<1>4. SUFFICES ASSUME wrong # {} PROVE FALSE
  OBVIOUS
<1> HIDE DEF less
<1>5. PICK n \in wrong : \A m \in wrong : <<m, n>> \notin less
  <2> HIDE DEF wrong
  <2>1. QED
    BY <1>1, <1>2, <1>4, WFMin
<1>6. n \in 1 .. k /\ n - 1 \in 0 .. k /\ n - 1 < n
  BY <1>5
<1>7. sum[n] = sum[n - 1]
  BY <1>6
<1>8. n - 1 \in wrong
  BY <1>5, <1>6, <1>7
<1>9. QED
  BY <1>3, <1>5, <1>6, <1>8

LEMMA ScrollInvariance == Spec => []ScrollInv
<1>1. Init => ScrollInv
  BY InitIInv, InitBalanced DEF ScrollInv
<1>2. ScrollInv /\ [Next]_vars => ScrollInv'
  <2>1. SUFFICES ASSUME ScrollInv, [Next]_vars PROVE ScrollInv'
    OBVIOUS
  <2>2. IInv'
    BY <2>1, NextStep DEF ScrollInv
  <2>3. ASSUME NEW a \in Axes PROVE Balanced(a)'
    BY <2>1, NextBalanced DEF ScrollInv
  <2>4. QED
    BY <2>2, <2>3 DEF ScrollInv
<1>3. QED
  BY <1>1, <1>2, PTL DEF Spec

\* Between events the content has moved by what all events are worth together,
\* however many threads scroll through the one pointer and however their
\* requests mix: none counts twice, none is lost, and the axes keep apart.
THEOREM AllIsScrolled == Spec => []ScrollsInFull
<1>1. ASSUME ScrollInv, Quiet, NEW a \in Axes PROVE comp.travel[a] = due[a]
  <2>0. PICK k \in Nat : \E own \in [1 .. k -> Injectors], amt \in [1 .. k -> Int],
                           sum \in [0 .. k -> Int] : Ledger(a, k, own, amt, sum)
    BY <1>1 DEF ScrollInv, Balanced
  <2>1. PICK own \in [1 .. k -> Injectors], amt \in [1 .. k -> Int],
             sum \in [0 .. k -> Int] : Ledger(a, k, own, amt, sum)
    BY <2>0
  <2>2. ASSUME NEW n \in 1 .. k PROVE sum[n] = sum[n - 1]
    <3>1. amt[n] = 0
      <4>1. todo[own[n]] = <<>>
        BY <1>1 DEF Quiet
      <4>2. amt[n] # 0 => Worth(todo[own[n]], a, amt[n])
        BY <2>1 DEF Ledger
      <4>3. QED
        BY <4>1, <4>2, EmptyIsWorthZero
    <3>2. sum[n] = sum[n - 1] + amt[n] /\ n - 1 \in 0 .. k
      BY <2>1 DEF Ledger
    <3>3. QED
      BY <3>1, <3>2
  <2>3. sum[k] = sum[0]
    BY <2>2, PaidInFull
  <2>4. QED
    BY <2>1, <2>3 DEF Ledger
<1>2. ScrollInv => ScrollsInFull
  <2>1. SUFFICES ASSUME ScrollInv, Quiet PROVE comp.travel = due
    BY DEF ScrollsInFull
  <2>2. comp.travel \in [Axes -> 0 .. Wrap - 1] /\ due \in [Axes -> 0 .. Wrap - 1]
    BY <2>1 DEF ScrollInv, IInv, TypeOK
  <2>3. QED
    BY <1>1, <2>1, <2>2
<1>3. QED
  BY ScrollInvariance, <1>2, PTL
=============================================================================
