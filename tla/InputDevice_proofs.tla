------------------------- MODULE InputDevice_proofs -------------------------
(***************************************************************************)
(* Proofs about InputDevice: for any keys, buttons, axes, fingers and      *)
(* positions, and any number of messages, what the application believes to *)
(* be held is what the user holds.                                         *)
(***************************************************************************)
EXTENDS InputDevice, TLAPS, FiniteSetTheorems, SequenceTheorems

-----------------------------------------------------------------------------
(* Types. *)

KeyTypes == {"KeyDown", "KeyUp"}
ClickTypes == {"MouseDown", "MouseUp"}
MouseTypes == ClickTypes \cup {"MouseMove", "MouseWheel"}
PadTypes == {"GamepadButtonPressed", "GamepadButtonReleased"}
TouchTypes == {"TouchStart", "TouchEnd", "TouchMove"}
PlainTypes == {"MouseEnter", "MouseLeave", "KeyPress"}

\* The control that a message is about is of its device, and is the only one
\* unless fingers are meant.
Fits(m) ==
    /\ m.type \in KeyTypes => \E c \in Keys : m.controls = {c}
    /\ m.type \in ClickTypes => \E c \in Buttons : m.controls = {c}
    /\ m.type \in MouseTypes \ ClickTypes => m.controls = {}
    /\ m.type \in PadTypes => \E c \in Pads : m.controls = {c}
    /\ m.type = "GamepadAnalog" => \E c \in Axes : m.controls = {c}
    /\ m.type \in TouchTypes => m.controls \subseteq Touching

Message ==
    {m \in [type : KeyTypes \cup MouseTypes \cup PadTypes \cup {"GamepadAnalog"} \cup TouchTypes
                       \cup PlainTypes \cup Strings,
            controls : SUBSET Controls, valid : SUBSET Controls, pos : Positions \cup {Nowhere}] :
        Fits(m)}

Pixels == {UnquantizeAndDenormalize(pos) : pos \in Positions \cup {Nowhere}}

KeyEvents == [event : {"KEY_DOWN", "KEY_UP"}, code : Codes]
MouseEvents ==
    [event : {"MOUSE_DOWN", "MOUSE_UP", "MOUSE_MOVE", "MOUSE_WHEEL"}, code : Codes,
     pos : Pixels]
PadEvents ==
    [event : {"GAMEPAD_PRESS", "GAMEPAD_RELEASE", "GAMEPAD_ANALOG"}, code : Codes,
     value : BOOLEAN]
TouchEvents == [event : {"TOUCH_START", "TOUCH_END", "TOUCH_MOVE"}, code : Fingers]
PlainEvents == [event : {"MOUSE_ENTER", "MOUSE_LEAVE", "KEY_PRESS"}]

FEvents == KeyEvents \cup MouseEvents \cup PadEvents \cup TouchEvents \cup PlainEvents

-----------------------------------------------------------------------------
(* What browser and application are to agree about: every name of a key or *)
(* button, the canvas and the cursor.                                      *)

Names ==
    Of("key", Codes) \cup Of("mouse", 0 .. 5) \cup Of("pad", ButtonIndices)
        \cup Of("axis", AxisIndices)

Canvas == <<"canvas", 0>>
Cursor == <<"cursor", 0>>

Things == Names \cup {Canvas, Cursor}

\* The event that a message becomes, if it is one.
HasEvent(m) == m.type \notin Strings \cup TouchTypes
EventIn(m) == ParseEvents(m)[1]

\* The things an event sets, ...
Concerns(e, a) ==
    \/ e.event \in {"KEY_DOWN", "KEY_UP"} /\ a = GetKey(e)
    \/ e.event \in {"MOUSE_DOWN", "MOUSE_UP"} /\ a \in {<<"mouse", e.code>>, Cursor}
    \/ e.event = "MOUSE_MOVE" /\ a = Cursor
    \/ e.event \in {"GAMEPAD_PRESS", "GAMEPAD_RELEASE"} /\ a = GetGamepadButton(e)
    \/ e.event = "GAMEPAD_ANALOG" /\ a = GetGamepadAnalog(e)
    \/ e.event \in {"MOUSE_ENTER", "MOUSE_LEAVE"} /\ a = Canvas

SaysDown(e) ==
    \/ e.event \in {"KEY_DOWN", "MOUSE_DOWN", "GAMEPAD_PRESS"}
    \/ e.event = "GAMEPAD_ANALOG" /\ e.value

\* ... and those a message will set.
Asks(m, a) == HasEvent(m) /\ Concerns(EventIn(m), a)

\* What the user holds lets the name be down, or be up.
MayBeDown(d) ==
    \/ d = <<"key", Invalid>>
    \/ d[1] = "mouse" /\ browser.odd
    \/ \E c \in browser.held : HasName(c) /\ NameOf(c) = d

MayBeUp(d) ==
    \A c \in browser.held :
        NameOf(c) = d => \/ ~HasName(c)
                         \/ c \in Buttons /\ browser.odd
                         \/ \E other \in Keys \ {c} : NameOf(other) = NameOf(c)

There == UnquantizeAndDenormalize(browser.mouse)

\* What an event sets the thing to agrees with the browser as it is now.
Agrees(e, a) ==
    /\ a = Cursor => There = LastPixel \/ e.pos = There
    /\ a = Canvas => (e.event = "MOUSE_ENTER" <=> browser.inside)
    /\ a \in Names => IF SaysDown(e) THEN MayBeDown(a) ELSE MayBeUp(a)

\* The application agrees with the browser.
AgreesNow(a) ==
    /\ a = Cursor => There = LastPixel \/ application.cursor = There
    /\ a = Canvas => application.overridden = browser.inside
    /\ a \in Names => IF a \in application.down THEN MayBeDown(a) ELSE MayBeUp(a)

-----------------------------------------------------------------------------
MessagesAbout(a) == {i \in DOMAIN messages : Asks(messages[i], a)}
EventsAbout(a) == {i \in DOMAIN Events : Concerns(Events[i], a)}

Newest(S, i) == i \in S /\ \A j \in S : j <= i

\* The newest word about a thing, be it a message, an event or what the
\* application already knows, agrees with the browser.
Promised(a) ==
    /\ \A i \in MessagesAbout(a) : Newest(MessagesAbout(a), i) => Agrees(EventIn(messages[i]), a)
    /\ MessagesAbout(a) = {} =>
          /\ \A i \in EventsAbout(a) : Newest(EventsAbout(a), i) => Agrees(Events[i], a)
          /\ EventsAbout(a) = {} => AgreesNow(a)

DeviceTypeOK ==
    /\ browser \in [held : SUBSET Controls, inside : BOOLEAN, left : BOOLEAN,
                    mouse : Positions \cup {Nowhere}, odd : BOOLEAN]
    /\ messages \in Seq(Message)
    /\ Events \in Seq(FEvents)
    /\ application \in [down : SUBSET (Names \cup Touching), overridden : BOOLEAN, cursor : Pixels]

IsClick(e) == e.event \in {"MOUSE_DOWN", "MOUSE_UP"}

\* Until a button without a name is clicked, no such click is on its way.
ClicksNamed ==
    ~browser.odd =>
        /\ \A i \in DOMAIN messages :
              HasEvent(messages[i]) /\ IsClick(EventIn(messages[i])) =>
                  EventIn(messages[i]).code \in 0 .. 4
        /\ \A i \in DOMAIN Events : IsClick(Events[i]) => Events[i].code \in 0 .. 4

DeviceInv ==
    /\ DeviceTypeOK
    /\ ClicksNamed
    /\ ~browser.left => \A a \in Things : Promised(a)

-----------------------------------------------------------------------------
(* What messages and events say. *)

LEMMA ThingsDiffer ==
    /\ Cursor # Canvas
    /\ \A a \in Names : a # Cursor /\ a # Canvas
  BY DEF Names, Of, Cursor, Canvas

\* The controls of each device, and their names.
LEMMA DevicesDiffer ==
    /\ \A c \in Keys : c[1] = "key" /\ c[2] \in Codes
    /\ \A c \in Buttons : c[1] = "mouse" /\ c[2] \in Codes
    /\ \A c \in Pads : c[1] = "pad" /\ c[2] \in Codes
    /\ \A c \in Axes : c[1] = "axis" /\ c[2] \in Codes
    /\ \A c \in Touching : c[1] = "finger" /\ c[2] \in Fingers
  <1>1. /\ KeyCodes \subseteq Codes /\ MouseButtons \subseteq Codes
        /\ GamepadButtons \subseteq Codes /\ GamepadAxes \subseteq Codes
    BY CodesAssumption
  <1>2. ASSUME NEW device, NEW codes, NEW c \in Of(device, codes)
        PROVE  c[1] = device /\ c[2] \in codes
    BY DEF Of
  <1>3. QED
    BY <1>1, <1>2, Zenon DEF Keys, Buttons, Pads, Axes, Touching

LEMMA NamesOfControls ==
    /\ \A c \in Keys : /\ NameOf(c) = <<"key", JavaScriptKeyCodeToFKey[c[2]]>>
                       /\ JavaScriptKeyCodeToFKey[c[2]] \in Codes
    /\ \A c \in Buttons \cup Pads \cup Axes \cup Touching : NameOf(c) = c
  <1>1. \A code \in Codes : JavaScriptKeyCodeToFKey[code] \in Codes
    BY DEF JavaScriptKeyCodeToFKey, Invalid, Codes
  <1>2. \A c \in Buttons \cup Pads \cup Axes \cup Touching : c \notin Keys
    BY DevicesDiffer
  <1>3. QED
    BY <1>1, <1>2, DevicesDiffer DEF NameOf

LEMMA TheOnlyControl ==
    ASSUME NEW m, NEW c, m.controls = {c}
    PROVE  TheControl(m) = c
  BY DEF TheControl

\* The event of every kind of message.
LEMMA KeyIn ==
    ASSUME NEW m \in Message, m.type \in KeyTypes, NEW c \in Keys, m.controls = {c}
    PROVE  /\ EventIn(m) = KeyEvent(m.type, c) /\ EventIn(m) \in KeyEvents
           /\ EventIn(m).event = IF m.type = "KeyDown" THEN "KEY_DOWN" ELSE "KEY_UP"
           /\ EventIn(m).code = c[2] /\ GetKey(EventIn(m)) = NameOf(c)
  <1>1. EventIn(m) = KeyEvent(m.type, c)
    BY TheOnlyControl DEF EventIn, ParseEvents, ParseKey, KeyTypes
  <1>2. EventOf[m.type] = IF m.type = "KeyDown" THEN "KEY_DOWN" ELSE "KEY_UP"
    BY DEF EventOf, KeyTypes
  <1>3. c[2] \in Codes
    BY DevicesDiffer
  <1>4. QED
    BY <1>1, <1>2, <1>3, NamesOfControls DEF KeyEvent, KeyEvents, GetKey

LEMMA MouseIn ==
    ASSUME NEW m \in Message, m.type \in MouseTypes
    PROVE  /\ EventIn(m) \in MouseEvents
           /\ EventIn(m).event = EventOf[m.type]
           /\ EventIn(m).pos = UnquantizeAndDenormalize(m.pos)
           /\ \A c : m.controls = {c} => EventIn(m).code = c[2]
  <1>. DEFINE code == IF m.controls = {} THEN 0 ELSE TheControl(m)[2]
  <1>1. EventIn(m) = MouseEvent(m.type, code, m.pos)
    BY DEF EventIn, ParseEvents, ParseMouse, MouseTypes, ClickTypes
  <1>2. code \in Codes /\ \A c : m.controls = {c} => code = c[2]
    <2>1. CASE m.type \in ClickTypes
      <3>1. PICK c \in Buttons : m.controls = {c}
        BY <2>1 DEF Message, Fits
      <3>2. TheControl(m) = c /\ c[2] \in Codes
        BY <3>1, TheOnlyControl, DevicesDiffer
      <3>3. QED
        BY <3>1, <3>2
    <2>2. CASE m.type \notin ClickTypes
      <3>1. m.controls = {}
        BY <2>2 DEF Message, Fits
      <3>2. 0 \in Codes
        BY DEF Codes
      <3>3. QED
        BY <3>1, <3>2
    <2>3. QED
      BY <2>1, <2>2
  <1>3. UnquantizeAndDenormalize(m.pos) \in Pixels
    BY DEF Pixels, Message
  <1>4. EventOf[m.type] \in {"MOUSE_DOWN", "MOUSE_UP", "MOUSE_MOVE", "MOUSE_WHEEL"}
    BY DEF EventOf, MouseTypes, ClickTypes
  <1>. HIDE DEF code
  <1>5. QED
    BY <1>1, <1>2, <1>3, <1>4 DEF MouseEvent, MouseEvents

LEMMA PadIn ==
    ASSUME NEW m \in Message, m.type \in PadTypes \cup {"GamepadAnalog"},
           NEW c \in Pads \cup Axes, m.controls = {c}
    PROVE  /\ EventIn(m) \in PadEvents
           /\ EventIn(m).event = EventOf[m.type]
           /\ EventIn(m).code = c[2]
           /\ EventIn(m).value <=> m.valid # {}
  <1>1. EventIn(m) = GamepadEvent(m.type, c, m.valid # {})
    BY TheOnlyControl DEF EventIn, ParseEvents, ParseGamepad, PadTypes
  <1>2. EventOf[m.type] \in {"GAMEPAD_PRESS", "GAMEPAD_RELEASE", "GAMEPAD_ANALOG"}
    BY DEF EventOf, PadTypes
  <1>3. c[2] \in Codes
    BY DevicesDiffer
  <1>6. EventIn(m) \in PadEvents
    <2>. DEFINE event == EventOf[m.type]
    <2>1. [event |-> event, code |-> c[2], value |-> m.valid # {}] \in PadEvents
      <3>. HIDE DEF event
      <3>1. CASE m.valid # {}
        BY <1>2, <1>3, <3>1 DEF PadEvents, event
      <3>2. CASE m.valid = {}
        BY <1>2, <1>3, <3>2 DEF PadEvents, event
      <3>3. QED
        BY <3>1, <3>2
    <2>2. QED
      BY <1>1, <2>1 DEF GamepadEvent
  <1>7. EventIn(m).value = (m.valid # {})
    BY <1>1 DEF GamepadEvent
  <1>8. EventIn(m).event = EventOf[m.type] /\ EventIn(m).code = c[2]
    BY <1>1 DEF GamepadEvent
  <1>9. QED
    BY <1>6, <1>7, <1>8

LEMMA PlainIn ==
    ASSUME NEW m \in Message, m.type \in PlainTypes
    PROVE  EventIn(m) \in PlainEvents /\ EventIn(m).event = EventOf[m.type]
  <1>1. EventIn(m) = [event |-> EventOf[m.type]]
    BY DEF EventIn, ParseEvents, Event, PlainTypes
  <1>2. EventOf[m.type] \in {"MOUSE_ENTER", "MOUSE_LEAVE", "KEY_PRESS"}
    BY DEF EventOf, PlainTypes
  <1>3. QED
    BY <1>1, <1>2 DEF PlainEvents

\* A message that has an event has just the one.
LEMMA OneEvent ==
    ASSUME NEW m \in Message, HasEvent(m)
    PROVE  ParseEvents(m) = <<EventIn(m)>> /\ EventIn(m) \in FEvents
  <1>1. m.type \in KeyTypes \cup MouseTypes \cup PadTypes \cup {"GamepadAnalog"} \cup PlainTypes
    BY DEF Message, HasEvent
  <1>2. EventIn(m) \in FEvents
    <2>1. CASE m.type \in KeyTypes
      <3>1. PICK c \in Keys : m.controls = {c}
        BY <2>1 DEF Message, Fits
      <3>2. QED
        BY <2>1, <3>1, KeyIn DEF FEvents
    <2>2. CASE m.type \in MouseTypes
      BY <2>2, MouseIn DEF FEvents
    <2>3. CASE m.type \in PadTypes \cup {"GamepadAnalog"}
      <3>1. PICK c \in Pads \cup Axes : m.controls = {c}
        BY <2>3 DEF Message, Fits
      <3>2. QED
        BY <2>3, <3>1, PadIn DEF FEvents
    <2>4. CASE m.type \in PlainTypes
      BY <2>4, PlainIn DEF FEvents
    <2>5. QED
      BY <1>1, <2>1, <2>2, <2>3, <2>4
  <1>3. ParseEvents(m) = <<ParseEvents(m)[1]>>
    <2>1. \E e : ParseEvents(m) = <<e>>
      BY <1>1 DEF KeyTypes, MouseTypes, ClickTypes, PadTypes, PlainTypes, ParseEvents, ParseKey,
                  ParseMouse, ParseGamepad
    <2>2. QED
      BY <2>1
  <1>4. QED
    BY <1>2, <1>3 DEF EventIn

\* The message of some touches becomes a sequence of touches.
LEMMA TouchesOf ==
    ASSUME NEW m \in Message, m.type \in TouchTypes
    PROVE  ParseEvents(m) \in Seq(TouchEvents)
  <1>. DEFINE touched == GetTouches(m.controls)
              S == IF m.type = "TouchEnd" THEN touched ELSE touched \cap m.valid
              fingers == SetToSeq(S)
  <1>1. S \subseteq Touching
    BY DEF Message, Fits, GetTouches
  <1>2. IsFiniteSet(S)
    <2>1. IsFiniteSet(Fingers)
      <3>1. IsFiniteSet(Codes)
        <4>. DEFINE n == 255
        <4>1. n \in Int
          OBVIOUS
        <4>. HIDE DEF n
        <4>2. IsFiniteSet(0 .. n)
          BY <4>1, FS_Interval
        <4>3. QED
          BY <4>2 DEF n, Codes
      <3>2. Fingers \subseteq Codes
        BY CodesAssumption
      <3>3. QED
        BY <3>1, <3>2, FS_Subset
    <2>2. IsFiniteSet(Touching)
      BY <2>1, FS_Singleton, FS_Product DEF Touching, Of
    <2>3. QED
      BY <1>1, <2>2, FS_Subset
  <1>. HIDE DEF S
  <1>3. fingers \in [1 .. Cardinality(S) -> S] /\ Cardinality(S) \in Nat
    <2>1. Cardinality(S) \in Nat
      BY <1>2, FS_CardinalityType
    <2>2. \E f \in [1 .. Cardinality(S) -> S] : IsInjective(f)
      <3>1. ExistsBijection(1 .. Cardinality(S), S)
        BY <1>2, FS_CardinalityType
      <3>2. QED
        BY <3>1 DEF ExistsBijection, Bijection, Injection, IsInjective
    <2>3. QED
      BY <2>1, <2>2 DEF SetToSeq
  <1>. DEFINE es == [i \in DOMAIN fingers |-> TouchEvent(m.type, fingers[i])]
  <1>4. ParseEvents(m) = es
    BY DEF ParseEvents, ParseTouches, TouchTypes, S
  <1>. HIDE DEF fingers
  <1>5. EventOf[m.type] \in {"TOUCH_START", "TOUCH_END", "TOUCH_MOVE"}
    BY DEF EventOf, TouchTypes
  <1>6. \A c \in S : TouchEvent(m.type, c) \in TouchEvents
    BY <1>1, <1>5, DevicesDiffer DEF TouchEvent, TouchEvents
  <1>7. es \in [1 .. Cardinality(S) -> TouchEvents]
    BY <1>3, <1>6
  <1>8. QED
    BY <1>3, <1>4, <1>7

-----------------------------------------------------------------------------
(* OnMessage: a word moves from the messages to the events. *)

\* Touches are about none of the things.
LEMMA TouchesConcernNothing ==
    ASSUME NEW e \in TouchEvents, NEW a
    PROVE  ~Concerns(e, a) /\ ~IsClick(e)
  BY DEF TouchEvents, Concerns, IsClick

\* What a message adds to the queue of events.
LEMMA Queued ==
    ASSUME DeviceTypeOK, OnMessage
    PROVE  \E es \in Seq(FEvents) :
              /\ Events' = Events \o es
              /\ HasEvent(messages[1]) => es = <<EventIn(messages[1])>>
              /\ ~HasEvent(messages[1]) =>
                    \A i \in 1 .. Len(es) : ~IsClick(es[i]) /\ \A a : ~Concerns(es[i], a)
  <1>. DEFINE m == messages[1]
  <1>1. m \in Message /\ Head(messages) = m
    BY DEF DeviceTypeOK, OnMessage
  <1>2. Events' = IF m.type \in Strings THEN Events ELSE Events \o ParseEvents(m)
    BY <1>1 DEF OnMessage
  <1>3. Events \in Seq(FEvents)
    BY DEF DeviceTypeOK
  <1>. HIDE DEF m
  <1>4. CASE m.type \in Strings
    <2>. DEFINE es == <<>>
    <2>1. Events' = Events \o es /\ es \in Seq(FEvents) /\ 1 .. Len(es) = {}
      BY <1>2, <1>3, <1>4
    <2>2. ~HasEvent(m)
      BY <1>4 DEF HasEvent
    <2>. HIDE DEF es
    <2>3. QED
      BY <2>1, <2>2 DEF m
  <1>5. CASE m.type \in TouchTypes
    <2>1. ParseEvents(m) \in Seq(TouchEvents)
      BY <1>1, <1>5, TouchesOf
    <2>2. ParseEvents(m) \in Seq(FEvents)
      BY <2>1 DEF FEvents
    <2>3. \A i \in 1 .. Len(ParseEvents(m)) : ParseEvents(m)[i] \in TouchEvents
      BY <2>1
    <2>4. ~HasEvent(m) /\ m.type \notin Strings
      BY <1>5 DEF HasEvent, TouchTypes, Strings
    <2>5. QED
      BY <1>2, <2>2, <2>3, <2>4, TouchesConcernNothing DEF m
  <1>6. CASE m.type \notin Strings \cup TouchTypes
    <2>1. HasEvent(m)
      BY <1>6 DEF HasEvent
    <2>2. ParseEvents(m) = <<EventIn(m)>> /\ EventIn(m) \in FEvents
      BY <1>1, <2>1, OneEvent
    <2>3. <<EventIn(m)>> \in Seq(FEvents)
      BY <2>2
    <2>4. QED
      BY <1>2, <1>6, <2>1, <2>2, <2>3 DEF m
  <1>7. QED
    BY <1>4, <1>5, <1>6

\* The indices of what is left when the first is taken away.
LEMMA Shifted ==
    ASSUME NEW T, NEW s \in Seq(T), s # <<>>
    PROVE  /\ Tail(s) \in Seq(T) /\ Len(Tail(s)) = Len(s) - 1
           /\ \A i \in DOMAIN Tail(s) : i + 1 \in DOMAIN s /\ Tail(s)[i] = s[i + 1]
           /\ \A i \in DOMAIN s : i = 1 \/ (i - 1 \in DOMAIN Tail(s) /\ Tail(s)[i - 1] = s[i])
  OBVIOUS

LEMMA Joined ==
    ASSUME NEW T, NEW s \in Seq(T), NEW t \in Seq(T)
    PROVE  /\ s \o t \in Seq(T) /\ Len(s \o t) = Len(s) + Len(t)
           /\ \A i \in DOMAIN s : i \in DOMAIN (s \o t) /\ (s \o t)[i] = s[i]
           /\ \A i \in DOMAIN (s \o t) :
                 i \in DOMAIN s \/ (i - Len(s) \in DOMAIN t /\ (s \o t)[i] = t[i - Len(s)])
           /\ \A i \in DOMAIN t : i + Len(s) \in DOMAIN (s \o t)
  OBVIOUS

\* The newest word stays the newest.
LEMMA QueuedKeepsPromise ==
    ASSUME DeviceTypeOK, OnMessage, NEW a \in Things, Promised(a)
    PROVE  Promised(a)'
  <1>. DEFINE m == messages[1]
  <1>1. PICK es \in Seq(FEvents) :
           /\ Events' = Events \o es
           /\ HasEvent(m) => es = <<EventIn(m)>>
           /\ ~HasEvent(m) => \A i \in 1 .. Len(es) : \A b : ~Concerns(es[i], b)
    BY Queued
  <1>2. /\ messages \in Seq(Message) /\ messages # <<>> /\ messages' = Tail(messages)
        /\ Events \in Seq(FEvents) /\ browser' = browser /\ application' = application
    BY DEF DeviceTypeOK, OnMessage
  <1>3. 1 \in DOMAIN messages
    BY <1>2
  <1>4. \A i \in MessagesAbout(a) : i = 1 \/ i - 1 \in MessagesAbout(a)'
    BY <1>2, Shifted DEF MessagesAbout
  <1>5. \A i \in MessagesAbout(a)' :
           i + 1 \in MessagesAbout(a) /\ messages'[i] = messages[i + 1] /\ i \in Nat /\ i >= 1
    BY <1>2, Shifted DEF MessagesAbout
  <1>6. 1 \in MessagesAbout(a) <=> Asks(m, a)
    BY <1>3 DEF MessagesAbout
  <1>7. \A e : Agrees(e, a)' <=> Agrees(e, a)
    BY <1>2 DEF Agrees, MayBeDown, MayBeUp, There
  <1>8. AgreesNow(a)' <=> AgreesNow(a)
    BY <1>2 DEF AgreesNow, MayBeDown, MayBeUp, There
  <1>9. \A i \in 1 .. Len(es) : Concerns(es[i], a) => Asks(m, a) /\ es = <<EventIn(m)>>
    <2>1. es = <<EventIn(m)>> => \A i \in 1 .. Len(es) : es[i] = EventIn(m)
      OBVIOUS
    <2>. HIDE DEF m
    <2>2. QED
      BY <1>1, <2>1 DEF Asks
  <1>10. MessagesAbout(a) \subseteq Nat
    BY <1>2 DEF MessagesAbout
  <1>. HIDE DEF m
  <1>11. ASSUME NEW i \in MessagesAbout(a)', Newest(MessagesAbout(a), i)'
         PROVE  Agrees(EventIn(messages[i]), a)'
    <2>1. \A j \in MessagesAbout(a)' : j <= i
      BY <1>11 DEF Newest
    <2>2. \A j \in MessagesAbout(a) : j <= i + 1
      BY <1>4, <1>5, <1>10, <1>11, <2>1
    <2>3. Newest(MessagesAbout(a), i + 1)
      BY <1>5, <1>11, <2>2 DEF Newest
    <2>4. Agrees(EventIn(messages[i + 1]), a)
      BY <1>5, <1>11, <2>3 DEF Promised
    <2>5. EventIn(messages'[i]) = EventIn(messages[i + 1])
      BY <1>5, <1>11
    <2>6. Agrees(EventIn(messages'[i]), a)
      BY <2>4, <2>5
    <2>7. QED
      BY <1>7, <2>6
  <1>12. ASSUME MessagesAbout(a)' = {}
         PROVE  /\ \A i \in EventsAbout(a)' :
                      Newest(EventsAbout(a), i)' => Agrees(Events[i], a)'
                /\ EventsAbout(a)' = {} => AgreesNow(a)'
    <2>1. CASE Asks(m, a)
      <3>1. MessagesAbout(a) = {1}
        BY <1>4, <1>6, <1>12, <2>1
      <3>2. Agrees(EventIn(m), a)
        BY <3>1 DEF Promised, Newest, m
      <3>3. es = <<EventIn(m)>> /\ Concerns(EventIn(m), a)
        BY <1>1, <2>1 DEF Asks, m
      <3>. DEFINE n == Len(Events) + 1
      <3>4. /\ n \in DOMAIN Events' /\ Events'[n] = EventIn(m)
            /\ \A i \in DOMAIN Events' : i <= n /\ i \in Nat
        BY <1>1, <1>2, <3>3
      <3>5. n \in EventsAbout(a)'
        BY <3>3, <3>4 DEF EventsAbout
      <3>. HIDE DEF n
      <3>6. ASSUME NEW i \in EventsAbout(a)', Newest(EventsAbout(a), i)'
            PROVE  Events'[i] = EventIn(m)
        <4>1. n <= i /\ i <= n
          BY <3>4, <3>5, <3>6 DEF Newest, EventsAbout
        <4>2. n \in Nat /\ i \in Nat
          BY <3>4, <3>6 DEF EventsAbout
        <4>3. QED
          BY <3>4, <4>1, <4>2
      <3>7. QED
        BY <1>7, <3>2, <3>5, <3>6
    <2>2. CASE ~Asks(m, a)
      <3>1. MessagesAbout(a) = {}
        BY <1>4, <1>6, <1>12, <2>2
      <3>2. \A i \in EventsAbout(a) : i \in EventsAbout(a)'
        BY <1>1, <1>2, Joined DEF EventsAbout
      <3>3. \A i \in EventsAbout(a)' : i \in EventsAbout(a) /\ Events'[i] = Events[i]
        BY <1>1, <1>2, <1>9, <2>2, Joined, SMTT(20) DEF EventsAbout
      <3>4. QED
        BY <1>7, <1>8, <3>1, <3>2, <3>3 DEF Promised, Newest
    <2>3. QED
      BY <2>1, <2>2
  <1>13. QED
    BY <1>11, <1>12 DEF Promised

LEMMA OnMessageStep ==
    ASSUME DeviceInv, OnMessage
    PROVE  DeviceInv'
  <1>1. PICK es \in Seq(FEvents) :
           /\ Events' = Events \o es
           /\ HasEvent(messages[1]) => es = <<EventIn(messages[1])>>
           /\ ~HasEvent(messages[1]) => \A i \in 1 .. Len(es) : ~IsClick(es[i])
    BY Queued DEF DeviceInv
  <1>2. /\ messages \in Seq(Message) /\ messages # <<>> /\ messages' = Tail(messages)
        /\ Events \in Seq(FEvents) /\ browser' = browser /\ application' = application
    BY DEF DeviceInv, DeviceTypeOK, OnMessage
  <1>3. messages' \in Seq(Message) /\ Events' \in Seq(FEvents)
    BY <1>1, <1>2, Shifted, Joined
  <1>4. DeviceTypeOK'
    BY <1>2, <1>3 DEF DeviceInv, DeviceTypeOK
  <1>5. ASSUME ~browser.odd
        PROVE  /\ \A i \in DOMAIN messages' :
                     HasEvent(messages'[i]) /\ IsClick(EventIn(messages'[i])) =>
                         EventIn(messages'[i]).code \in 0 .. 4
               /\ \A i \in DOMAIN Events' : IsClick(Events'[i]) => Events'[i].code \in 0 .. 4
    <2>. DEFINE Named(e) == e.code \in 0 .. 4
    <2>1. /\ \A i \in DOMAIN messages :
                HasEvent(messages[i]) /\ IsClick(EventIn(messages[i])) => Named(EventIn(messages[i]))
          /\ \A i \in DOMAIN Events : IsClick(Events[i]) => Named(Events[i])
      BY <1>5 DEF DeviceInv, ClicksNamed
    <2>. HIDE DEF Named
    <2>2. 1 \in DOMAIN messages
      BY <1>2
    <2>3. \A i \in 1 .. Len(es) : IsClick(es[i]) => Named(es[i])
      BY <1>1, <2>1, <2>2
    <2>4. \A i \in DOMAIN Events' : IsClick(Events'[i]) => Named(Events'[i])
      BY <1>1, <1>2, <2>1, <2>3, Joined
    <2>5. \A i \in DOMAIN messages' :
             HasEvent(messages'[i]) /\ IsClick(EventIn(messages'[i])) => Named(EventIn(messages'[i]))
      BY <1>2, <2>1, Shifted
    <2>6. QED
      BY <2>4, <2>5 DEF Named
  <1>6. ClicksNamed'
    BY <1>2, <1>5 DEF ClicksNamed
  <1>7. ~browser'.left => \A a \in Things : Promised(a)'
    BY <1>2, QueuedKeepsPromise DEF DeviceInv
  <1>8. QED
    BY <1>4, <1>6, <1>7 DEF DeviceInv

-----------------------------------------------------------------------------
(* DequeueEvent: a word moves from the events to the application. *)

\* What may be said of a name depends on the browser alone.
LEMMA SameBrowser ==
    ASSUME browser' = browser
    PROVE  /\ \A d : (MayBeDown(d)' <=> MayBeDown(d)) /\ (MayBeUp(d)' <=> MayBeUp(d))
           /\ There' = There
           /\ \A e, a : Agrees(e, a)' <=> Agrees(e, a)
  <1>1. \A d : (MayBeDown(d)' <=> MayBeDown(d)) /\ (MayBeUp(d)' <=> MayBeUp(d))
    BY DEF MayBeDown, MayBeUp
  <1>2. There' = There
    BY DEF There
  <1>3. \A e, a : Agrees(e, a)' <=> Agrees(e, a)
    BY <1>1, <1>2 DEF Agrees
  <1>4. QED
    BY <1>1, <1>2, <1>3

\* Of a mouse button nothing is known once one without a name was clicked.
LEMMA OddMouse ==
    ASSUME DeviceTypeOK, browser.odd, NEW d \in Names, d[1] = "mouse"
    PROVE  MayBeDown(d) /\ MayBeUp(d)
  <1>1. MayBeDown(d)
    BY DEF MayBeDown
  <1>2. ASSUME NEW c \in browser.held, NameOf(c) = d
        PROVE  c \in Buttons
    <2>1. c \in Keys \cup Buttons \cup Pads \cup Axes \cup Touching
      BY <1>2 DEF DeviceTypeOK, Controls
    <2>2. c \notin Keys
      BY <1>2, NamesOfControls
    <2>3. NameOf(c) = c
      BY <2>1, <2>2, NamesOfControls
    <2>4. QED
      BY <1>2, <2>1, <2>2, <2>3, DevicesDiffer
  <1>3. QED
    BY <1>1, <1>2 DEF MayBeUp

\* The application after an event: names go down and up, ...
Sets(d, bDown) ==
    application' = [application EXCEPT !.down = IF bDown THEN @ \cup {d} ELSE @ \ {d}]

LEMMA Moved ==
    ASSUME DeviceTypeOK, browser' = browser, NEW d \in Names \cup Touching,
           NEW bDown \in BOOLEAN, Sets(d, bDown)
    PROVE  /\ application' \in [down : SUBSET (Names \cup Touching), overridden : BOOLEAN,
                                cursor : Pixels]
           /\ \A a \in Things \ {d} : AgreesNow(a) => AgreesNow(a)'
           /\ d \in Names => (AgreesNow(d)' <=> IF bDown THEN MayBeDown(d) ELSE MayBeUp(d))
  <1>. DEFINE down == IF bDown THEN application.down \cup {d} ELSE application.down \ {d}
  <1>1. application' = [application EXCEPT !.down = down]
    BY DEF Sets
  <1>2. /\ down \in SUBSET (Names \cup Touching)
        /\ \A a : a # d => (a \in down <=> a \in application.down)
        /\ d \in down <=> bDown
    BY DEF DeviceTypeOK
  <1>. HIDE DEF down
  <1>3. /\ application' \in [down : SUBSET (Names \cup Touching), overridden : BOOLEAN,
                             cursor : Pixels]
        /\ application'.down = down /\ application'.overridden = application.overridden
        /\ application'.cursor = application.cursor
    BY <1>1, <1>2 DEF DeviceTypeOK
  <1>4. \A a \in Things \ {d} : AgreesNow(a) => AgreesNow(a)'
    BY <1>2, <1>3, SameBrowser DEF AgreesNow
  <1>5. d \in Names => (AgreesNow(d)' <=> IF bDown THEN MayBeDown(d) ELSE MayBeUp(d))
    BY <1>2, <1>3, SameBrowser, ThingsDiffer DEF AgreesNow
  <1>6. QED
    BY <1>3, <1>4, <1>5

\* What processing an event means to a thing.
Processed(e, a) ==
    /\ Concerns(e, a) /\ Agrees(e, a) => AgreesNow(a)'
    /\ ~Concerns(e, a) /\ AgreesNow(a) => AgreesNow(a)'

ProcessedAll(e) ==
    /\ application' \in [down : SUBSET (Names \cup Touching), overridden : BOOLEAN,
                         cursor : Pixels]
    /\ \A a \in Things : Processed(e, a)

\* An event about one name.
LEMMA NameProcessed ==
    ASSUME DeviceTypeOK, browser' = browser, NEW d \in Names, NEW e, NEW bDown \in BOOLEAN,
           Sets(d, bDown), SaysDown(e) <=> bDown, \A a : Concerns(e, a) <=> a = d
    PROVE  ProcessedAll(e)
  <1>1. d \in Things
    BY DEF Things
  <1>2. Agrees(e, d) => IF bDown THEN MayBeDown(d) ELSE MayBeUp(d)
    BY ThingsDiffer DEF Agrees
  <1>3. QED
    BY <1>1, <1>2, Moved DEF ProcessedAll, Processed

\* An event that sets nothing.
LEMMA NothingProcessed ==
    ASSUME DeviceTypeOK, browser' = browser, NEW e, application' = application,
           \A a \in Things : ~Concerns(e, a)
    PROVE  ProcessedAll(e)
  <1>1. \A a \in Things : AgreesNow(a)' <=> AgreesNow(a)
    BY SameBrowser DEF AgreesNow
  <1>2. QED
    BY <1>1 DEF ProcessedAll, Processed, DeviceTypeOK

LEMMA KeyProcessed ==
    ASSUME DeviceTypeOK, browser' = browser, NEW e \in KeyEvents, ProcessKey(e)
    PROVE  ProcessedAll(e)
  <1>. DEFINE d == GetKey(e)
  <1>1. d \in Names
    <2>1. e.code \in Codes
      BY DEF KeyEvents
    <2>2. \A code \in Codes : JavaScriptKeyCodeToFKey[code] \in Codes
      BY DEF JavaScriptKeyCodeToFKey, Invalid, Codes
    <2>3. QED
      BY <2>1, <2>2 DEF GetKey, Names, Of
  <1>2. \A a : Concerns(e, a) <=> a = d
    BY DEF Concerns, KeyEvents
  <1>3. CASE e.event = "KEY_DOWN"
    <2>1. Sets(d, TRUE) /\ SaysDown(e)
      BY <1>3 DEF ProcessKey, Down, Sets, SaysDown
    <2>. HIDE DEF d
    <2>2. QED
      BY <1>1, <1>2, <2>1, NameProcessed
  <1>4. CASE e.event = "KEY_UP"
    <2>1. Sets(d, FALSE) /\ ~SaysDown(e)
      BY <1>4 DEF ProcessKey, Up, Sets, SaysDown
    <2>. HIDE DEF d
    <2>2. QED
      BY <1>1, <1>2, <2>1, NameProcessed
  <1>5. QED
    BY <1>3, <1>4 DEF KeyEvents

LEMMA PadProcessed ==
    ASSUME DeviceTypeOK, browser' = browser, NEW e \in PadEvents, ProcessGamepad(e)
    PROVE  ProcessedAll(e)
  <1>. DEFINE d == GetGamepadButton(e)
  <1>1. e.event \in {"GAMEPAD_PRESS", "GAMEPAD_RELEASE"}
    BY DEF ProcessGamepad
  <1>2. \A a : Concerns(e, a) <=> a = d
    BY <1>1 DEF Concerns
  <1>3. CASE e.code \notin ButtonIndices
    <2>1. application' = application
      BY <1>3 DEF ProcessGamepad
    <2>2. d \notin Things
      BY <1>3 DEF GetGamepadButton, Things, Names, Of, Canvas, Cursor
    <2>. HIDE DEF d
    <2>3. QED
      BY <1>2, <2>1, <2>2, NothingProcessed
  <1>4. CASE e.code \in ButtonIndices
    <2>1. d \in Names
      BY <1>4 DEF GetGamepadButton, Names, Of
    <2>2. CASE e.event = "GAMEPAD_PRESS"
      <3>1. Sets(d, TRUE) /\ SaysDown(e)
        BY <1>4, <2>2 DEF ProcessGamepad, Down, Sets, SaysDown
      <3>. HIDE DEF d
      <3>2. QED
        BY <1>2, <2>1, <3>1, NameProcessed
    <2>3. CASE e.event = "GAMEPAD_RELEASE"
      <3>1. Sets(d, FALSE) /\ ~SaysDown(e)
        BY <1>4, <2>3 DEF ProcessGamepad, Up, Sets, SaysDown
      <3>. HIDE DEF d
      <3>2. QED
        BY <1>2, <2>1, <3>1, NameProcessed
    <2>4. QED
      BY <1>1, <2>2, <2>3
  <1>5. QED
    BY <1>3, <1>4

LEMMA AnalogProcessed ==
    ASSUME DeviceTypeOK, browser' = browser, NEW e \in PadEvents, ProcessAnalog(e)
    PROVE  ProcessedAll(e)
  <1>. DEFINE d == GetGamepadAnalog(e)
  <1>1. e.event = "GAMEPAD_ANALOG"
    BY DEF ProcessAnalog
  <1>2. \A a : Concerns(e, a) <=> a = d
    BY <1>1 DEF Concerns
  <1>3. CASE e.code \notin AxisIndices
    <2>1. application' = application
      BY <1>3 DEF ProcessAnalog
    <2>2. d \notin Things
      BY <1>3 DEF GetGamepadAnalog, Things, Names, Of, Canvas, Cursor
    <2>. HIDE DEF d
    <2>3. QED
      BY <1>2, <2>1, <2>2, NothingProcessed
  <1>4. CASE e.code \in AxisIndices
    <2>1. d \in Names
      BY <1>4 DEF GetGamepadAnalog, Names, Of
    <2>2. CASE e.value
      <3>1. Sets(d, TRUE) /\ SaysDown(e)
        BY <1>1, <1>4, <2>2 DEF ProcessAnalog, Down, Sets, SaysDown
      <3>. HIDE DEF d
      <3>2. QED
        BY <1>2, <2>1, <3>1, NameProcessed
    <2>3. CASE ~e.value
      <3>1. Sets(d, FALSE) /\ ~SaysDown(e)
        BY <1>1, <1>4, <2>3 DEF ProcessAnalog, Up, Sets, SaysDown
      <3>. HIDE DEF d
      <3>2. QED
        BY <1>2, <2>1, <3>1, NameProcessed
    <2>4. QED
      BY <2>2, <2>3
  <1>5. QED
    BY <1>3, <1>4

LEMMA TouchProcessed ==
    ASSUME DeviceTypeOK, browser' = browser, NEW e \in TouchEvents, ProcessTouch(e)
    PROVE  ProcessedAll(e)
  <1>. DEFINE d == GetTouch(e)
  <1>1. d \in Touching /\ d \notin Things
    BY DEF TouchEvents, GetTouch, Touching, Of, Things, Names, Canvas, Cursor
  <1>2. Sets(d, TRUE) \/ Sets(d, FALSE)
    BY DEF ProcessTouch, Down, Up, Sets
  <1>. HIDE DEF d
  <1>3. \A a : ~Concerns(e, a)
    BY TouchesConcernNothing
  <1>4. QED
    BY <1>1, <1>2, <1>3, Moved DEF ProcessedAll, Processed

LEMMA CanvasProcessed ==
    ASSUME DeviceTypeOK, browser' = browser, NEW e, ProcessCanvas(e)
    PROVE  ProcessedAll(e)
  <1>1. \A a : Concerns(e, a) <=> a = Canvas
    BY DEF Concerns, ProcessCanvas
  <1>2. PICK bEntered \in BOOLEAN :
           /\ application' = [application EXCEPT !.overridden = bEntered]
           /\ e.event = "MOUSE_ENTER" <=> bEntered
    BY DEF ProcessCanvas
  <1>3. /\ application' \in [down : SUBSET (Names \cup Touching), overridden : BOOLEAN,
                             cursor : Pixels]
        /\ application'.down = application.down /\ application'.cursor = application.cursor
        /\ application'.overridden = bEntered
    BY <1>2 DEF DeviceTypeOK
  <1>4. \A a \in Things \ {Canvas} : AgreesNow(a) => AgreesNow(a)'
    BY <1>3, SameBrowser DEF AgreesNow
  <1>5. Agrees(e, Canvas) => AgreesNow(Canvas)'
    <2>1. browser.inside \in BOOLEAN
      BY DEF DeviceTypeOK
    <2>2. Agrees(e, Canvas) => (bEntered <=> browser.inside)
      BY <1>2 DEF Agrees
    <2>3. (bEntered <=> browser.inside) => application'.overridden = browser'.inside
      BY <1>3, <2>1
    <2>4. QED
      BY <2>2, <2>3, ThingsDiffer DEF AgreesNow
  <1>6. QED
    BY <1>1, <1>3, <1>4, <1>5 DEF ProcessedAll, Processed

LEMMA MoveProcessed ==
    ASSUME DeviceTypeOK, browser' = browser, NEW e \in MouseEvents, ProcessMove(e)
    PROVE  ProcessedAll(e)
  <1>. DEFINE cursor == IF e.pos = LastPixel THEN application.cursor ELSE e.pos
  <1>1. \A a : Concerns(e, a) <=> a = Cursor
    BY DEF Concerns, ProcessMove
  <1>2. application' = [application EXCEPT !.cursor = cursor] /\ cursor \in Pixels
    BY DEF ProcessMove, DeviceTypeOK, MouseEvents
  <1>3. cursor = e.pos \/ e.pos = LastPixel
    OBVIOUS
  <1>. HIDE DEF cursor
  <1>4. /\ application' \in [down : SUBSET (Names \cup Touching), overridden : BOOLEAN,
                             cursor : Pixels]
        /\ application'.down = application.down /\ application'.cursor = cursor
        /\ application'.overridden = application.overridden
    BY <1>2 DEF DeviceTypeOK
  <1>5. \A a \in Things \ {Cursor} : AgreesNow(a) => AgreesNow(a)'
    BY <1>4, SameBrowser DEF AgreesNow
  <1>6. Agrees(e, Cursor) => AgreesNow(Cursor)'
    BY <1>3, <1>4, SameBrowser, ThingsDiffer DEF Agrees, AgreesNow
  <1>7. QED
    BY <1>1, <1>4, <1>5, <1>6 DEF ProcessedAll, Processed

LEMMA ClickProcessed ==
    ASSUME DeviceTypeOK, browser' = browser, NEW e \in MouseEvents, ProcessClick(e),
           ~browser.odd => e.code \in 0 .. 4
    PROVE  ProcessedAll(e)
  <1>1. e.event \in {"MOUSE_DOWN", "MOUSE_UP"}
    BY DEF ProcessClick
  <1>2. PICK button \in GetMouseClick(e.code) :
           application' = [application EXCEPT !.cursor = e.pos,
                             !.down = IF e.event = "MOUSE_DOWN" THEN @ \cup {<<"mouse", button>>}
                                      ELSE @ \ {<<"mouse", button>>}]
    BY DEF ProcessClick
  <1>. DEFINE d == <<"mouse", button>>
              down == IF e.event = "MOUSE_DOWN" THEN application.down \cup {d}
                      ELSE application.down \ {d}
              asked == <<"mouse", e.code>>
  <1>3. button \in 0 .. 5 /\ (~browser.odd => d = asked)
    BY DEF GetMouseClick
  <1>4. d \in Names /\ d[1] = "mouse" /\ asked[1] = "mouse"
    BY <1>3 DEF Names, Of
  <1>5. \A a : Concerns(e, a) <=> a \in {asked, Cursor}
    BY <1>1 DEF Concerns
  <1>6. application' = [application EXCEPT !.cursor = e.pos, !.down = down] /\ e.pos \in Pixels
    BY <1>2 DEF MouseEvents
  <1>7. /\ down \in SUBSET (Names \cup Touching)
        /\ \A a : a # d => (a \in down <=> a \in application.down)
        /\ d \in down <=> SaysDown(e)
    BY <1>1, <1>4 DEF DeviceTypeOK, SaysDown
  <1>. HIDE DEF d, down, asked
  <1>8. /\ application' \in [down : SUBSET (Names \cup Touching), overridden : BOOLEAN,
                             cursor : Pixels]
        /\ application'.down = down /\ application'.cursor = e.pos
        /\ application'.overridden = application.overridden
    BY <1>6, <1>7 DEF DeviceTypeOK
  <1>9. Agrees(e, Cursor) => AgreesNow(Cursor)'
    BY <1>8, SameBrowser, ThingsDiffer DEF Agrees, AgreesNow
  <1>10. AgreesNow(Canvas) => AgreesNow(Canvas)'
    BY <1>8, ThingsDiffer DEF AgreesNow
  <1>11. ASSUME NEW a \in Names
         PROVE  Processed(e, a)
    <2>1. CASE browser.odd /\ a[1] = "mouse"
      <3>1. MayBeDown(a) /\ MayBeUp(a)
        BY <2>1, OddMouse
      <3>2. QED
        BY <3>1, SameBrowser, ThingsDiffer DEF AgreesNow, Processed
    <2>2. CASE a = d /\ ~browser.odd
      <3>1. Agrees(e, a) => IF a \in down THEN MayBeDown(a) ELSE MayBeUp(a)
        BY <1>7, <2>2 DEF Agrees
      <3>2. Concerns(e, a)
        BY <1>3, <1>5, <2>2
      <3>3. QED
        BY <1>8, <3>1, <3>2, SameBrowser, ThingsDiffer DEF AgreesNow, Processed
    <2>3. CASE a # d /\ (a[1] # "mouse" \/ ~browser.odd)
      <3>1. ~Concerns(e, a)
        BY <1>3, <1>4, <1>5, <2>3, ThingsDiffer
      <3>2. a \in down <=> a \in application.down
        BY <1>7, <2>3
      <3>3. QED
        BY <1>8, <3>1, <3>2, SameBrowser, ThingsDiffer DEF AgreesNow, Processed
    <2>4. QED
      BY <1>4, <2>1, <2>2, <2>3
  <1>12. Processed(e, Cursor) /\ Processed(e, Canvas)
    <2>1. Concerns(e, Cursor)
      BY <1>5
    <2>2. ~Concerns(e, Canvas)
      BY <1>4, <1>5, ThingsDiffer DEF Canvas
    <2>3. QED
      BY <1>9, <1>10, <2>1, <2>2 DEF Processed
  <1>13. QED
    BY <1>8, <1>11, <1>12 DEF ProcessedAll, Things

LEMMA MomentaryProcessed ==
    ASSUME DeviceTypeOK, browser' = browser, NEW e, ProcessMomentary(e)
    PROVE  ProcessedAll(e)
  <1>1. \A a : ~Concerns(e, a)
    BY DEF Concerns, ProcessMomentary
  <1>2. QED
    BY <1>1, NothingProcessed DEF ProcessMomentary

LEMMA EventProcessed ==
    ASSUME DeviceTypeOK, browser' = browser, NEW e \in FEvents,
           IsClick(e) /\ ~browser.odd => e.code \in 0 .. 4,
           \/ ProcessKey(e) \/ ProcessCanvas(e) \/ ProcessMove(e) \/ ProcessClick(e)
           \/ ProcessTouch(e) \/ ProcessGamepad(e) \/ ProcessAnalog(e) \/ ProcessMomentary(e)
    PROVE  ProcessedAll(e)
  <1>1. /\ e.event \in {"KEY_DOWN", "KEY_UP"} => e \in KeyEvents
        /\ e.event \in {"MOUSE_DOWN", "MOUSE_UP", "MOUSE_MOVE"} => e \in MouseEvents
        /\ e.event \in {"TOUCH_START", "TOUCH_END"} => e \in TouchEvents
        /\ e.event \in {"GAMEPAD_PRESS", "GAMEPAD_RELEASE", "GAMEPAD_ANALOG"} => e \in PadEvents
    BY DEF FEvents, KeyEvents, MouseEvents, PadEvents, TouchEvents, PlainEvents
  <1>2. CASE ProcessKey(e)
    BY <1>1, <1>2, KeyProcessed DEF ProcessKey
  <1>3. CASE ProcessCanvas(e)
    BY <1>3, CanvasProcessed
  <1>4. CASE ProcessMove(e)
    BY <1>1, <1>4, MoveProcessed DEF ProcessMove
  <1>5. CASE ProcessClick(e)
    <2>1. e.event \in {"MOUSE_DOWN", "MOUSE_UP"}
      BY <1>5 DEF ProcessClick
    <2>2. QED
      BY <1>1, <1>5, <2>1, ClickProcessed DEF IsClick
  <1>6. CASE ProcessTouch(e)
    BY <1>1, <1>6, TouchProcessed DEF ProcessTouch
  <1>7. CASE ProcessGamepad(e)
    BY <1>1, <1>7, PadProcessed DEF ProcessGamepad
  <1>8. CASE ProcessAnalog(e)
    BY <1>1, <1>8, AnalogProcessed DEF ProcessAnalog
  <1>9. CASE ProcessMomentary(e)
    BY <1>9, MomentaryProcessed
  <1>10. QED
    BY <1>2, <1>3, <1>4, <1>5, <1>6, <1>7, <1>8, <1>9

\* The newest word stays the newest, or has become what the application knows.
LEMMA ProcessedKeepsPromise ==
    ASSUME DeviceTypeOK, browser' = browser, messages' = messages, Events # <<>>,
           Events' = Tail(Events), NEW a \in Things, Promised(a), Processed(Events[1], a)
    PROVE  Promised(a)'
  <1>1. Events \in Seq(FEvents)
    BY DEF DeviceTypeOK
  <1>2. MessagesAbout(a)' = MessagesAbout(a)
    BY DEF MessagesAbout
  <1>3. \A e : Agrees(e, a)' <=> Agrees(e, a)
    BY SameBrowser
  <1>4. \A i \in EventsAbout(a) : i \in Nat /\ (i = 1 \/ i - 1 \in EventsAbout(a)')
    BY <1>1, Shifted DEF EventsAbout
  <1>5. \A i \in EventsAbout(a)' :
           i + 1 \in EventsAbout(a) /\ Events'[i] = Events[i + 1] /\ i \in Nat /\ i >= 1
    BY <1>1, Shifted DEF EventsAbout
  <1>6. 1 \in EventsAbout(a) <=> Concerns(Events[1], a)
    BY <1>1 DEF EventsAbout
  <1>7. CASE MessagesAbout(a) # {}
    BY <1>2, <1>3, <1>7 DEF Promised, Newest
  <1>8. CASE MessagesAbout(a) = {}
    <2>1. ASSUME NEW i \in EventsAbout(a)', Newest(EventsAbout(a), i)'
          PROVE  Agrees(Events'[i], a)
      <3>1. \A j \in EventsAbout(a)' : j <= i
        BY <2>1 DEF Newest
      <3>2. \A j \in EventsAbout(a) : j <= i + 1
        BY <1>4, <1>5, <2>1, <3>1
      <3>3. Newest(EventsAbout(a), i + 1)
        BY <1>5, <2>1, <3>2 DEF Newest
      <3>4. Agrees(Events[i + 1], a)
        BY <1>5, <1>8, <2>1, <3>3 DEF Promised
      <3>5. QED
        BY <1>5, <2>1, <3>4
    <2>2. ASSUME EventsAbout(a)' = {}
          PROVE  AgreesNow(a)'
      <3>1. CASE Concerns(Events[1], a)
        <4>1. EventsAbout(a) = {1}
          BY <1>4, <1>6, <2>2, <3>1
        <4>2. Agrees(Events[1], a)
          BY <1>8, <4>1 DEF Promised, Newest
        <4>3. QED
          BY <3>1, <4>2 DEF Processed
      <3>2. CASE ~Concerns(Events[1], a)
        <4>1. EventsAbout(a) = {}
          BY <1>4, <1>6, <2>2, <3>2
        <4>2. QED
          BY <1>8, <3>2, <4>1 DEF Promised, Processed
      <3>3. QED
        BY <3>1, <3>2
    <2>3. QED
      BY <1>2, <1>3, <1>8, <2>1, <2>2 DEF Promised
  <1>9. QED
    BY <1>7, <1>8

LEMMA DequeueEventStep ==
    ASSUME DeviceInv, DequeueEvent
    PROVE  DeviceInv'
  <1>. DEFINE e == Events[1]
  <1>1. /\ Events \in Seq(FEvents) /\ Events # <<>> /\ Events' = Tail(Events)
        /\ messages' = messages /\ browser' = browser /\ DeviceTypeOK
    BY DEF DeviceInv, DeviceTypeOK, DequeueEvent
  <1>2. 1 \in DOMAIN Events /\ e \in FEvents /\ e = Head(Events)
    BY <1>1
  <1>3. IsClick(e) /\ ~browser.odd => e.code \in 0 .. 4
    BY <1>2 DEF DeviceInv, ClicksNamed
  <1>4. \/ ProcessKey(e) \/ ProcessCanvas(e) \/ ProcessMove(e) \/ ProcessClick(e)
        \/ ProcessTouch(e) \/ ProcessGamepad(e) \/ ProcessAnalog(e) \/ ProcessMomentary(e)
    BY <1>2 DEF DequeueEvent
  <1>. HIDE DEF e
  <1>5. ProcessedAll(e)
    BY <1>1, <1>2, <1>3, <1>4, EventProcessed
  <1>6. DeviceTypeOK'
    BY <1>1, <1>5, Shifted DEF DeviceTypeOK, ProcessedAll
  <1>7. ClicksNamed'
    <2>. DEFINE Named(event) == event.code \in 0 .. 4
    <2>1. ~browser.odd => \A i \in DOMAIN Events : IsClick(Events[i]) => Named(Events[i])
      BY DEF DeviceInv, ClicksNamed
    <2>. HIDE DEF Named
    <2>2. ~browser.odd => \A i \in DOMAIN Events' : IsClick(Events'[i]) => Named(Events'[i])
      BY <1>1, <2>1, Shifted
    <2>3. QED
      BY <1>1, <2>2 DEF DeviceInv, ClicksNamed, Named
  <1>8. ~browser'.left => \A a \in Things : Promised(a)'
    BY <1>1, <1>5, ProcessedKeepsPromise DEF DeviceInv, ProcessedAll, e
  <1>9. QED
    BY <1>6, <1>7, <1>8 DEF DeviceInv

-----------------------------------------------------------------------------
(* The browser: a new word, and what it agrees with. *)

\* What is agreed about a thing that a message does not ask for still is.
Kept(a) ==
    /\ a = Cursor => There' = There
    /\ a = Canvas => browser'.inside = browser.inside
    /\ a \in Names => (MayBeDown(a) => MayBeDown(a)') /\ (MayBeUp(a) => MayBeUp(a)')

\* A message is sent that is true of the browser, and the browser changes in
\* nothing else.
Truthful(m) ==
    /\ browser' \in [held : SUBSET Controls, inside : BOOLEAN, left : BOOLEAN,
                     mouse : Positions \cup {Nowhere}, odd : BOOLEAN]
    /\ browser'.left = browser.left
    /\ browser.odd => browser'.odd
    /\ HasEvent(m) /\ IsClick(EventIn(m)) /\ ~browser'.odd => EventIn(m).code \in 0 .. 4
    /\ \A a \in Things : IF Asks(m, a) THEN Agrees(EventIn(m), a)' ELSE Kept(a)

LEMMA SentKeepsPromise ==
    ASSUME DeviceTypeOK, NEW m \in Message, messages' = Append(messages, m), Events' = Events,
           application' = application, NEW a \in Things, Promised(a),
           IF Asks(m, a) THEN Agrees(EventIn(m), a)' ELSE Kept(a)
    PROVE  Promised(a)'
  <1>. DEFINE n == Len(messages) + 1
  <1>1. /\ n \in DOMAIN messages' /\ messages'[n] = m
        /\ \A i \in DOMAIN messages : i \in DOMAIN messages' /\ messages'[i] = messages[i]
        /\ \A i \in DOMAIN messages' : i = n \/ i \in DOMAIN messages
        /\ \A i \in DOMAIN messages' : i <= n /\ i \in Nat
        /\ n \in Nat
    BY DEF DeviceTypeOK
  <1>. HIDE DEF n
  <1>2. EventsAbout(a)' = EventsAbout(a)
    BY DEF EventsAbout
  <1>3. CASE Asks(m, a)
    <2>1. n \in MessagesAbout(a)'
      BY <1>1, <1>3 DEF MessagesAbout
    <2>2. ASSUME NEW i \in MessagesAbout(a)', Newest(MessagesAbout(a), i)'
          PROVE  messages'[i] = m
      <3>1. n <= i /\ i <= n /\ i \in Nat /\ n \in Nat
        BY <1>1, <2>1, <2>2 DEF Newest, MessagesAbout
      <3>2. i = n
        BY <3>1
      <3>3. QED
        BY <1>1, <3>2
    <2>3. QED
      BY <1>3, <2>1, <2>2 DEF Promised
  <1>4. CASE ~Asks(m, a)
    <2>1. \A i : i \in MessagesAbout(a)' <=> i \in MessagesAbout(a)
      BY <1>1, <1>4 DEF MessagesAbout
    <2>2. \A i \in MessagesAbout(a) : messages'[i] = messages[i]
      BY <1>1 DEF MessagesAbout
    <2>3. \A e : Agrees(e, a) => Agrees(e, a)'
      BY <1>4 DEF Kept, Agrees
    <2>4. AgreesNow(a) => AgreesNow(a)'
      BY <1>4 DEF Kept, AgreesNow
    <2>5. QED
      BY <1>2, <2>1, <2>2, <2>3, <2>4 DEF Promised, Newest
  <1>5. QED
    BY <1>3, <1>4

LEMMA SentStep ==
    ASSUME DeviceInv, NEW m \in Message, messages' = Append(messages, m), Events' = Events,
           application' = application, Truthful(m)
    PROVE  DeviceInv'
  <1>1. DeviceTypeOK'
    BY DEF DeviceInv, DeviceTypeOK, Truthful
  <1>2. ClicksNamed'
    <2>. DEFINE Named(event) == event.code \in 0 .. 4
    <2>1. messages \in Seq(Message)
      BY DEF DeviceInv, DeviceTypeOK
    <2>2. ~browser'.odd => ~browser.odd
      BY DEF Truthful
    <2>3. ~browser'.odd =>
             /\ \A i \in DOMAIN messages :
                   HasEvent(messages[i]) /\ IsClick(EventIn(messages[i])) =>
                       Named(EventIn(messages[i]))
             /\ \A i \in DOMAIN Events : IsClick(Events[i]) => Named(Events[i])
             /\ HasEvent(m) /\ IsClick(EventIn(m)) => Named(EventIn(m))
      BY <2>2 DEF DeviceInv, ClicksNamed, Truthful
    <2>. HIDE DEF Named
    <2>4. \A i \in DOMAIN messages' :
             messages'[i] = m \/ (i \in DOMAIN messages /\ messages'[i] = messages[i])
      BY <2>1
    <2>5. ~browser'.odd => \A i \in DOMAIN messages' :
             HasEvent(messages'[i]) /\ IsClick(EventIn(messages'[i])) =>
                 Named(EventIn(messages'[i]))
      BY <2>3, <2>4
    <2>6. QED
      BY <2>3, <2>5 DEF ClicksNamed, Named
  <1>3. ~browser'.left => \A a \in Things : Promised(a)'
    BY SentKeepsPromise DEF DeviceInv, Truthful
  <1>4. QED
    BY <1>1, <1>2, <1>3 DEF DeviceInv

\* What is pressed or let go touches what is known of its name, and of no other.
LEMMA HeldChanges ==
    ASSUME DeviceTypeOK, NEW c \in Controls,
           browser'.held \in {browser.held \cup {c}, browser.held \ {c}},
           browser.odd => browser'.odd
    PROVE  \A a \in Names \ {NameOf(c)} :
              (MayBeDown(a) => MayBeDown(a)') /\ (MayBeUp(a) => MayBeUp(a)')
  <1>. TAKE a \in Names \ {NameOf(c)}
  <1>1. \A k : NameOf(k) = a => (k \in browser'.held <=> k \in browser.held)
    OBVIOUS
  <1>2. MayBeDown(a) => MayBeDown(a)'
    BY <1>1 DEF MayBeDown
  <1>3. MayBeUp(a) => MayBeUp(a)'
    BY <1>1 DEF MayBeUp
  <1>4. QED
    BY <1>2, <1>3

LEMMA PressedIsDown ==
    ASSUME NEW c \in Keys \cup Buttons \cup Pads \cup Axes, c \in browser'.held,
           NameOf(c) \in Names, c \in Buttons => c[2] \in 0 .. 4 \/ browser'.odd
    PROVE  MayBeDown(NameOf(c))'
  <1>1. CASE HasName(c)
    BY <1>1 DEF MayBeDown
  <1>2. CASE ~HasName(c)
    <2>1. CASE c \in Keys
      BY <1>2, <2>1, NamesOfControls DEF HasName, MayBeDown
    <2>2. CASE c \in Buttons
      BY <1>2, <2>2, NamesOfControls, DevicesDiffer DEF HasName, MayBeDown
    <2>3. CASE c \in Pads
      BY <1>2, <2>3, NamesOfControls, DevicesDiffer DEF HasName, Names, Of
    <2>4. CASE c \in Axes
      BY <1>2, <2>4, NamesOfControls, DevicesDiffer DEF HasName, Names, Of
    <2>5. QED
      BY <2>1, <2>2, <2>3, <2>4
  <1>3. QED
    BY <1>1, <1>2

\* Another key of the same name may still be held.
LEMMA ReleasedIsUp ==
    ASSUME NEW c \in Keys \cup Buttons \cup Pads \cup Axes, c \notin browser'.held,
           browser'.held \subseteq Controls
    PROVE  MayBeUp(NameOf(c))'
  <1>1. ASSUME NEW k \in browser'.held, NameOf(k) = NameOf(c)
        PROVE  \E other \in Keys \ {k} : NameOf(other) = NameOf(k)
    <2>1. k \in Keys \cup Buttons \cup Pads \cup Axes \cup Touching /\ k # c
      BY <1>1 DEF Controls
    <2>2. k \in Keys /\ c \in Keys
      <3>1. k \notin Keys => NameOf(k) = k
        BY <2>1, NamesOfControls
      <3>2. c \notin Keys => NameOf(c) = c
        BY NamesOfControls
      <3>3. k \in Keys => NameOf(k)[1] = "key"
        BY NamesOfControls
      <3>4. c \in Keys => NameOf(c)[1] = "key"
        BY NamesOfControls
      <3>5. k \notin Keys => k[1] # "key"
        BY <2>1, DevicesDiffer
      <3>6. c \notin Keys => c[1] # "key"
        BY DevicesDiffer
      <3>7. QED
        BY <1>1, <2>1, <3>1, <3>2, <3>3, <3>4, <3>5, <3>6
    <2>3. QED
      BY <1>1, <2>1, <2>2
  <1>2. QED
    BY <1>1 DEF MayBeUp

LEMMA FingersChange ==
    ASSUME NEW fingers \in SUBSET Touching, browser'.odd = browser.odd,
           browser'.held \in {browser.held, browser.held \cup fingers, browser.held \ fingers}
    PROVE  \A a \in Names : (MayBeDown(a) => MayBeDown(a)') /\ (MayBeUp(a) => MayBeUp(a)')
  <1>. TAKE a \in Names
  <1>1. \A k \in fingers : NameOf(k) # a
    BY NamesOfControls, DevicesDiffer DEF Names, Of
  <1>2. \A k : NameOf(k) = a => (k \in browser'.held <=> k \in browser.held)
    BY <1>1
  <1>3. MayBeDown(a) => MayBeDown(a)'
    BY <1>2 DEF MayBeDown
  <1>4. MayBeUp(a) => MayBeUp(a)'
    BY <1>2 DEF MayBeUp
  <1>5. QED
    BY <1>3, <1>4

-----------------------------------------------------------------------------
(* The actions of the browser. *)

TheMessage(type, controls, valid, pos) ==
    [type |-> type, controls |-> controls, valid |-> valid, pos |-> pos]

MessageTypes ==
    KeyTypes \cup MouseTypes \cup PadTypes \cup {"GamepadAnalog"} \cup TouchTypes \cup PlainTypes
        \cup Strings

LEMMA SendStep ==
    ASSUME DeviceInv, NEW type \in MessageTypes, NEW controls \in SUBSET Controls,
           NEW valid \in SUBSET Controls, NEW pos \in Positions \cup {Nowhere},
           Send(type, controls, valid, pos),
           Fits(TheMessage(type, controls, valid, pos)),
           Truthful(TheMessage(type, controls, valid, pos))
    PROVE  DeviceInv'
  <1>. DEFINE m == TheMessage(type, controls, valid, pos)
  <1>1. m \in [type : MessageTypes, controls : SUBSET Controls, valid : SUBSET Controls,
               pos : Positions \cup {Nowhere}]
    BY DEF TheMessage
  <1>2. m \in Message
    BY <1>1 DEF Message, MessageTypes
  <1>3. messages' = Append(messages, m) /\ Events' = Events /\ application' = application
    BY DEF Send, TheMessage, queues
  <1>. HIDE DEF m
  <1>4. QED
    BY <1>2, <1>3, SentStep DEF m

\* A key is pressed, goes on being held, or is released.
LEMMA KeyTruthful ==
    ASSUME DeviceTypeOK, NEW c \in Keys, NEW type \in KeyTypes, NEW valid \in SUBSET Controls,
           \/ type = "KeyDown" /\ browser' = [browser EXCEPT !.held = @ \cup {c}]
           \/ type = "KeyUp" /\ browser' = [browser EXCEPT !.held = @ \ {c}]
    PROVE  /\ Fits(TheMessage(type, {c}, valid, Nowhere))
           /\ Truthful(TheMessage(type, {c}, valid, Nowhere))
  <1>. DEFINE m == TheMessage(type, {c}, valid, Nowhere)
  <1>1. m.type = type /\ m.controls = {c}
    BY DEF TheMessage
  <1>2. Fits(m)
    BY <1>1 DEF Fits, KeyTypes, ClickTypes, MouseTypes, PadTypes, TouchTypes
  <1>3. m \in Message
    <2>1. c \in Controls
      BY DEF Controls
    <2>2. m \in [type : KeyTypes, controls : SUBSET Controls, valid : SUBSET Controls,
                 pos : {Nowhere}]
      BY <2>1 DEF TheMessage
    <2>3. QED
      BY <1>2, <2>2 DEF Message
  <1>. HIDE DEF m
  <1>4. /\ EventIn(m).event = IF type = "KeyDown" THEN "KEY_DOWN" ELSE "KEY_UP"
        /\ GetKey(EventIn(m)) = NameOf(c)
    BY <1>1, <1>3, KeyIn
  <1>5. HasEvent(m)
    BY <1>1 DEF HasEvent, KeyTypes, Strings, TouchTypes
  <1>6. \A a : Asks(m, a) <=> a = NameOf(c)
    BY <1>4, <1>5 DEF Asks, Concerns
  <1>7. /\ browser' \in [held : SUBSET Controls, inside : BOOLEAN, left : BOOLEAN,
                         mouse : Positions \cup {Nowhere}, odd : BOOLEAN]
        /\ browser'.inside = browser.inside /\ browser'.left = browser.left
        /\ browser'.mouse = browser.mouse /\ browser'.odd = browser.odd
        /\ browser'.held = IF type = "KeyDown" THEN browser.held \cup {c}
                           ELSE browser.held \ {c}
    <2>. DEFINE held == IF type = "KeyDown" THEN browser.held \cup {c} ELSE browser.held \ {c}
    <2>1. browser' = [browser EXCEPT !.held = held]
      OBVIOUS
    <2>2. held \in SUBSET Controls
      BY DEF DeviceTypeOK, Controls
    <2>. HIDE DEF held
    <2>3. QED
      BY <2>1, <2>2 DEF DeviceTypeOK, held
  <1>8. NameOf(c) \in Names
    BY NamesOfControls DEF Names, Of
  <1>9. Agrees(EventIn(m), NameOf(c))'
    <2>1. CASE type = "KeyDown"
      <3>1. c \in browser'.held /\ c \notin Buttons
        BY <1>7, <2>1, DevicesDiffer
      <3>2. MayBeDown(NameOf(c))'
        BY <1>8, <3>1, PressedIsDown
      <3>3. SaysDown(EventIn(m))
        BY <1>4, <2>1 DEF SaysDown
      <3>4. QED
        BY <1>8, <3>2, <3>3, ThingsDiffer DEF Agrees
    <2>2. CASE type = "KeyUp"
      <3>1. c \notin browser'.held /\ browser'.held \subseteq Controls
        BY <1>7, <2>2
      <3>2. MayBeUp(NameOf(c))'
        BY <3>1, ReleasedIsUp
      <3>3. ~SaysDown(EventIn(m))
        BY <1>4, <2>2 DEF SaysDown
      <3>4. QED
        BY <1>8, <3>2, <3>3, ThingsDiffer DEF Agrees
    <2>3. QED
      BY <2>1, <2>2 DEF KeyTypes
  <1>10. \A a \in Things : a # NameOf(c) => Kept(a)
    <2>1. c \in Controls
      BY DEF Controls
    <2>2. \A a \in Names \ {NameOf(c)} :
             (MayBeDown(a) => MayBeDown(a)') /\ (MayBeUp(a) => MayBeUp(a)')
      BY <1>7, <2>1, HeldChanges
    <2>3. QED
      BY <1>7, <2>2 DEF Kept, There
  <1>11. ~IsClick(EventIn(m))
    BY <1>4 DEF IsClick
  <1>12. Truthful(m)
    BY <1>6, <1>7, <1>9, <1>10, <1>11 DEF Truthful
  <1>13. QED
    BY <1>2, <1>12 DEF m

\* A button of the gamepad is pressed or released, an axis moved or let go.
LEMMA PadTruthful ==
    ASSUME DeviceTypeOK, NEW c, NEW type, NEW valid \in {{}, {c}},
           \/ c \in Pads /\ type = IF valid = {} THEN "GamepadButtonReleased"
                                   ELSE "GamepadButtonPressed"
           \/ c \in Axes /\ type = "GamepadAnalog",
           browser' = [browser EXCEPT !.held = IF valid = {} THEN @ \ {c} ELSE @ \cup {c}]
    PROVE  /\ Fits(TheMessage(type, {c}, valid, Nowhere))
           /\ Truthful(TheMessage(type, {c}, valid, Nowhere))
  <1>. DEFINE m == TheMessage(type, {c}, valid, Nowhere)
  <1>1. m.type = type /\ m.controls = {c} /\ m.valid = valid
    BY DEF TheMessage
  <1>2. Fits(m)
    BY <1>1 DEF Fits, KeyTypes, ClickTypes, MouseTypes, PadTypes, TouchTypes
  <1>3. c \in Controls /\ c \in Pads \cup Axes /\ NameOf(c) = c
    BY NamesOfControls DEF Controls
  <1>4. type \in PadTypes \cup {"GamepadAnalog"}
    BY DEF PadTypes
  <1>5. m \in Message
    <2>1. m \in [type : PadTypes \cup {"GamepadAnalog"}, controls : SUBSET Controls,
                 valid : SUBSET Controls, pos : {Nowhere}]
      BY <1>3, <1>4 DEF TheMessage
    <2>2. QED
      BY <1>2, <2>1 DEF Message
  <1>. HIDE DEF m
  <1>6. /\ EventIn(m).event = EventOf[type] /\ EventIn(m).code = c[2]
        /\ EventIn(m).value <=> valid # {}
    BY <1>1, <1>3, <1>4, <1>5, PadIn
  <1>7. HasEvent(m)
    BY <1>1, <1>4 DEF HasEvent, PadTypes, Strings, TouchTypes
  <1>8. /\ type = "GamepadButtonPressed" => EventIn(m).event = "GAMEPAD_PRESS"
        /\ type = "GamepadButtonReleased" => EventIn(m).event = "GAMEPAD_RELEASE"
        /\ type = "GamepadAnalog" => EventIn(m).event = "GAMEPAD_ANALOG"
    BY <1>6 DEF EventOf
  <1>9. /\ c \in Pads => c = <<"pad", c[2]>>
        /\ c \in Axes => c = <<"axis", c[2]>>
    BY DEF Pads, Axes, Of
  <1>10. \A a : Asks(m, a) <=> a = c
    <2>1. CASE c \in Pads
      BY <1>6, <1>7, <1>8, <1>9, <2>1, DevicesDiffer DEF Asks, Concerns, GetGamepadButton
    <2>2. CASE c \in Axes
      BY <1>6, <1>7, <1>8, <1>9, <2>2, DevicesDiffer DEF Asks, Concerns, GetGamepadAnalog
    <2>3. QED
      BY <1>3, <2>1, <2>2
  <1>11. SaysDown(EventIn(m)) <=> valid # {}
    <2>1. CASE c \in Pads
      BY <1>8, <2>1, DevicesDiffer DEF SaysDown
    <2>2. CASE c \in Axes
      BY <1>6, <1>8, <2>2, DevicesDiffer DEF SaysDown
    <2>3. QED
      BY <1>3, <2>1, <2>2
  <1>12. /\ browser' \in [held : SUBSET Controls, inside : BOOLEAN, left : BOOLEAN,
                          mouse : Positions \cup {Nowhere}, odd : BOOLEAN]
         /\ browser'.inside = browser.inside /\ browser'.left = browser.left
         /\ browser'.mouse = browser.mouse /\ browser'.odd = browser.odd
         /\ browser'.held = IF valid = {} THEN browser.held \ {c} ELSE browser.held \cup {c}
    BY <1>3 DEF DeviceTypeOK
  <1>13. c \in Names => Agrees(EventIn(m), c)'
    <2>1. CASE valid # {}
      <3>1. c \in browser'.held /\ c \notin Buttons
        BY <1>3, <1>12, <2>1, DevicesDiffer
      <3>2. c \in Names => MayBeDown(c)'
        BY <1>3, <3>1, PressedIsDown
      <3>3. QED
        BY <1>11, <2>1, <3>2, ThingsDiffer DEF Agrees
    <2>2. CASE valid = {}
      <3>1. c \notin browser'.held /\ browser'.held \subseteq Controls
        BY <1>12, <2>2
      <3>2. MayBeUp(c)'
        BY <1>3, <3>1, ReleasedIsUp
      <3>3. QED
        BY <1>11, <2>2, <3>2, ThingsDiffer DEF Agrees
    <2>3. QED
      BY <2>1, <2>2
  <1>14. \A a \in Things : a # c => Kept(a)
    <2>1. \A a \in Names \ {c} :
             (MayBeDown(a) => MayBeDown(a)') /\ (MayBeUp(a) => MayBeUp(a)')
      BY <1>3, <1>12, HeldChanges
    <2>2. QED
      BY <1>12, <2>1 DEF Kept, There
  <1>15. ~IsClick(EventIn(m))
    BY <1>4, <1>8 DEF IsClick, PadTypes
  <1>16. c \in Things => c \in Names
    BY <1>3, DevicesDiffer DEF Things, Canvas, Cursor
  <1>17. Truthful(m)
    BY <1>10, <1>12, <1>13, <1>14, <1>15, <1>16 DEF Truthful
  <1>18. QED
    BY <1>2, <1>17 DEF m

\* A mouse button is pressed or released; of one without a name the
\* application may think what it likes.
LEMMA ClickTruthful ==
    ASSUME DeviceTypeOK, NEW c \in Buttons, NEW pos \in Positions, NEW type \in ClickTypes,
           type = (IF c \in browser.held THEN "MouseUp" ELSE "MouseDown"),
           browser' = [browser EXCEPT !.held = IF c \in @ THEN @ \ {c} ELSE @ \cup {c},
                                      !.mouse = pos, !.odd = @ \/ c[2] \notin 0 .. 4]
    PROVE  /\ Fits(TheMessage(type, {c}, {c}, pos))
           /\ Truthful(TheMessage(type, {c}, {c}, pos))
  <1>. DEFINE m == TheMessage(type, {c}, {c}, pos)
              held == IF c \in browser.held THEN browser.held \ {c} ELSE browser.held \cup {c}
  <1>1. m.type = type /\ m.controls = {c} /\ m.pos = pos
    BY DEF TheMessage
  <1>2. Fits(m)
    BY <1>1 DEF Fits, KeyTypes, ClickTypes, MouseTypes, PadTypes, TouchTypes
  <1>3. c \in Controls /\ NameOf(c) = c /\ c = <<"mouse", c[2]>>
    BY NamesOfControls DEF Controls, Buttons, Of
  <1>4. type \in MouseTypes
    BY DEF MouseTypes
  <1>5. m \in Message
    <2>1. m \in [type : MouseTypes, controls : SUBSET Controls, valid : SUBSET Controls,
                 pos : Positions]
      BY <1>3, <1>4 DEF TheMessage
    <2>2. QED
      BY <1>2, <2>1 DEF Message
  <1>. HIDE DEF m
  <1>6. /\ EventIn(m).event = EventOf[type] /\ EventIn(m).code = c[2]
        /\ EventIn(m).pos = UnquantizeAndDenormalize(pos)
    BY <1>1, <1>4, <1>5, MouseIn
  <1>7. HasEvent(m)
    BY <1>1 DEF HasEvent, ClickTypes, Strings, TouchTypes
  <1>8. EventIn(m).event = IF c \in browser.held THEN "MOUSE_UP" ELSE "MOUSE_DOWN"
    BY <1>6 DEF EventOf
  <1>9. \A a : Asks(m, a) <=> a \in {c, Cursor}
    BY <1>3, <1>6, <1>7, <1>8 DEF Asks, Concerns
  <1>10. PICK bOdd \in BOOLEAN : bOdd <=> (browser.odd \/ c[2] \notin 0 .. 4)
    OBVIOUS
  <1>11. browser' = [browser EXCEPT !.held = held, !.mouse = pos, !.odd = bOdd]
    <2>1. browser.odd \in BOOLEAN
      BY DEF DeviceTypeOK
    <2>2. bOdd = (browser.odd \/ c[2] \notin 0 .. 4)
      BY <1>10, <2>1
    <2>3. QED
      BY <2>2
  <1>12. held \in SUBSET Controls /\ (c \in held <=> c \notin browser.held)
    BY <1>3 DEF DeviceTypeOK
  <1>13. held \in {browser.held \cup {c}, browser.held \ {c}}
    OBVIOUS
  <1>. HIDE DEF held
  <1>14. /\ browser' \in [held : SUBSET Controls, inside : BOOLEAN, left : BOOLEAN,
                          mouse : Positions \cup {Nowhere}, odd : BOOLEAN]
         /\ browser'.inside = browser.inside /\ browser'.left = browser.left
         /\ browser'.mouse = pos /\ browser'.odd = bOdd /\ browser'.held = held
    BY <1>10, <1>11, <1>12 DEF DeviceTypeOK
  <1>15. (browser.odd => browser'.odd) /\ (c[2] \in 0 .. 4 \/ browser'.odd)
    BY <1>10, <1>14
  <1>16. c \in Names => Agrees(EventIn(m), c)'
    <2>1. CASE c \notin browser.held
      <3>1. c \in Names => MayBeDown(c)'
        BY <1>3, <1>12, <1>14, <1>15, <2>1, PressedIsDown
      <3>2. SaysDown(EventIn(m))
        BY <1>8, <2>1 DEF SaysDown
      <3>3. QED
        BY <3>1, <3>2, ThingsDiffer DEF Agrees
    <2>2. CASE c \in browser.held
      <3>1. MayBeUp(c)'
        BY <1>3, <1>12, <1>14, <2>2, ReleasedIsUp
      <3>2. ~SaysDown(EventIn(m))
        BY <1>8, <2>2 DEF SaysDown
      <3>3. QED
        BY <3>1, <3>2, ThingsDiffer DEF Agrees
    <2>3. QED
      BY <2>1, <2>2
  <1>17. Agrees(EventIn(m), Cursor)'
    BY <1>6, <1>14, ThingsDiffer DEF Agrees, There
  <1>18. \A a \in Things : a \notin {c, Cursor} => Kept(a)
    <2>1. \A a \in Names \ {c} :
             (MayBeDown(a) => MayBeDown(a)') /\ (MayBeUp(a) => MayBeUp(a)')
      BY <1>3, <1>13, <1>14, <1>15, HeldChanges
    <2>2. QED
      BY <1>14, <2>1 DEF Kept
  <1>19. c \in Things => c \in Names
    BY <1>3, DevicesDiffer DEF Things, Canvas, Cursor
  <1>20. ~browser'.odd => EventIn(m).code \in 0 .. 4
    BY <1>6, <1>15
  <1>21. \A a \in Things : IF Asks(m, a) THEN Agrees(EventIn(m), a)' ELSE Kept(a)
    BY <1>9, <1>16, <1>17, <1>18, <1>19
  <1>22. Truthful(m)
    BY <1>14, <1>15, <1>20, <1>21 DEF Truthful
  <1>23. QED
    BY <1>2, <1>22 DEF m

\* The mouse is somewhere else, or turns its wheel.
LEMMA MouseTruthful ==
    ASSUME DeviceTypeOK, NEW pos \in Positions,
           NEW type, \/ type = "MouseMove" /\ browser' = [browser EXCEPT !.mouse = pos]
                     \/ type = "MouseWheel" /\ browser' = browser
    PROVE  /\ Fits(TheMessage(type, {}, {}, pos))
           /\ Truthful(TheMessage(type, {}, {}, pos))
  <1>. DEFINE m == TheMessage(type, {}, {}, pos)
  <1>1. m.type = type /\ m.controls = {} /\ m.pos = pos /\ type \in MouseTypes
    BY DEF TheMessage, MouseTypes
  <1>2. Fits(m)
    BY <1>1 DEF Fits, KeyTypes, ClickTypes, MouseTypes, PadTypes, TouchTypes
  <1>3. m \in Message
    <2>1. m \in [type : MouseTypes, controls : SUBSET Controls, valid : SUBSET Controls,
                 pos : Positions]
      BY <1>1 DEF TheMessage
    <2>2. QED
      BY <1>2, <2>1 DEF Message
  <1>. HIDE DEF m
  <1>4. /\ EventIn(m).event = EventOf[type]
        /\ EventIn(m).pos = UnquantizeAndDenormalize(pos)
    BY <1>1, <1>3, MouseIn
  <1>5. HasEvent(m)
    BY <1>1 DEF HasEvent, Strings, TouchTypes
  <1>6. /\ type = "MouseMove" => EventIn(m).event = "MOUSE_MOVE"
        /\ type = "MouseWheel" => EventIn(m).event = "MOUSE_WHEEL"
    BY <1>4 DEF EventOf
  <1>7. \A a : Asks(m, a) <=> type = "MouseMove" /\ a = Cursor
    BY <1>5, <1>6 DEF Asks, Concerns
  <1>8. /\ browser' \in [held : SUBSET Controls, inside : BOOLEAN, left : BOOLEAN,
                         mouse : Positions \cup {Nowhere}, odd : BOOLEAN]
        /\ browser'.inside = browser.inside /\ browser'.left = browser.left
        /\ browser'.odd = browser.odd /\ browser'.held = browser.held
        /\ type = "MouseMove" => browser'.mouse = pos
        /\ type = "MouseWheel" => browser'.mouse = browser.mouse
    BY DEF DeviceTypeOK
  <1>9. \A a \in Names : (MayBeDown(a) => MayBeDown(a)') /\ (MayBeUp(a) => MayBeUp(a)')
    BY <1>8 DEF MayBeDown, MayBeUp
  <1>10. type = "MouseMove" => Agrees(EventIn(m), Cursor)'
    BY <1>4, <1>8, ThingsDiffer DEF Agrees, There
  <1>11. \A a \in Things : (type = "MouseMove" => a # Cursor) => Kept(a)
    BY <1>8, <1>9 DEF Kept, There
  <1>12. ~IsClick(EventIn(m))
    BY <1>6 DEF IsClick
  <1>13. Truthful(m)
    BY <1>7, <1>8, <1>10, <1>11, <1>12 DEF Truthful
  <1>14. QED
    BY <1>2, <1>13 DEF m

\* Fingers go down, move and go up.
LEMMA TouchTruthful ==
    ASSUME DeviceTypeOK, NEW type \in TouchTypes, NEW fingers \in SUBSET Touching,
           NEW valid \in SUBSET Controls,
           \E held \in {browser.held, browser.held \cup fingers, browser.held \ fingers} :
              browser' = [browser EXCEPT !.held = held]
    PROVE  /\ Fits(TheMessage(type, fingers, valid, Nowhere))
           /\ Truthful(TheMessage(type, fingers, valid, Nowhere))
  <1>. DEFINE m == TheMessage(type, fingers, valid, Nowhere)
  <1>1. m.type = type /\ m.controls = fingers
    BY DEF TheMessage
  <1>2. Fits(m)
    BY <1>1 DEF Fits, KeyTypes, ClickTypes, MouseTypes, PadTypes, TouchTypes
  <1>3. ~HasEvent(m)
    BY <1>1 DEF HasEvent
  <1>. HIDE DEF m
  <1>4. PICK held \in {browser.held, browser.held \cup fingers, browser.held \ fingers} :
           browser' = [browser EXCEPT !.held = held]
    OBVIOUS
  <1>5. held \in SUBSET Controls
    BY DEF DeviceTypeOK, Controls
  <1>6. /\ browser' \in [held : SUBSET Controls, inside : BOOLEAN, left : BOOLEAN,
                         mouse : Positions \cup {Nowhere}, odd : BOOLEAN]
        /\ browser'.inside = browser.inside /\ browser'.left = browser.left
        /\ browser'.mouse = browser.mouse /\ browser'.odd = browser.odd
        /\ browser'.held = held
    BY <1>4, <1>5 DEF DeviceTypeOK
  <1>7. \A a \in Names : (MayBeDown(a) => MayBeDown(a)') /\ (MayBeUp(a) => MayBeUp(a)')
    BY <1>6, FingersChange
  <1>8. \A a \in Things : Kept(a) /\ ~Asks(m, a)
    BY <1>3, <1>6, <1>7 DEF Kept, There, Asks
  <1>9. Truthful(m)
    BY <1>3, <1>6, <1>8 DEF Truthful
  <1>10. QED
    BY <1>2, <1>9 DEF m

\* The mouse enters the canvas or leaves it; characters, texts and commands
\* are about nothing that is held.
LEMMA OtherTruthful ==
    ASSUME DeviceTypeOK, NEW type \in PlainTypes \cup Strings,
           type \in {"MouseEnter", "MouseLeave"} =>
              /\ type = (IF browser.inside THEN "MouseLeave" ELSE "MouseEnter")
              /\ browser' = [browser EXCEPT !.inside = ~@],
           type \notin {"MouseEnter", "MouseLeave"} => browser' = browser
    PROVE  /\ Fits(TheMessage(type, {}, {}, Nowhere))
           /\ Truthful(TheMessage(type, {}, {}, Nowhere))
  <1>. DEFINE m == TheMessage(type, {}, {}, Nowhere)
              bCanvas == type \in {"MouseEnter", "MouseLeave"}
  <1>1. m.type = type /\ m.controls = {}
    BY DEF TheMessage
  <1>2. Fits(m)
    BY <1>1 DEF Fits, KeyTypes, ClickTypes, MouseTypes, PadTypes, TouchTypes, PlainTypes, Strings
  <1>3. m \in Message
    <2>1. m \in [type : PlainTypes \cup Strings, controls : SUBSET Controls,
                 valid : SUBSET Controls, pos : {Nowhere}]
      BY DEF TheMessage
    <2>2. QED
      BY <1>2, <2>1 DEF Message
  <1>. HIDE DEF m
  <1>4. HasEvent(m) => type \in PlainTypes
    BY <1>1 DEF HasEvent
  <1>5. HasEvent(m) =>
           /\ type = "MouseEnter" => EventIn(m).event = "MOUSE_ENTER"
           /\ type = "MouseLeave" => EventIn(m).event = "MOUSE_LEAVE"
           /\ ~bCanvas => EventIn(m).event = "KEY_PRESS"
    BY <1>1, <1>3, <1>4, PlainIn DEF EventOf, PlainTypes
  <1>6. bCanvas => HasEvent(m)
    BY <1>1 DEF HasEvent, Strings, TouchTypes
  <1>7. \A a : Asks(m, a) <=> bCanvas /\ a = Canvas
    BY <1>5, <1>6 DEF Asks, Concerns
  <1>8. PICK bInside \in BOOLEAN : bInside <=> IF bCanvas THEN ~browser.inside ELSE browser.inside
    OBVIOUS
  <1>9. browser' = [browser EXCEPT !.inside = bInside]
    <2>1. browser.inside \in BOOLEAN
      BY DEF DeviceTypeOK
    <2>2. bCanvas => bInside = ~browser.inside
      BY <1>8, <2>1
    <2>3. ~bCanvas => bInside = browser.inside
      BY <1>8, <2>1
    <2>4. browser = [browser EXCEPT !.inside = browser.inside]
      BY DEF DeviceTypeOK
    <2>5. QED
      BY <2>2, <2>3, <2>4
  <1>10. /\ browser' \in [held : SUBSET Controls, inside : BOOLEAN, left : BOOLEAN,
                          mouse : Positions \cup {Nowhere}, odd : BOOLEAN]
         /\ browser'.inside = bInside /\ browser'.left = browser.left
         /\ browser'.mouse = browser.mouse /\ browser'.odd = browser.odd
         /\ browser'.held = browser.held
    BY <1>9 DEF DeviceTypeOK
  <1>11. \A a \in Names : (MayBeDown(a) => MayBeDown(a)') /\ (MayBeUp(a) => MayBeUp(a)')
    BY <1>10 DEF MayBeDown, MayBeUp
  <1>12. bCanvas => Agrees(EventIn(m), Canvas)'
    <2>1. bCanvas => (EventIn(m).event = "MOUSE_ENTER" <=> bInside)
      BY <1>5, <1>6, <1>8
    <2>2. QED
      BY <1>10, <2>1, ThingsDiffer DEF Agrees
  <1>13. ~bCanvas => browser'.inside = browser.inside
    OBVIOUS
  <1>14. \A a \in Things : (bCanvas => a # Canvas) => Kept(a)
    BY <1>10, <1>11, <1>13 DEF Kept, There
  <1>15. HasEvent(m) => ~IsClick(EventIn(m))
    BY <1>5 DEF IsClick
  <1>. HIDE DEF bCanvas
  <1>16. Truthful(m)
    BY <1>7, <1>10, <1>12, <1>14, <1>15 DEF Truthful
  <1>17. QED
    BY <1>2, <1>16 DEF m

-----------------------------------------------------------------------------
LEMMA BrowserStep ==
    ASSUME DeviceInv, Browser
    PROVE  DeviceInv'
  <1>1. DeviceTypeOK
    BY DEF DeviceInv
  <1>2. Nowhere \in Positions \cup {Nowhere} /\ {} \in SUBSET Controls
    OBVIOUS
  <1>3. \A c \in Keys \cup Pads \cup Axes \cup Buttons : {c} \in SUBSET Controls
    BY DEF Controls
  <1>4. ASSUME NEW c \in Keys, Press(c) \/ Release(c) \/ Repeat(c)
        PROVE  DeviceInv'
    <2>1. c[1] = "key"
      BY DevicesDiffer
    <2>2. CASE Press(c)
      <3>1. Send("KeyDown", {c}, {c}, Nowhere) /\ browser' = [browser EXCEPT !.held = @ \cup {c}]
        BY <2>1, <2>2 DEF Press, Hold, PressMessage
      <3>2. QED
        BY <1>1, <1>2, <1>3, <3>1, KeyTruthful, SendStep DEF MessageTypes, KeyTypes
    <2>3. CASE Release(c)
      <3>1. Send("KeyUp", {c}, {}, Nowhere) /\ browser' = [browser EXCEPT !.held = @ \ {c}]
        BY <2>1, <2>3 DEF Release, LetGo, ReleaseMessage
      <3>2. QED
        BY <1>1, <1>2, <1>3, <3>1, KeyTruthful, SendStep DEF MessageTypes, KeyTypes
    <2>4. CASE Repeat(c)
      <3>1. Send("KeyDown", {c}, {c}, Nowhere)
        BY <2>4 DEF Repeat
      <3>2. browser' = [browser EXCEPT !.held = @ \cup {c}]
        <4>1. browser.held \cup {c} = browser.held /\ browser' = browser
          BY <2>4 DEF Repeat
        <4>2. browser = [browser EXCEPT !.held = browser.held]
          BY <1>1 DEF DeviceTypeOK
        <4>3. QED
          BY <4>1, <4>2
      <3>3. QED
        BY <1>1, <1>2, <1>3, <3>1, <3>2, KeyTruthful, SendStep DEF MessageTypes, KeyTypes
    <2>5. QED
      BY <1>4, <2>2, <2>3, <2>4
  <1>5. ASSUME NEW c \in Pads \cup Axes, Press(c) \/ Release(c)
        PROVE  DeviceInv'
    <2>1. c \in Pads => c[1] = "pad"
      BY DevicesDiffer
    <2>2. c \in Axes => c[1] = "axis"
      BY DevicesDiffer
    <2>3. PICK valid \in {{}, {c}} :
             IF valid = {} THEN Release(c) ELSE Press(c)
      BY <1>5
    <2>4. PICK type \in PadTypes \cup {"GamepadAnalog"} :
             \/ c \in Pads /\ type = IF valid = {} THEN "GamepadButtonReleased"
                                     ELSE "GamepadButtonPressed"
             \/ c \in Axes /\ type = "GamepadAnalog"
      BY DEF PadTypes
    <2>5. Send(type, {c}, valid, Nowhere)
      <3>1. CASE valid = {}
        BY <2>1, <2>2, <2>3, <2>4, <3>1 DEF Release, ReleaseMessage
      <3>2. CASE valid # {}
        BY <2>1, <2>2, <2>3, <2>4, <3>2 DEF Press, PressMessage
      <3>3. QED
        BY <3>1, <3>2
    <2>6. browser' = [browser EXCEPT !.held = IF valid = {} THEN @ \ {c} ELSE @ \cup {c}]
      BY <2>3 DEF Press, Release, Hold, LetGo
    <2>7. valid \in SUBSET Controls /\ type \in MessageTypes
      BY <1>3, <2>3 DEF MessageTypes
    <2>8. /\ Fits(TheMessage(type, {c}, valid, Nowhere))
          /\ Truthful(TheMessage(type, {c}, valid, Nowhere))
      BY <1>1, <2>3, <2>4, <2>6, PadTruthful
    <2>9. QED
      BY <1>2, <1>3, <2>5, <2>7, <2>8, SendStep
  <1>6. ASSUME NEW pos \in Positions, Move(pos) \/ Wheel(pos)
        PROVE  DeviceInv'
    <2>1. CASE Move(pos)
      BY <1>1, <1>2, <2>1, MouseTruthful, SendStep DEF Move, MessageTypes, MouseTypes
    <2>2. CASE Wheel(pos)
      BY <1>1, <1>2, <2>2, MouseTruthful, SendStep DEF Wheel, MessageTypes, MouseTypes
    <2>3. QED
      BY <1>6, <2>1, <2>2
  <1>7. ASSUME NEW pos \in Positions, NEW c \in Buttons, Click(c, pos)
        PROVE  DeviceInv'
    <2>1. PICK type \in ClickTypes :
             type = (IF c \in browser.held THEN "MouseUp" ELSE "MouseDown")
      BY DEF ClickTypes
    <2>2. Send(type, {c}, {c}, pos) /\ type \in MessageTypes
      BY <1>7, <2>1 DEF Click, MouseTypes, MessageTypes
    <2>3. /\ Fits(TheMessage(type, {c}, {c}, pos))
          /\ Truthful(TheMessage(type, {c}, {c}, pos))
      <3>1. browser' = [browser EXCEPT !.held = IF c \in @ THEN @ \ {c} ELSE @ \cup {c},
                                       !.mouse = pos, !.odd = @ \/ c[2] \notin 0 .. 4]
        BY <1>7 DEF Click
      <3>2. QED
        BY <1>1, <2>1, <3>1, ClickTruthful
    <2>4. QED
      BY <1>3, <2>1, <2>2, <2>3, SendStep
  <1>8. ASSUME NEW fingers \in SUBSET Touching, NEW valid \in SUBSET fingers,
               StartTouch(fingers, valid) \/ MoveTouch(fingers, valid) \/ EndTouch(fingers, valid)
        PROVE  DeviceInv'
    <2>1. PICK type \in TouchTypes : Send(type, fingers, valid, Nowhere)
      BY <1>8 DEF StartTouch, MoveTouch, EndTouch, TouchTypes
    <2>2. \E held \in {browser.held, browser.held \cup fingers, browser.held \ fingers} :
             browser' = [browser EXCEPT !.held = held]
      <3>1. browser = [browser EXCEPT !.held = browser.held]
        BY <1>1 DEF DeviceTypeOK
      <3>2. QED
        BY <1>8, <3>1 DEF StartTouch, MoveTouch, EndTouch
    <2>3. fingers \in SUBSET Controls /\ valid \in SUBSET Controls /\ type \in MessageTypes
      BY DEF Controls, MessageTypes
    <2>4. /\ Fits(TheMessage(type, fingers, valid, Nowhere))
          /\ Truthful(TheMessage(type, fingers, valid, Nowhere))
      BY <1>1, <2>2, <2>3, TouchTruthful
    <2>5. QED
      BY <1>2, <2>1, <2>3, <2>4, SendStep
  <1>9. CASE CrossCanvas
    <2>4. PICK type \in {"MouseEnter", "MouseLeave"} :
             type = (IF browser.inside THEN "MouseLeave" ELSE "MouseEnter")
      OBVIOUS
    <2>1. Send(type, {}, {}, Nowhere) /\ browser' = [browser EXCEPT !.inside = ~@]
      BY <1>9, <2>4 DEF CrossCanvas
    <2>2. type \in PlainTypes \cup Strings /\ type \in MessageTypes
      BY DEF PlainTypes, MessageTypes
    <2>3. /\ Fits(TheMessage(type, {}, {}, Nowhere))
          /\ Truthful(TheMessage(type, {}, {}, Nowhere))
      BY <1>1, <2>1, <2>2, <2>4, OtherTruthful
    <2>5. QED
      BY <1>2, <2>1, <2>2, <2>3, SendStep
  <1>10. ASSUME NEW type \in {"KeyPress"} \cup Strings, SendOther(type)
         PROVE  DeviceInv'
    <2>1. /\ type \notin {"MouseEnter", "MouseLeave"} /\ type \in PlainTypes \cup Strings
          /\ type \in MessageTypes
      BY DEF PlainTypes, Strings, MessageTypes
    <2>2. Send(type, {}, {}, Nowhere) /\ browser' = browser
      BY <1>10 DEF SendOther
    <2>3. QED
      BY <1>1, <1>2, <2>1, <2>2, OtherTruthful, SendStep
  <1>11. CASE Leave
    <2>1. /\ messages' = messages /\ Events' = Events /\ application' = application
          /\ browser' = [browser EXCEPT !.held = {}, !.inside = FALSE, !.left = TRUE]
      BY <1>11 DEF Leave, queues
    <2>2. DeviceTypeOK' /\ browser'.left /\ browser'.odd = browser.odd
      BY <1>1, <2>1 DEF DeviceTypeOK
    <2>3. ClicksNamed'
      BY <2>1, <2>2 DEF DeviceInv, ClicksNamed
    <2>4. QED
      BY <2>2, <2>3 DEF DeviceInv
  <1>12. QED
    BY <1>4, <1>5, <1>6, <1>7, <1>8, <1>9, <1>10, <1>11 DEF Browser

\* A step that touches neither browser, messages, events nor application.
LEMMA NothingMoved ==
    ASSUME DeviceInv, UNCHANGED <<browser, messages, Events, application>>
    PROVE  DeviceInv'
  <1>1. DeviceTypeOK' /\ ClicksNamed'
    BY DEF DeviceInv, DeviceTypeOK, ClicksNamed
  <1>2. \A a : Promised(a) => Promised(a)'
    <2>. TAKE a
    <2>1. MessagesAbout(a)' = MessagesAbout(a) /\ EventsAbout(a)' = EventsAbout(a)
      BY DEF MessagesAbout, EventsAbout
    <2>2. AgreesNow(a)' <=> AgreesNow(a)
      BY SameBrowser DEF AgreesNow
    <2>3. QED
      BY <2>1, <2>2, SameBrowser DEF Promised, Newest
  <1>3. QED
    BY <1>1, <1>2 DEF DeviceInv

LEMMA DeviceInvStep == DeviceInv /\ [Next]_vars => DeviceInv'
  <1>. SUFFICES ASSUME DeviceInv, [Next]_vars PROVE DeviceInv'
    OBVIOUS
  <1>1. CASE Browser
    BY <1>1, BrowserStep
  <1>2. CASE OnMessage
    BY <1>2, OnMessageStep
  <1>3. CASE DequeueEvent
    BY <1>3, DequeueEventStep
  <1>4. CASE EndEvents
    BY <1>4, NothingMoved DEF EndEvents, queues
  <1>5. CASE DequeueCommand
    BY <1>5, NothingMoved DEF DequeueCommand
  <1>6. CASE EndTick
    BY <1>6, NothingMoved DEF EndTick, queues
  <1>7. CASE UNCHANGED vars
    BY <1>7, NothingMoved DEF vars, queues
  <1>8. QED
    BY <1>1, <1>2, <1>3, <1>4, <1>5, <1>6, <1>7 DEF Next, Tick

LEMMA DeviceInitInv == Init => DeviceInv
  <1>. SUFFICES ASSUME Init PROVE DeviceInv
    OBVIOUS
  <1>1. UnquantizeAndDenormalize(Nowhere) = Nowhere
    <2>1. SizeXY[1] \in Int /\ SizeXY[2] \in Int
      <3>1. Sides \subseteq Int
        BY DEF Sides
      <3>2. QED
        BY <3>1, SizeAssumption
    <2>2. \A n \in Int : (0 * n) \div 65536 = 0
      OBVIOUS
    <2>3. \A i \in 1 .. 2 : Nowhere[i] = 0 /\ SizeXY[i] \in Int
      BY <2>1 DEF Nowhere
    <2>4. UnquantizeAndDenormalize(Nowhere) = [i \in 1 .. 2 |-> 0]
      BY <2>2, <2>3 DEF UnquantizeAndDenormalize
    <2>5. [i \in 1 .. 2 |-> 0] = <<0, 0>>
      OBVIOUS
    <2>6. QED
      BY <2>4, <2>5 DEF Nowhere
  <1>2. DeviceTypeOK
    <2>1. Nowhere \in Pixels
      BY <1>1 DEF Pixels
    <2>2. QED
      BY <2>1 DEF Init, DeviceTypeOK
  <1>3. ClicksNamed
    BY DEF Init, ClicksNamed
  <1>4. ASSUME NEW a \in Things
        PROVE  Promised(a)
    <2>1. MessagesAbout(a) = {} /\ EventsAbout(a) = {}
      BY DEF Init, MessagesAbout, EventsAbout
    <2>2. AgreesNow(a)
      <3>1. MayBeUp(a) /\ There = Nowhere
        BY <1>1 DEF Init, MayBeUp, There
      <3>2. QED
        BY <3>1 DEF Init, AgreesNow
    <2>3. QED
      BY <2>1, <2>2 DEF Promised
  <1>5. QED
    BY <1>2, <1>3, <1>4 DEF DeviceInv

\* The inductive invariant: whatever is on its way, the newest word about a
\* key, a button, an axis, the canvas or the cursor is true of the browser.
THEOREM DeviceInvariant == Spec => []DeviceInv
  BY DeviceInitInv, DeviceInvStep, PTL DEF Spec

\* Once all is drained, the application holds down what the user holds, for any
\* keys, buttons, axes, fingers and positions and any number of messages, as
\* long as the browser is there: the queue of the receiving thread and the
\* ticks of the game thread lose no release (InputDevice.cpp, OnMessage and
\* Tick).
THEOREM HeldAsTold == Spec => []NothingStuck
  <1>1. DeviceInv => NothingStuck
    <2>. SUFFICES ASSUME DeviceInv, Settled, ~browser.left
                  PROVE  NothingStuck
      BY DEF NothingStuck
    <2>1. \A a \in Things : AgreesNow(a)
      <3>. TAKE a \in Things
      <3>1. MessagesAbout(a) = {} /\ EventsAbout(a) = {}
        BY DEF Settled, MessagesAbout, EventsAbout
      <3>2. QED
        BY <3>1 DEF DeviceInv, Promised
    <2>2. \A d \in Names : IF d \in application.down THEN MayBeDown(d) ELSE MayBeUp(d)
      BY <2>1 DEF Things, AgreesNow
    <2>3. \A d \in application.down :
             \/ d \in Touching \cup {<<"key", Invalid>>}
             \/ d[1] = "mouse" /\ browser.odd
             \/ \E c \in browser.held : HasName(c) /\ NameOf(c) = d
      BY <2>2 DEF DeviceInv, DeviceTypeOK, MayBeDown
    <2>4. ASSUME NEW c \in browser.held, HasName(c)
          PROVE  \/ c \in Buttons /\ browser.odd
                 \/ \E other \in Keys \ {c} : NameOf(other) = NameOf(c)
                 \/ NameOf(c) \in application.down
      <3>1. NameOf(c) \in Names
        <4>1. CASE c \in Keys
          BY <4>1, NamesOfControls DEF Names, Of
        <4>2. CASE c \in Buttons /\ c[2] \in 0 .. 4
          <5>1. c = <<"mouse", c[2]>> /\ c[2] \in 0 .. 5
            BY <4>2 DEF Buttons, Of
          <5>2. NameOf(c) = c
            BY <4>2, NamesOfControls
          <5>3. QED
            BY <5>1, <5>2 DEF Names, Of
        <4>3. CASE c \in Pads /\ c[2] \in ButtonIndices
          <5>1. c = <<"pad", c[2]>> /\ NameOf(c) = c
            BY <4>3, NamesOfControls DEF Pads, Of
          <5>2. QED
            BY <4>3, <5>1 DEF Names, Of
        <4>4. CASE c \in Axes /\ c[2] \in AxisIndices
          <5>1. c = <<"axis", c[2]>> /\ NameOf(c) = c
            BY <4>4, NamesOfControls DEF Axes, Of
          <5>2. QED
            BY <4>4, <5>1 DEF Names, Of
        <4>5. QED
          BY <2>4, <4>1, <4>2, <4>3, <4>4 DEF HasName
      <3>2. QED
        BY <2>2, <2>4, <3>1 DEF MayBeUp
    <2>5. AgreesNow(Canvas) /\ AgreesNow(Cursor)
      BY <2>1 DEF Things
    <2>6. application.overridden = browser.inside
      BY <2>5 DEF AgreesNow
    <2>7. There = LastPixel \/ application.cursor = There
      BY <2>5 DEF AgreesNow
    <2>8. QED
      BY <2>3, <2>4, <2>6, <2>7 DEF NothingStuck, There
  <1>2. QED
    BY <1>1, DeviceInvariant, PTL
=============================================================================
