---------------------------- MODULE InputDevice ----------------------------
(***************************************************************************)
(* FInputDevice: what becomes of the messages of a browser once they have  *)
(* reached the application.                                                *)
(*                                                                         *)
(*   - the receiving thread parses a message and queues what it asks for:  *)
(*     Events, Commands and UIInteractions;                                *)
(*   - the game thread drains the queues when it ticks and passes the      *)
(*     events on to the application, which keeps track of what is held     *)
(*     down.  Nothing drains UIInteractions.                               *)
(*                                                                         *)
(* The browser is external: it tells what its user presses, touches and    *)
(* releases, in messages of the sizes the device expects and, here, without *)
(* loss (InputChannel is about how they are lost).                         *)
(***************************************************************************)
EXTENDS Integers, Sequences, FiniteSets, SequencesExt

CONSTANTS KeyCodes,        \* JavaScript codes of the keys of the user
          MouseButtons, GamepadButtons, GamepadAxes, Fingers,
          Positions,       \* where the mouse may be, quantized by the browser
          SizeXY,          \* of the viewport
          MaxMessages      \* bound on what a browser sends

\* FKeyCodeType, FButtonType, FControllerButtonIndex, FControllerAxis and the
\* index of a touch are uint8.
Codes == 0 .. 255

ASSUME CodesAssumption ==
    \A codes \in {KeyCodes, MouseButtons, GamepadButtons, GamepadAxes, Fingers} :
        codes \subseteq Codes

ASSUME DeviceAssumption ==
    /\ Positions \subseteq (0 .. 65535) \X (0 .. 65535)
    /\ MaxMessages \in Nat

\* A viewport has pixels, and a graphics interface bounds how many along a side.
Sides == 1 .. 32767

ASSUME SizeAssumption == SizeXY \in Sides \X Sides

VARIABLES browser,         \* what its user holds, and where the mouse is
          messages,        \* on their way to the device
          sent,            \* how many messages there were
          Events, Commands, UIInteractions,
          ticking,         \* which queue the game thread drains
          application      \* what it believes to be held, and its layer

queues == <<Events, Commands, UIInteractions>>

vars == <<browser, messages, sent, queues, ticking, application>>

-----------------------------------------------------------------------------
(* What can be held down: a device and a code. *)

Of(device, codes) == {device} \X codes

Keys == Of("key", KeyCodes)
Buttons == Of("mouse", MouseButtons)
Pads == Of("pad", GamepadButtons)
Axes == Of("axis", GamepadAxes)
Touching == Of("finger", Fingers)

Controls == Keys \cup Buttons \cup Pads \cup Axes \cup Touching

\* The messages that press a control and release it, and their events.
PressMessage ==
    [key |-> "KeyDown", mouse |-> "MouseDown", pad |-> "GamepadButtonPressed",
     axis |-> "GamepadAnalog"]

ReleaseMessage ==
    [key |-> "KeyUp", mouse |-> "MouseUp", pad |-> "GamepadButtonReleased",
     axis |-> "GamepadAnalog"]

EventOf ==
    [KeyDown |-> "KEY_DOWN", KeyUp |-> "KEY_UP", KeyPress |-> "KEY_PRESS",
     MouseEnter |-> "MOUSE_ENTER", MouseLeave |-> "MOUSE_LEAVE",
     MouseDown |-> "MOUSE_DOWN", MouseUp |-> "MOUSE_UP",
     MouseMove |-> "MOUSE_MOVE", MouseWheel |-> "MOUSE_WHEEL",
     TouchStart |-> "TOUCH_START", TouchEnd |-> "TOUCH_END", TouchMove |-> "TOUCH_MOVE",
     GamepadButtonPressed |-> "GAMEPAD_PRESS", GamepadButtonReleased |-> "GAMEPAD_RELEASE",
     GamepadAnalog |-> "GAMEPAD_ANALOG"]

Strings == {"UIInteraction", "Command"}

-----------------------------------------------------------------------------
(* Names. *)

Invalid == 0  \* EKeys::Invalid

\* JavaScriptKeyCodeToFKey, where a key goes by its code: the main block,
\* the block for numbers and the functions,
LowerCodes ==
    {8, 9, 13, 27, 45, 46} \cup (16 .. 20) \cup (32 .. 40) \cup (48 .. 57)
        \cup (65 .. 90) \cup (96 .. 107) \cup (109 .. 123)

\* locks and punctuation; the keys of the right-hand side have codes made up
\* for them.
UpperCodes == {144, 145} \cup (186 .. 192) \cup (219 .. 222) \cup (253 .. 255)

\* Browsers do not agree on the code of the tilde.
JavaScriptKeyCodeToFKey ==
    [code \in Codes |-> IF code \in LowerCodes \cup UpperCodes THEN code
                           ELSE IF code = 223 THEN 192 ELSE Invalid]

\* GetMouseClick: left, middle, right and two at the thumb.  For any other
\* code the button is left uninitialized, and may come out as any of
\* EMouseButtons.
GetMouseClick(code) == IF code \in 0 .. 4 THEN {code} ELSE 0 .. 5

\* The triggers are buttons to the browser and axes to the application.
ButtonIndices == (0 .. 5) \cup (8 .. 15)
AxisIndices == 1 .. 6

-----------------------------------------------------------------------------
(* Positions. *)

\* A ratio along each axis, in parts of 2 ^ 16, becomes a pixel.  (The code
\* computes it in floats, whose rounding is left out.)
UnquantizeAndDenormalize(pos) ==
    [i \in 1 .. 2 |-> (pos[i] * SizeXY[i]) \div 65536]

\* To a message about a movement this pixel is no position.
LastPixel == [i \in 1 .. 2 |-> SizeXY[i] - 1]

Nowhere == <<0, 0>>

-----------------------------------------------------------------------------
Init ==
    /\ browser = [held |-> {}, inside |-> FALSE, left |-> FALSE,
                  mouse |-> Nowhere, odd |-> FALSE]
    /\ messages = <<>>
    /\ sent = 0
    /\ Events = <<>>
    /\ Commands = 0
    /\ UIInteractions = 0
    /\ ticking = "events"
    /\ application = [down |-> {}, overridden |-> FALSE, cursor |-> Nowhere]

-----------------------------------------------------------------------------
(* The browser. *)

Send(type, controls, valid, pos) ==
    /\ ~browser.left
    /\ sent < MaxMessages
    /\ sent' = sent + 1
    /\ messages' = Append(messages, [type |-> type, controls |-> controls,
                                     valid |-> valid, pos |-> pos])
    /\ UNCHANGED <<queues, ticking, application>>

Hold(c) == browser' = [browser EXCEPT !.held = @ \cup {c}]
LetGo(c) == browser' = [browser EXCEPT !.held = @ \ {c}]

\* An axis has a value other than 0 while it is held.
Press(c) ==
    /\ c \notin browser.held
    /\ Send(PressMessage[c[1]], {c}, {c}, Nowhere)
    /\ Hold(c)

\* A key that is held down repeats.
Repeat(c) ==
    /\ c \in browser.held
    /\ Send("KeyDown", {c}, {c}, Nowhere)
    /\ UNCHANGED browser

Release(c) ==
    /\ c \in browser.held
    /\ Send(ReleaseMessage[c[1]], {c}, {}, Nowhere)
    /\ LetGo(c)

\* The mouse is clicked where it is. Only the first five buttons have names.
Click(c, pos) ==
    /\ Send(IF c \in browser.held THEN "MouseUp" ELSE "MouseDown", {c}, {c}, pos)
    /\ browser' = [browser EXCEPT !.held = IF c \in @ THEN @ \ {c} ELSE @ \cup {c},
                                  !.mouse = pos,
                                  !.odd = @ \/ c[2] \notin 0 .. 4]

Move(pos) ==
    /\ Send("MouseMove", {}, {}, pos)
    /\ browser' = [browser EXCEPT !.mouse = pos]

Wheel(pos) == Send("MouseWheel", {}, {}, pos) /\ UNCHANGED browser

\* Several fingers may go down in one message, some of them out of bounds.
StartTouch(fingers, valid) ==
    /\ fingers \cap browser.held = {}
    /\ Send("TouchStart", fingers, valid, Nowhere)
    /\ browser' = [browser EXCEPT !.held = @ \cup fingers]

MoveTouch(fingers, valid) ==
    /\ fingers \subseteq browser.held
    /\ Send("TouchMove", fingers, valid, Nowhere)
    /\ UNCHANGED browser

EndTouch(fingers, valid) ==
    /\ fingers \subseteq browser.held
    /\ Send("TouchEnd", fingers, valid, Nowhere)
    /\ browser' = [browser EXCEPT !.held = @ \ fingers]

CrossCanvas ==
    /\ Send(IF browser.inside THEN "MouseLeave" ELSE "MouseEnter", {}, {}, Nowhere)
    /\ browser' = [browser EXCEPT !.inside = ~@]

SendOther(type) == Send(type, {}, {}, Nowhere) /\ UNCHANGED browser

\* The page is closed, and tells nobody.
Leave ==
    /\ ~browser.left
    /\ browser' = [browser EXCEPT !.held = {}, !.inside = FALSE, !.left = TRUE]
    /\ UNCHANGED <<messages, sent, queues, ticking, application>>

-----------------------------------------------------------------------------
(* FEvent: what the setters put in, and the getters take out. *)

Event(type) == [event |-> EventOf[type]]

KeyEvent(type, c) == [event |-> EventOf[type], code |-> c[2]]

\* The value of an axis: is it other than 0?
GamepadEvent(type, c, value) == [event |-> EventOf[type], code |-> c[2], value |-> value]

MouseEvent(type, code, pos) ==
    [event |-> EventOf[type], code |-> code, pos |-> UnquantizeAndDenormalize(pos)]

TouchEvent(type, c) == [event |-> EventOf[type], code |-> c[2]]

GetKey(event) == <<"key", JavaScriptKeyCodeToFKey[event.code]>>
GetGamepadButton(event) == <<"pad", event.code>>
GetGamepadAnalog(event) == <<"axis", event.code>>
GetTouch(event) == <<"finger", event.code>>

-----------------------------------------------------------------------------
(* OnMessage, on the receiving thread. *)

TheControl(message) == CHOOSE c \in message.controls : TRUE

ParseKey(message) == <<KeyEvent(message.type, TheControl(message))>>

ParseMouse(message) ==
    LET code == IF message.controls = {} THEN 0 ELSE TheControl(message)[2]
    IN  <<MouseEvent(message.type, code, message.pos)>>

ParseGamepad(message) ==
    <<GamepadEvent(message.type, TheControl(message), message.valid # {})>>

\* What follows the type: a count and, for every finger, its position, its
\* index, its force and whether it is valid.
TouchSize(fingers) == 1 + 7 * Cardinality(fingers)

GetTouches(fingers) == IF TouchSize(fingers) <= 8 THEN {} ELSE fingers

\* The ends of touches count in or outside the valid region.
ParseTouches(message) ==
    LET touched == GetTouches(message.controls)
        fingers == SetToSeq(IF message.type = "TouchEnd" THEN touched
                            ELSE touched \cap message.valid)
    IN  [i \in DOMAIN fingers |-> TouchEvent(message.type, fingers[i])]

ParseEvents(message) ==
    CASE message.type \in {"KeyDown", "KeyUp"} -> ParseKey(message)
      [] message.type \in {"MouseDown", "MouseUp", "MouseMove", "MouseWheel"} ->
            ParseMouse(message)
      [] message.type \in {"TouchStart", "TouchEnd", "TouchMove"} -> ParseTouches(message)
      [] message.type \in {"GamepadButtonPressed", "GamepadButtonReleased", "GamepadAnalog"} ->
            ParseGamepad(message)
      [] OTHER -> <<Event(message.type)>>

OnMessage ==
    /\ messages # <<>>
    /\ messages' = Tail(messages)
    /\ LET message == Head(messages)
       IN  /\ Events' = IF message.type \in Strings THEN Events
                        ELSE Events \o ParseEvents(message)
           /\ Commands' = Commands + IF message.type = "Command" THEN 1 ELSE 0
           /\ UIInteractions' = UIInteractions + IF message.type = "UIInteraction" THEN 1 ELSE 0
    /\ UNCHANGED <<browser, sent, ticking, application>>

-----------------------------------------------------------------------------
(* Tick, on the game thread, while the other one goes on queueing. *)

Down(c) == application' = [application EXCEPT !.down = @ \cup {c}]
Up(c) == application' = [application EXCEPT !.down = @ \ {c}]

\* A key without a name is passed on, as no key.
ProcessKey(event) ==
    \/ event.event = "KEY_DOWN" /\ Down(GetKey(event))
    \/ event.event = "KEY_UP" /\ Up(GetKey(event))

ProcessMove(event) ==
    /\ event.event = "MOUSE_MOVE"
    /\ application' = [application EXCEPT !.cursor =
                          IF event.pos = LastPixel THEN @ ELSE event.pos]

ProcessClick(event) ==
    /\ event.event \in {"MOUSE_DOWN", "MOUSE_UP"}
    /\ \E button \in GetMouseClick(event.code) :
          LET c == <<"mouse", button>> IN
          application' = [application EXCEPT !.cursor = event.pos,
                            !.down = IF event.event = "MOUSE_DOWN" THEN @ \cup {c} ELSE @ \ {c}]

\* The application layer is overridden while the mouse is on the canvas.
ProcessCanvas(event) ==
    \/ /\ event.event = "MOUSE_ENTER"
       /\ application' = [application EXCEPT !.overridden = TRUE]
    \/ /\ event.event = "MOUSE_LEAVE"
       /\ application' = [application EXCEPT !.overridden = FALSE]

ProcessTouch(event) ==
    \/ event.event = "TOUCH_START" /\ Down(GetTouch(event))
    \/ event.event = "TOUCH_END" /\ Up(GetTouch(event))

\* Mutant: the press of a button without a name is passed on.
ProcessGamepadUnnamed(event) ==
    \/ event.event = "GAMEPAD_PRESS" /\ Down(GetGamepadButton(event))
    \/ /\ event.event = "GAMEPAD_RELEASE"
       /\ IF event.code \in ButtonIndices THEN Up(GetGamepadButton(event))
          ELSE UNCHANGED application

ProcessGamepad(event) ==
    /\ event.event \in {"GAMEPAD_PRESS", "GAMEPAD_RELEASE"}
    /\ IF event.code \notin ButtonIndices THEN UNCHANGED application
       ELSE IF event.event = "GAMEPAD_PRESS" THEN Down(GetGamepadButton(event))
       ELSE Up(GetGamepadButton(event))

ProcessAnalog(event) ==
    /\ event.event = "GAMEPAD_ANALOG"
    /\ IF event.code \notin AxisIndices THEN UNCHANGED application
       ELSE IF event.value THEN Down(GetGamepadAnalog(event)) ELSE Up(GetGamepadAnalog(event))

\* Characters, the wheel and moving fingers leave nothing behind.
ProcessMomentary(event) ==
    /\ event.event \in {"KEY_PRESS", "MOUSE_WHEEL", "TOUCH_MOVE"}
    /\ UNCHANGED application

DequeueEvent ==
    /\ ticking = "events"
    /\ Events # <<>>
    /\ Events' = Tail(Events)
    /\ LET event == Head(Events) IN
       \/ ProcessKey(event)
       \/ ProcessCanvas(event)
       \/ ProcessMove(event)
       \/ ProcessClick(event)
       \/ ProcessTouch(event)
       \/ ProcessGamepad(event)
       \/ ProcessAnalog(event)
       \/ ProcessMomentary(event)
    /\ UNCHANGED <<browser, messages, sent, Commands, UIInteractions, ticking>>

EndEvents ==
    /\ ticking = "events"
    /\ Events = <<>>
    /\ ticking' = "commands"
    /\ UNCHANGED <<browser, messages, sent, queues, application>>

DequeueCommand ==
    /\ ticking = "commands"
    /\ Commands > 0
    /\ Commands' = Commands - 1
    /\ UNCHANGED <<browser, messages, sent, Events, UIInteractions, ticking, application>>

EndTick ==
    /\ ticking = "commands"
    /\ Commands = 0
    /\ ticking' = "events"
    /\ UNCHANGED <<browser, messages, sent, queues, application>>

Tick == DequeueEvent \/ EndEvents \/ DequeueCommand \/ EndTick

-----------------------------------------------------------------------------
Browser ==
    \/ \E c \in Keys \cup Pads \cup Axes : Press(c) \/ Release(c)
    \/ \E c \in Keys : Repeat(c)
    \/ \E pos \in Positions : Move(pos) \/ Wheel(pos) \/ \E c \in Buttons : Click(c, pos)
    \/ \E fingers \in SUBSET Touching \ {{}} : \E valid \in SUBSET fingers :
          StartTouch(fingers, valid) \/ MoveTouch(fingers, valid) \/ EndTouch(fingers, valid)
    \/ CrossCanvas
    \/ \E type \in {"KeyPress"} \cup Strings : SendOther(type)
    \/ Leave

Next == Browser \/ OnMessage \/ Tick

Spec == Init /\ [][Next]_vars

-----------------------------------------------------------------------------
\* Everything the browser has sent has been passed on.
Settled == messages = <<>> /\ Events = <<>>

\* The name by which the application knows a control.
NameOf(c) == IF c \in Keys THEN <<"key", JavaScriptKeyCodeToFKey[c[2]]>> ELSE c

\* A control that has a name of its own.
HasName(c) ==
    \/ c \in Keys /\ NameOf(c)[2] # Invalid
    \/ c \in Buttons /\ c[2] \in 0 .. 4
    \/ c \in Pads /\ c[2] \in ButtonIndices
    \/ c \in Axes /\ c[2] \in AxisIndices

\* For as long as the browser is there, the application ends up with nothing
\* down but what the user holds, with all of that down which has a name and
\* shares it with no other key, with its own layer overridden exactly while
\* the mouse is on the canvas, and with the cursor where the mouse was last,
\* unless that is the last pixel: through two queues, repeats, two keys of
\* one name and controls without one.  (Once a mouse button without a name
\* has been clicked, nothing is known of the buttons.)
NothingStuck ==
    Settled /\ ~browser.left =>
        /\ \A d \in application.down :
              \/ d \in Touching \cup {<<"key", Invalid>>}
              \/ d[1] = "mouse" /\ browser.odd
              \/ \E c \in browser.held : HasName(c) /\ NameOf(c) = d
        /\ \A c \in browser.held :
              \/ ~HasName(c)
              \/ c \in Buttons /\ browser.odd
              \/ \E other \in Keys \ {c} : NameOf(other) = NameOf(c)
              \/ NameOf(c) \in application.down
        /\ application.overridden = browser.inside
        /\ LET there == UnquantizeAndDenormalize(browser.mouse) IN
           there = LastPixel \/ application.cursor = there

-----------------------------------------------------------------------------
\* "Always allowing the "up" events regardless of in or outside the valid
\* region so states aren't stuck "down"."
FingersLifted ==
    Settled /\ ~browser.left => application.down \cap Touching \subseteq browser.held
=============================================================================
