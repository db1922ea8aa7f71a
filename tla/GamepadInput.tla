----------------------------- MODULE GamepadInput -----------------------------
(***************************************************************************)
(* The gamepad panel (components/gamepad.vue): a timer loop reads the pad  *)
(* every 10 ms and sends what changed to the robot's web gamepad           *)
(* (components/input/webgamepad), which keeps the last event it got.  The  *)
(* nineteen controls of a pad do not influence each other: the model       *)
(* follows one of them.  Calls are not awaited and may overtake each other.*)
(***************************************************************************)
EXTENDS Integers, Sequences, JsValues

CONSTANTS
  Pads,        \* indices of the gamepads
  StickValues, \* positions of the control
  Timers,      \* bound: pending timers
  MaxEvents,   \* bound: events in flight
  Leads        \* how far the last stamp can be ahead of the clock

\* A pad at rest reads 0; a reading that is no number is told apart.
ASSUME PadAssumption == 0 \in StickValues /\ NaN \notin StickValues /\ Leads \subseteq Int

VARIABLES
  plugged,    \* gamepads the browser reports as connected
  stick,      \* position of the control on the pads
  padMounted, \* whether the panel is on the page
  gamepadIdx, \* gamepadIdx
  prevConnected, \* gamepadConnectedPrev
  enabled,    \* enabled
  curState,   \* curStates of the control
  timers,     \* pending timers that will run tick
  handle,     \* handle: the timer onUnmounted would clear
  padCalls,   \* events in flight, oldest first
  lastEvent,  \* lastEvents of the robot's web gamepad
  stamps,     \* history: lastTS and the stamps of the events of this turn
  unsynced    \* history: switched off and nothing that tells the position sent since

pad     == <<plugged, stick>>
events  == <<padCalls, lastEvent>>
padVars == <<pad, padMounted, gamepadIdx, prevConnected, enabled, curState, timers,
             handle, events, stamps, unsynced>>

Readings == StickValues \cup {NaN}
Event == [kind : {"none", "Connect", "Disconnect", "Change"}, val : StickValues,
          newest : BOOLEAN]

PadTypeOK ==
  /\ plugged \subseteq Pads /\ stick \in Readings /\ padMounted \in BOOLEAN
  /\ gamepadIdx \in Pads \cup {Null} /\ prevConnected \in BOOLEAN
  /\ enabled \in BOOLEAN /\ curState \in Readings
  /\ timers \subseteq Timers /\ handle \in Timers \cup {Null}
  /\ padCalls \in Seq(Event) /\ lastEvent \in Event
  /\ stamps \in Seq(Int) /\ unsynced \in BOOLEAN

-----------------------------------------------------------------------------
Connected(idx, P) == idx # Null /\ idx \in P

\* nextTS, with times counted from the present clock: l is lastTS.
nextTS_bug(l) == IF l = 0 THEN 1 ELSE 0
nextTS(l) == IF l >= 0 THEN l + 1 ELSE 0

\* The stamps of a turn that sends n batches of one event each.
Stamps(l, n) ==
  CASE n = 0 -> <<>>
    [] n = 1 -> <<l, nextTS(l) + 1>>
    [] n = 2 -> <<l, nextTS(l) + 1, nextTS(nextTS(l) + 1) + 1>>

Connect    == [kind |-> "Connect", val |-> 0]
Disconnect == [kind |-> "Disconnect", val |-> 0]

\* The event processEvents makes of a changed value.
Change(v) == IF v = NaN THEN Disconnect ELSE [kind |-> "Change", val |-> v]

\* sendEvent for each event of evs, oldest first: only the last one is the newest.
Older(e) == [e EXCEPT !.newest = FALSE]
SendEvents(evs) ==
  LET n == Len(evs) IN
  /\ Len(padCalls) + n <= MaxEvents
  /\ padCalls' = IF n = 0 THEN padCalls
              ELSE [i \in 1 .. Len(padCalls) |-> Older(padCalls[i])] \o
                   [i \in 1 .. n |-> [kind |-> evs[i].kind, val |-> evs[i].val,
                                      newest |-> (i = n)]]
  /\ lastEvent' = IF n = 0 THEN lastEvent ELSE Older(lastEvent)
  /\ IF n = 0 THEN stamps' = <<>> ELSE \E l \in Leads : stamps' = Stamps(l, n)

\* A turn that sends nothing.
Silent == UNCHANGED events /\ stamps' = <<>>

-----------------------------------------------------------------------------
\* Events of processEvents(true): the control is compared with its last reading.
Changed_bug(v) == IF v = 0 THEN <<>> ELSE <<Change(v)>>
Changed(v) == IF v # curState THEN <<Change(v)>> ELSE <<>>

\* tick while the pad answers: read it, report, run again in 10 ms.  t is the
\* timer that is set.
TickRead(t) ==
  /\ curState' = stick
  /\ IF enabled
       THEN /\ SendEvents((IF prevConnected THEN <<>> ELSE <<Connect>>) \o Changed(stick))
            /\ prevConnected' = TRUE
            /\ unsynced' = (unsynced /\ stick = curState /\ (prevConnected \/ stick # 0))
       ELSE Silent /\ UNCHANGED <<prevConnected, unsynced>>
  /\ timers' = timers \cup {t} /\ handle' = t

\* tick once the pad is gone: report and end the loop.  processEvents(false).
TickGone_bug(t) ==
  Silent /\ timers' = timers \ {t} /\ UNCHANGED <<curState, prevConnected, unsynced, handle>>
TickGone(t) ==
  /\ IF enabled
       THEN /\ curState' = NaN
            /\ SendEvents(IF prevConnected THEN <<Disconnect>> ELSE <<>>)
            /\ prevConnected' = FALSE
            /\ unsynced' = (unsynced /\ ~prevConnected)
       ELSE Silent /\ UNCHANGED <<curState, prevConnected, unsynced>>
  /\ timers' = timers \ {t} /\ UNCHANGED handle

Gone(idx, P) == ~Connected(idx, P)

tick(t, idx, P) == IF Gone(idx, P) THEN TickGone(t) ELSE TickRead(t)

Timer(t) ==
  /\ t \in timers
  /\ tick(t, gamepadIdx, plugged)
  /\ UNCHANGED <<pad, padMounted, gamepadIdx, enabled>>

-----------------------------------------------------------------------------
\* "gamepadconnected": the index 0 counts as no gamepad, so that a second pad
\* replaces pad 0 and starts another loop.  The listener is never removed.
GamepadConnected(p) ==
  /\ p \in Pads \ plugged
  /\ plugged' = plugged \cup {p}
  /\ IF gamepadIdx \in {Null, 0}
       THEN /\ gamepadIdx' = p
            /\ \E t \in Timers \ timers : tick(t, p, plugged')
       ELSE /\ Silent
            /\ UNCHANGED <<gamepadIdx, prevConnected, curState, timers, handle, unsynced>>
  /\ UNCHANGED <<stick, padMounted, enabled>>

GamepadDisconnected(p) ==
  /\ p \in plugged
  /\ plugged' = plugged \ {p}
  /\ gamepadIdx' = IF Connected(gamepadIdx, plugged') THEN gamepadIdx ELSE Null
  /\ Silent
  /\ UNCHANGED <<stick, padMounted, prevConnected, enabled, curState, timers, handle, unsynced>>

\* The person moves the stick.
MoveStick(v) ==
  /\ stick' = v
  /\ Silent
  /\ UNCHANGED <<plugged, padMounted, gamepadIdx, prevConnected, enabled, curState,
                 timers, handle, unsynced>>

\* The switch, with the watcher that calls connectEvent.  Switching off, the
\* Disconnect events are made but sendEvent drops them.
Toggle ==
  /\ padMounted
  /\ enabled' = ~enabled
  /\ LET connects == ~enabled /\ Connected(gamepadIdx, plugged) IN
       /\ SendEvents(IF connects THEN <<Connect>> ELSE <<>>)
       /\ unsynced' = ~(connects /\ prevConnected /\ curState = 0)
  /\ UNCHANGED <<pad, padMounted, gamepadIdx, prevConnected, curState, timers, handle>>

\* onUnmounted clears one timer; other loops and the listeners stay.
UnmountPad ==
  /\ padMounted /\ padMounted' = FALSE
  /\ timers' = timers \ {handle}
  /\ Silent
  /\ UNCHANGED <<pad, gamepadIdx, prevConnected, enabled, curState, handle, unsynced>>

-----------------------------------------------------------------------------
Without(s, i) == SubSeq(s, 1, i - 1) \o SubSeq(s, i + 1, Len(s))

\* makeCallbacks of the web gamepad keeps the event that arrives last,
\* whatever its time stamp.
Trigger(i) ==
  /\ i \in DOMAIN padCalls
  /\ lastEvent' = padCalls[i] /\ padCalls' = Without(padCalls, i) /\ stamps' = <<>>
  /\ UNCHANGED <<pad, padMounted, gamepadIdx, prevConnected, enabled, curState,
                 timers, handle, unsynced>>

LoseEvent(i) ==
  /\ i \in DOMAIN padCalls
  /\ padCalls' = Without(padCalls, i) /\ stamps' = <<>>
  /\ UNCHANGED <<pad, padMounted, gamepadIdx, prevConnected, enabled, curState,
                 timers, handle, lastEvent, unsynced>>

-----------------------------------------------------------------------------
\* onMounted: the pads that are there are searched, but only a pad with an
\* index other than 0 starts the loop.
PadInit ==
  /\ plugged \in SUBSET Pads /\ stick = 0 /\ padMounted = TRUE
  /\ gamepadIdx = IF plugged = {} THEN Null
                  ELSE CHOOSE p \in plugged : \A q \in plugged : p <= q
  /\ prevConnected = FALSE /\ enabled = FALSE
  /\ IF gamepadIdx \in {Null, 0}
       THEN timers = {} /\ handle = Null /\ curState = NaN
       ELSE \E t \in Timers : timers = {t} /\ handle = t /\ curState = stick
  /\ padCalls = <<>> /\ lastEvent = [kind |-> "none", val |-> 0, newest |-> TRUE]
  /\ stamps = <<>> /\ unsynced = TRUE

PadNext ==
  \/ \E t \in Timers : Timer(t)
  \/ \E p \in Pads : GamepadConnected(p) \/ GamepadDisconnected(p)
  \/ \E v \in Readings : MoveStick(v)
  \/ Toggle \/ UnmountPad
  \/ \E i \in 1 .. MaxEvents : Trigger(i) \/ LoseEvent(i)

PadSpec == PadInit /\ [][PadNext]_padVars

\* The browser runs its timers and the robot serves the calls.
PadFairSpec ==
  /\ PadSpec
  /\ \A t \in Timers : WF_padVars(Timer(t))
  /\ WF_padVars(Trigger(1) \/ LoseEvent(1))

-----------------------------------------------------------------------------
(* Properties.                                                             *)

\* Time stamps increase strictly from event to event even if the clock stands
\* still or steps back (nextTS, and lastTS written back after each batch).
StampsIncrease == \A i \in 1 .. Len(stamps) - 1 : stamps[i] < stamps[i + 1]

Newest == IF padCalls = <<>> THEN lastEvent ELSE padCalls[Len(padCalls)]

\* As long as the panel has been enabled and told the robot the position once,
\* the newest event on its way or at the robot is what the panel last read:
\* the position, or Disconnect once the pad is gone.  Unplugging, a second pad
\* and a second timer loop do not disturb it.  Of the time between switching off
\* and on and the next change of the stick nothing is said (unsynced): the robot
\* then holds an old position, see EventsAreCurrentState.
RobotFollowsStick ==
  (enabled /\ ~unsynced /\ Newest.newest)
    => IF prevConnected
         THEN curState \in StickValues => Newest.kind # "Disconnect" /\ Newest.val = curState
         ELSE Newest.kind = "Disconnect"

\* The two together.
EventsInOrder == StampsIncrease /\ RobotFollowsStick

\* A pad that was reported and is pulled out while enabled does not stay
\* connected: the loop gets as far as processEvents(false), which sends the
\* Disconnect and clears prevConnected, unless the pad comes back or the panel
\* is switched off or removed.
DisconnectReported ==
  (enabled /\ prevConnected /\ timers # {} /\ gamepadIdx = Null)
    ~> (~prevConnected \/ gamepadIdx # Null \/ ~enabled \/ ~padMounted)

\* What webgamepad.go says of Events, "the last input.Event (the current
\* state)": with nothing in flight or overtaken, the value the robot holds for
\* an enabled and connected pad is the one the panel reads.
EventsAreCurrentState ==
  (enabled /\ prevConnected /\ padCalls = <<>> /\ lastEvent.newest /\ curState \in StickValues)
    => lastEvent.val = curState

\* Deviation: an unmounted panel is silent.  A second loop, or a pad plugged in
\* later, keeps running.
UnmountedIsSilent == ~padMounted => timers = {}

=============================================================================
