--------------------------- MODULE CameraPadProofs ---------------------------
(***************************************************************************)
(* Proofs about camera.vue and gamepad.vue, for any cameras, pads and      *)
(* timers and any number of calls.  The two panels share no state.         *)
(***************************************************************************)
EXTENDS CameraStreams, GamepadInput, TLAPS

(***************************************************************************)
(* CameraStreams.  StreamsMatchMaps says nothing while calls are in        *)
(* flight.  StreamPromise says of a camera that is not excused what its    *)
(* calls in flight will lead to: they all ask for the same, what they ask  *)
(* for is what the maps say or will say, and as long as the stream differs *)
(* from that one of them has still to be served.                           *)
(***************************************************************************)
About(n) == {c \in streamCalls : c.name = n}

Removing(n) == \E c \in About(n) : c.op = "remove"

StreamPromise(n) ==
  /\ \A c, d \in About(n) : c.op = d.op
  /\ \A c \in About(n) :
       /\ c.op = "add" => /\ c.from = "base" => baseState[n]
                          /\ c.served => n \in streams
       /\ c.op = "remove" => /\ ~baseState[n] /\ (c.from = "base" => ~cameraState[n])
                             /\ c.served => n \notin streams
  /\ Removing(n) =>
       /\ n \in streams => \E c \in About(n) : ~c.served
       /\ cameraState[n] => \E c \in About(n) : c.from = "camera"
  /\ ~Removing(n) =>
       /\ n \in streams => StreamWanted(n) \/ \E c \in About(n) : c.from = "camera"
       /\ n \notin streams /\ StreamWanted(n) => \E c \in About(n) : ~c.served

\* A camera whose panel is gone is excused: it would find its map reset.
CameraInv ==
  /\ CameraTypeOK
  /\ Cameras \ there \subseteq excused
  /\ \A n \in Cameras \ excused : StreamPromise(n)

LEMMA RequestIsCall ==
  ASSUME NEW n \in Cameras, StreamRoom(n),
         NEW op \in {"add", "remove"}, NEW from \in {"camera", "base"}
  PROVE  /\ StreamRequest(n, op, from) \in StreamCall
         /\ StreamRequest(n, op, from).name = n /\ StreamRequest(n, op, from).op = op
         /\ StreamRequest(n, op, from).from = from /\ ~StreamRequest(n, op, from).served
<1>1. (CHOOSE i \in FreeId(n) : TRUE) \in StreamIds
  BY DEF StreamRoom, FreeId
<1>2. QED
  BY <1>1 DEF StreamRequest, StreamCall

\* viewCamera, on whichever side of its await.
LEMMA ViewKeepsPromise ==
  ASSUME CameraInv, NEW c \in Cameras, StreamRoom(c), NEW isOn \in BOOLEAN,
         viewCamera(c, isOn), UNCHANGED <<baseState, streams>>
  PROVE  /\ streamCalls' \subseteq StreamCall /\ cameraState' \in [Cameras -> BOOLEAN]
         /\ \A n \in Cameras \ excused' : StreamPromise(n)'
<1> DEFINE q == StreamRequest(c, OpFor(isOn), "camera")
<1>1. /\ q \in StreamCall /\ q.name = c /\ q.op = OpFor(isOn)
      /\ q.from = "camera" /\ ~q.served
  BY RequestIsCall DEF OpFor
<1> HIDE DEF q
<1>2. streamCalls' \subseteq StreamCall /\ cameraState' \in [Cameras -> BOOLEAN]
  BY <1>1 DEF viewCamera, CameraInv, CameraTypeOK, q
<1>3. ASSUME NEW n \in Cameras \ excused'
      PROVE  StreamPromise(n)'
  <2>1. n \notin excused /\ StreamPromise(n)
    BY <1>3 DEF viewCamera, CameraInv
  <2>2. CASE n # c
    <3>1. About(n)' = About(n) /\ cameraState'[n] = cameraState[n]
      BY <1>1, <2>2 DEF viewCamera, About, q, CameraInv, CameraTypeOK
    <3>2. QED
      BY <2>1, <3>1 DEF StreamPromise, Removing, StreamWanted
  <2>3. CASE n = c
    <3>1. \A d \in About(c) : d.op = OpFor(isOn)
      BY <1>3, <2>3 DEF viewCamera, Crossed, Crossing, About
    <3>2. CASE (isOn /\ MustAdd(c)) \/ (~isOn /\ MustRemove(c))
      <4>1. About(c)' = About(c) \cup {q} /\ cameraState' = cameraState
        BY <1>1, <3>2 DEF viewCamera, About, q
      <4>2. QED
        BY <1>1, <2>1, <2>3, <3>1, <3>2, <4>1
           DEF StreamPromise, Removing, StreamWanted, MustAdd, MustRemove, OpFor
    <3>3. CASE ~((isOn /\ MustAdd(c)) \/ (~isOn /\ MustRemove(c)))
      <4>1. About(c)' = About(c) /\ cameraState' = [cameraState EXCEPT ![c] = isOn]
        BY <3>3 DEF viewCamera, About
      <4>2. cameraState'[c] = isOn
        BY <4>1 DEF CameraInv, CameraTypeOK
      <4>3. QED
        BY <2>1, <2>3, <3>1, <3>3, <4>1, <4>2
           DEF StreamPromise, Removing, StreamWanted, MustAdd, MustRemove, OpFor
    <3>4. QED
      BY <3>2, <3>3
  <2>4. QED
    BY <2>2, <2>3
<1>4. QED
  BY <1>2, <1>3

\* viewPreviewCamera: which of the calls it makes or leaves out concern n.
LEMMA PreviewKeepsPromise ==
  ASSUME CameraInv, NEW sel \in SUBSET Cameras, viewPreviewCamera(sel)
  PROVE  CameraInv'
<1> DEFINE ons  == {StreamRequest(c, "add", "base") : c \in TurnOn(sel)}
           offs == {StreamRequest(c, "remove", "base") : c \in TurnOff(sel)}
<1>1. \A c \in Cameras : StreamRoom(c)
  BY DEF viewPreviewCamera
<1>2. \A c \in Cameras :
        /\ StreamRequest(c, "add", "base") \in StreamCall
        /\ StreamRequest(c, "remove", "base") \in StreamCall
        /\ StreamRequest(c, "add", "base").name = c
        /\ StreamRequest(c, "remove", "base").name = c
        /\ StreamRequest(c, "add", "base").op = "add"
        /\ StreamRequest(c, "remove", "base").op = "remove"
        /\ StreamRequest(c, "add", "base").from = "base"
        /\ StreamRequest(c, "remove", "base").from = "base"
        /\ ~StreamRequest(c, "add", "base").served
        /\ ~StreamRequest(c, "remove", "base").served
  BY <1>1, RequestIsCall
<1>3. TurnOn(sel) \subseteq Cameras /\ TurnOff(sel) \subseteq Cameras
  BY DEF TurnOn, TurnOff, CameraInv, CameraTypeOK
<1>4. CameraTypeOK'
  <2>1. streamCalls' \subseteq StreamCall
    <3>1. ons \subseteq StreamCall /\ offs \subseteq StreamCall
      BY <1>2, <1>3
    <3>2. QED
      BY <3>1 DEF viewPreviewCamera, CameraInv, CameraTypeOK
  <2>2. baseState' \in [Cameras -> BOOLEAN]
    <3>1. \A c \in Cameras : (c \in sel) \in BOOLEAN /\ baseState[c] \in BOOLEAN
      BY DEF CameraInv, CameraTypeOK
    <3>2. \A c \in Cameras : (IF c \in known THEN c \in sel ELSE baseState[c]) \in BOOLEAN
      BY <3>1, Zenon
    <3>3. QED
      BY <3>2, Zenon DEF viewPreviewCamera
  <2>3. excused' \subseteq Cameras
    BY <1>3 DEF viewPreviewCamera, Crossed, CameraInv, CameraTypeOK
  <2>4. QED
    BY <2>1, <2>2, <2>3 DEF viewPreviewCamera, panels, CameraInv, CameraTypeOK
<1>5. ASSUME NEW n \in Cameras \ excused'
      PROVE  StreamPromise(n)'
  <2>1. n \notin excused /\ StreamPromise(n)
    BY <1>5 DEF viewPreviewCamera, CameraInv
  <2>2. UNCHANGED <<streams, cameraState>>
    BY DEF viewPreviewCamera
  <2>3. /\ n \in TurnOn(sel) => \A d \in About(n) : d.op = "add"
        /\ n \in TurnOff(sel) => /\ \A d \in About(n) : d.op = "remove"
                                 /\ cameraState[n] = OthersView(sel)
    BY <1>5 DEF viewPreviewCamera, Crossed, Crossing, About
  <2>4. /\ baseState[n] \in BOOLEAN /\ cameraState[n] \in BOOLEAN
        /\ baseState'[n] = IF n \in TurnOn(sel) THEN TRUE
                           ELSE IF n \in TurnOff(sel) THEN FALSE ELSE baseState[n]
        /\ n \in TurnOn(sel) => ~baseState[n]
        /\ n \in TurnOff(sel) => baseState[n]
    <3>1. baseState'[n] <=> IF n \in known THEN n \in sel ELSE baseState[n]
      BY Zenon DEF viewPreviewCamera
    <3>2. baseState[n] \in BOOLEAN /\ cameraState[n] \in BOOLEAN /\ baseState'[n] \in BOOLEAN
      BY <1>4 DEF CameraInv, CameraTypeOK
    <3>3. QED
      BY <3>1, <3>2, Zenon DEF TurnOn, TurnOff
  <2>5. CASE OthersView(sel)
    <3>1. About(n)' = About(n)
      BY <2>5 DEF viewPreviewCamera, About
    <3>2. n \in TurnOn(sel) => cameraState[n]
      BY <2>5 DEF OthersView, TurnOn
    <3>3. QED
      BY <2>1, <2>2, <2>3, <2>4, <2>5, <3>1, <3>2, ZenonT(40) DEF StreamPromise, Removing, StreamWanted
  <2>6. CASE ~OthersView(sel)
    <3>1. streamCalls' = streamCalls \cup ons \cup offs
      BY <2>6 DEF viewPreviewCamera
    <3>2. CASE n \in TurnOn(sel)
      <4>1. About(n)' = About(n) \cup {StreamRequest(n, "add", "base")}
        <5>1. n \notin TurnOff(sel)
          BY <3>2 DEF TurnOn, TurnOff
        <5>2. QED
          BY <1>2, <1>3, <3>1, <3>2, <5>1 DEF About
      <4>2. QED
        BY <1>2, <2>1, <2>2, <2>3, <2>4, <3>2, <4>1 DEF StreamPromise, Removing, StreamWanted
    <3>3. CASE n \in TurnOff(sel)
      <4>1. About(n)' = About(n) \cup {StreamRequest(n, "remove", "base")}
        <5>1. n \notin TurnOn(sel)
          BY <3>3 DEF TurnOn, TurnOff
        <5>2. QED
          BY <1>2, <1>3, <3>1, <3>3, <5>1 DEF About
      <4>2. n \notin TurnOn(sel)
        BY <3>3 DEF TurnOn, TurnOff
      <4>3. QED
        BY <1>2, <2>1, <2>2, <2>3, <2>4, <2>6, <3>3, <4>1, <4>2
           DEF StreamPromise, Removing, StreamWanted
    <3>4. CASE n \notin TurnOn(sel) /\ n \notin TurnOff(sel)
      <4>1. About(n)' = About(n)
        BY <1>2, <1>3, <3>1, <3>4 DEF About
      <4>2. QED
        BY <2>1, <2>2, <2>4, <3>4, <4>1 DEF StreamPromise, Removing, StreamWanted
    <3>5. QED
      BY <3>2, <3>3, <3>4
  <2>7. QED
    BY <2>5, <2>6
<1>6. (Cameras \ there \subseteq excused)'
  BY DEF viewPreviewCamera, panels, CameraInv
<1>7. QED
  BY <1>4, <1>5, <1>6 DEF CameraInv

LEMMA ServeKeepsPromise ==
  ASSUME CameraInv, NEW c \in streamCalls, ServeStream(c) \/ StreamFail(c) \/ StreamAnswer(c)
  PROVE  CameraInv'
<1> DEFINE d == [c EXCEPT !.served = TRUE]
<1>1. c \in StreamCall /\ c.name \in Cameras
  BY DEF CameraInv, CameraTypeOK, StreamCall
<1>2. /\ d \in StreamCall /\ d.name = c.name /\ d.op = c.op /\ d.from = c.from
      /\ d.served
  BY <1>1, Zenon DEF StreamCall
<1> HIDE DEF d
<1>3. UNCHANGED <<there, baseState>> /\ (Cameras \ there \subseteq excused)'
  BY DEF ServeStream, StreamFail, StreamAnswer, panels, CameraInv
<1>4. CASE ServeStream(c) \/ StreamFail(c)
  <2>1. /\ streamCalls' = (streamCalls \ {c}) \cup (IF c.from = "camera" THEN {d} ELSE {})
        /\ ~c.served /\ cameraState' = cameraState
    BY <1>4 DEF ServeStream, StreamFail, Done, d
  <2>2. CameraTypeOK'
    <3>1. streamCalls' \subseteq StreamCall
      BY <1>2, <2>1 DEF CameraInv, CameraTypeOK
    <3>2. QED
      BY <1>1, <1>4, <3>1 DEF ServeStream, StreamFail, panels, CameraInv, CameraTypeOK
  <2>3. ASSUME NEW n \in Cameras \ excused'
        PROVE  StreamPromise(n)'
    <3>1. n \notin excused /\ StreamPromise(n)
      BY <1>4, <2>3, ZenonT(40) DEF ServeStream, StreamFail, CameraInv
    <3>2. CASE n # c.name
      <4>1. About(n)' = About(n)
        BY <1>2, <2>1, <3>2 DEF About
      <4>2. n \in streams' <=> n \in streams
        BY <1>4, <3>2 DEF ServeStream, StreamFail
      <4>3. QED
        BY <1>3, <2>1, <3>1, <4>1, <4>2 DEF StreamPromise, Removing, StreamWanted
    <3>3. CASE n = c.name
      <4>1. /\ ServeStream(c)
            /\ c.op = "add" => n \in streams'
            /\ c.op = "remove" => n \notin streams'
        BY <1>4, <2>3, <3>3, ZenonT(40) DEF ServeStream, StreamFail
      <4>2. /\ About(n)' = (About(n) \ {c}) \cup (IF c.from = "camera" THEN {d} ELSE {})
            /\ c \in About(n) /\ c.op \in {"add", "remove"} /\ c.from \in {"camera", "base"}
        BY <1>1, <1>2, <2>1, <3>3 DEF About, StreamCall
      <4>3. \A e \in About(n) : e.op = c.op
        BY <3>1, <4>2, ZenonT(40) DEF StreamPromise
      <4>4. CASE c.op = "add"
        BY <1>2, <1>3, <2>1, <3>1, <4>1, <4>2, <4>3, <4>4, ZenonT(40)
           DEF StreamPromise, Removing, StreamWanted
      <4>5. CASE c.op = "remove"
        BY <1>2, <1>3, <2>1, <3>1, <4>1, <4>2, <4>3, <4>5
           DEF StreamPromise, Removing, StreamWanted
      <4>6. QED
        BY <4>2, <4>4, <4>5
    <3>4. QED
      BY <3>2, <3>3
  <2>4. QED
    BY <1>3, <2>2, <2>3 DEF CameraInv
<1>5. CASE StreamAnswer(c)
  <2>1. /\ streamCalls' = streamCalls \ {c} /\ c.served
        /\ UNCHANGED <<excused, streams>>
        /\ cameraState' = [cameraState EXCEPT ![c.name] = (c.op = "add")]
    BY <1>5 DEF StreamAnswer
  <2>2. (c.op = "add") \in BOOLEAN
    BY <1>1 DEF StreamCall
  <2>3. cameraState' \in [Cameras -> BOOLEAN]
    BY <2>1, <2>2, ZenonT(40) DEF CameraInv, CameraTypeOK
  <2>4. CameraTypeOK'
    BY <1>5, <2>1, <2>3 DEF StreamAnswer, panels, CameraInv, CameraTypeOK
  <2>5. ASSUME NEW n \in Cameras \ excused'
        PROVE  StreamPromise(n)'
    <3>1. n \notin excused /\ StreamPromise(n)
      BY <2>1, <2>5 DEF CameraInv
    <3>2. CASE n # c.name
      <4>1. About(n)' = About(n) /\ cameraState'[n] = cameraState[n]
        BY <2>1, <3>2 DEF About, CameraInv, CameraTypeOK
      <4>2. QED
        BY <1>3, <2>1, <3>1, <4>1 DEF StreamPromise, Removing, StreamWanted
    <3>3. CASE n = c.name
      <4>1. /\ About(n)' = About(n) \ {c} /\ c \in About(n)
            /\ c.op \in {"add", "remove"} /\ c.from \in {"camera", "base"}
            /\ cameraState'[n] <=> c.op = "add"
        BY <1>1, <2>1, <3>3, ZenonT(40) DEF About, CameraInv, CameraTypeOK, StreamCall
      <4>2. \A e \in About(n) : e.op = c.op
        BY <3>1, <4>1 DEF StreamPromise
      <4>3. CASE c.op = "add"
        BY <1>3, <2>1, <3>1, <4>1, <4>2, <4>3, ZenonT(40) DEF StreamPromise, Removing, StreamWanted
      <4>4. CASE c.op = "remove"
        BY <1>3, <2>1, <3>1, <4>1, <4>2, <4>4 DEF StreamPromise, Removing, StreamWanted
      <4>5. QED
        BY <4>1, <4>3, <4>4
    <3>4. QED
      BY <3>2, <3>3
  <2>6. QED
    BY <1>3, <2>4, <2>5 DEF CameraInv
<1>6. QED
  BY <1>4, <1>5

\* The panels come and go.
LEMMA MountKeepsPromise ==
  ASSUME CameraInv,
         \/ \E c \in Cameras : CameraMount(c) \/ CameraUnmount(c)
         \/ BaseMount \/ BaseUnmount
  PROVE  CameraInv'
<1>1. CASE \E c \in Cameras : CameraMount(c)
  <2>1. PICK c \in Cameras : CameraMount(c)
    BY <1>1
  <2>2. c \in excused
    BY <2>1 DEF CameraMount, CameraInv
  <2>3. CameraTypeOK' /\ (Cameras \ there \subseteq excused)'
    BY <2>1 DEF CameraMount, CameraInv, CameraTypeOK
  <2>4. ASSUME NEW n \in Cameras \ excused'
        PROVE  StreamPromise(n)'
    <3>1. n # c /\ StreamPromise(n) /\ cameraState'[n] = cameraState[n]
      BY <2>1, <2>2, <2>4, ZenonT(40) DEF CameraMount, CameraInv, CameraTypeOK
    <3>2. QED
      BY <2>1, <3>1 DEF CameraMount, StreamPromise, Removing, StreamWanted, About
  <2>5. QED
    BY <2>3, <2>4 DEF CameraInv
<1>2. CASE \E c \in Cameras : CameraUnmount(c)
  <2>1. PICK c \in Cameras : CameraUnmount(c)
    BY <1>2
  <2>2. camera' \in [Cameras -> BOOLEAN] /\ selectedValue' \in [Cameras -> ViewValues]
    BY <2>1 DEF CameraUnmount, CameraInv, CameraTypeOK, ViewValues
  <2>3. CameraTypeOK' /\ (Cameras \ there \subseteq excused)'
    BY <2>1, <2>2 DEF CameraUnmount, CameraInv, CameraTypeOK
  <2>4. \A n \in Cameras \ excused' : StreamPromise(n)'
    BY <2>1 DEF CameraUnmount, CameraInv, StreamPromise, Removing, StreamWanted, About
  <2>5. QED
    BY <2>3, <2>4 DEF CameraInv
<1>3. CASE BaseMount
  <2>1. \A c \in Cameras : (c \notin there /\ baseState[c]) \in BOOLEAN
    OBVIOUS
  <2>2. baseState' \in [Cameras -> BOOLEAN]
    BY <1>3, <2>1, ZenonT(40) DEF BaseMount
  <2>3. CameraTypeOK' /\ (Cameras \ there \subseteq excused)'
    BY <1>3, <2>2 DEF BaseMount, panels, CameraInv, CameraTypeOK
  <2>4. ASSUME NEW n \in Cameras \ excused'
        PROVE  StreamPromise(n)'
    <3>1. StreamPromise(n) /\ (baseState'[n] <=> baseState[n])
      BY <1>3, <2>4 DEF BaseMount, CameraInv, CameraTypeOK
    <3>2. QED
      BY <1>3, <3>1, ZenonT(40) DEF BaseMount, StreamPromise, Removing, StreamWanted, About
  <2>5. QED
    BY <2>3, <2>4 DEF CameraInv
<1>4. CASE BaseUnmount
  <2>1. CameraTypeOK' /\ (Cameras \ there \subseteq excused)'
    BY <1>4, Zenon DEF BaseUnmount, panels, CameraInv, CameraTypeOK
  <2>2. QED
    BY <1>4, <2>1, SMTT(40) DEF BaseUnmount, CameraInv, StreamPromise, Removing, StreamWanted, About
<1>5. QED
  BY <1>1, <1>2, <1>3, <1>4

LEMMA CameraInitInv == CameraInit => CameraInv
<1> SUFFICES ASSUME CameraInit PROVE CameraInv
  OBVIOUS
<1>1. CameraTypeOK
  BY DEF CameraInit, CameraTypeOK, ViewValues
<1>2. QED
  BY <1>1 DEF CameraInit, CameraInv, StreamPromise, Removing, StreamWanted, About

LEMMA CameraStep == CameraInv /\ [CameraNext]_cameraVars => CameraInv'
<1> SUFFICES ASSUME CameraInv, [CameraNext]_cameraVars PROVE CameraInv'
  OBVIOUS
<1>1. CASE \E c \in Cameras : toggleExpand(c)
  <2>1. PICK c \in Cameras : toggleExpand(c)
    BY <1>1
  <2>2. camera[c] \in BOOLEAN
    BY DEF CameraInv, CameraTypeOK
  <2>3. (~camera[c]) \in BOOLEAN
    BY <2>2
  <2>4. /\ streamCalls' \subseteq StreamCall /\ cameraState' \in [Cameras -> BOOLEAN]
        /\ \A n \in Cameras \ excused' : StreamPromise(n)'
    BY <2>1, <2>3, ViewKeepsPromise, Zenon DEF toggleExpand
  <2>5. excused \subseteq excused' /\ excused' \subseteq Cameras
    BY <2>1 DEF toggleExpand, viewCamera, Crossed, CameraInv, CameraTypeOK
  <2>6. camera' \in [Cameras -> BOOLEAN]
    BY <2>1, <2>3, ZenonT(40) DEF toggleExpand, CameraInv, CameraTypeOK
  <2>7. QED
    BY <2>1, <2>4, <2>5, <2>6 DEF toggleExpand, CameraInv, CameraTypeOK
<1>2. CASE \E c \in Cameras, v \in Offered : selectCameraView(c, v)
  <2>1. PICK c \in Cameras, v \in Offered : selectCameraView(c, v)
    BY <1>2
  <2>2. (v = "live") \in BOOLEAN
    OBVIOUS
  <2>3. /\ streamCalls' \subseteq StreamCall /\ cameraState' \in [Cameras -> BOOLEAN]
        /\ \A n \in Cameras \ excused' : StreamPromise(n)'
    BY <2>1, <2>2, ViewKeepsPromise, Zenon DEF selectCameraView
  <2>4. excused \subseteq excused' /\ excused' \subseteq Cameras
    BY <2>1 DEF selectCameraView, viewCamera, Crossed, CameraInv, CameraTypeOK
  <2>5. selectedValue' \in [Cameras -> ViewValues] /\ frameTimer' \in Cameras \cup {NoCamera}
    BY <2>1, Zenon DEF selectCameraView, FrameTimerFor, ViewValues, CameraInv, CameraTypeOK
  <2>6. QED
    BY <2>1, <2>3, <2>4, <2>5, Zenon DEF selectCameraView, CameraInv, CameraTypeOK
<1>3. CASE \E sel \in SUBSET Cameras : SelectCameras(sel)
  BY <1>3, PreviewKeepsPromise DEF SelectCameras
<1>4. CASE handleTabSelect
  <2>1. {} \in SUBSET Cameras
    OBVIOUS
  <2>2. QED
    BY <1>4, <2>1, PreviewKeepsPromise DEF handleTabSelect
<1>5. CASE \E c \in streamCalls : ServeStream(c) \/ StreamFail(c) \/ StreamAnswer(c)
  BY <1>5, ServeKeepsPromise
<1>6. CASE \/ \E c \in Cameras : CameraMount(c) \/ CameraUnmount(c)
           \/ BaseMount \/ BaseUnmount
  BY <1>6, MountKeepsPromise
<1>7. CASE (\E c \in Cameras : refreshCamera(c)) \/ UNCHANGED cameraVars
  <2>1. /\ UNCHANGED <<there, cameraState, baseState, streamCalls, streams, excused>>
        /\ CameraTypeOK'
    BY <1>7, Zenon DEF refreshCamera, cameraVars, panels, CameraInv, CameraTypeOK
  <2>2. QED
    BY <2>1, SMTT(40) DEF CameraInv, StreamPromise, Removing, StreamWanted, About
<1>8. CASE Reconnect
  <2>1. CameraTypeOK' /\ excused' = Cameras
    BY <1>8 DEF Reconnect, panels, CameraInv, CameraTypeOK
  <2>2. QED
    BY <2>1 DEF CameraInv
<1>9. QED
  BY <1>1, <1>2, <1>3, <1>4, <1>5, <1>6, <1>7, <1>8 DEF CameraNext

\* Whatever the order in which the switches of the camera panels, the previews
\* and the answers to their calls come, the streams of cameras that are not
\* excused end up as the maps say (camera.vue, base.vue).
THEOREM StreamsFollowMaps == CameraSpec => []StreamsMatchMaps
<1>1. CameraInv => StreamsMatchMaps
  <2> SUFFICES ASSUME CameraInv, NEW n \in Cameras, Settled(n), n \notin excused
               PROVE  n \in streams <=> StreamWanted(n)
    BY DEF StreamsMatchMaps
  <2>1. About(n) = {} /\ StreamPromise(n)
    BY DEF Settled, About, CameraInv
  <2>2. QED
    BY <2>1, Zenon DEF StreamPromise, Removing
<1>2. QED
  BY <1>1, CameraInitInv, CameraStep, PTL DEF CameraSpec

\* However panels take the one timer from each other, it polls stills only for
\* a camera whose panel asks for that, or whose panel is gone (viewCameraFrame
\* of app.vue).
THEOREM TimerIsWanted == CameraSpec => []FrameTimerIsWanted
<1>1. CameraInit => FrameTimerIsWanted
  BY ZenonT(40) DEF CameraInit, FrameTimerIsWanted
<1>2. FrameTimerIsWanted /\ CameraInv /\ [CameraNext]_cameraVars => FrameTimerIsWanted'
  <2> SUFFICES ASSUME FrameTimerIsWanted, CameraInv, [CameraNext]_cameraVars
               PROVE  FrameTimerIsWanted'
    OBVIOUS
  <2> USE DEF FrameTimerIsWanted
  <2>1. CASE \E c \in Cameras, v \in Offered : selectCameraView(c, v)
    BY <2>1, ZenonT(40) DEF selectCameraView, FrameTimerFor, CameraInv, CameraTypeOK
  <2>2. CASE \E c \in Cameras : CameraUnmount(c)
    BY <2>2, ZenonT(40) DEF CameraUnmount, CameraInv, CameraTypeOK
  <2>3. CASE \E c \in Cameras : refreshCamera(c)
    BY <2>3, ZenonT(40) DEF refreshCamera
  <2>4. CASE \/ \E c \in Cameras : toggleExpand(c) \/ CameraMount(c)
             \/ \E sel \in SUBSET Cameras : SelectCameras(sel)
             \/ handleTabSelect \/ BaseMount \/ BaseUnmount
             \/ \E c \in streamCalls : ServeStream(c) \/ StreamFail(c) \/ StreamAnswer(c)
             \/ Reconnect \/ UNCHANGED cameraVars
    <3>1. UNCHANGED <<frameTimer, selectedValue, left>>
      BY <2>4, Zenon DEF toggleExpand, CameraMount, SelectCameras, handleTabSelect,
                  viewPreviewCamera, BaseMount, BaseUnmount, ServeStream, StreamFail,
                  StreamAnswer, Reconnect, cameraVars, panels
    <3>2. QED
      BY <3>1, ZenonT(40)
  <2>5. QED
    BY <2>1, <2>2, <2>3, <2>4, ZenonT(40) DEF CameraNext
<1>3. QED
  BY <1>1, <1>2, CameraInitInv, CameraStep, PTL DEF CameraSpec

-----------------------------------------------------------------------------
(* gamepad.vue.                                                            *)

\* What RobotFollowsStick says, for any event on its way or at the robot.
Follows(e) ==
  (enabled /\ ~unsynced /\ e.newest)
    => IF prevConnected
         THEN curState \in StickValues => e.kind # "Disconnect" /\ e.val = curState
         ELSE e.kind = "Disconnect"

\* A pad the panel reported as gone, and did not find again, was last read as
\* gone: otherwise a first reading equal to the old one would not be sent.
PadInv ==
  /\ stick \in Readings /\ padCalls \in Seq(Event) /\ lastEvent \in Event
  /\ enabled \in BOOLEAN /\ prevConnected \in BOOLEAN /\ unsynced \in BOOLEAN
  /\ (enabled /\ ~unsynced /\ ~prevConnected) => curState = NaN
  /\ Follows(lastEvent)
  /\ \A i \in 1 .. Len(padCalls) : Follows(padCalls[i])
  /\ StampsIncrease

Sendable == [kind : {"Connect", "Disconnect", "Change"}, val : StickValues]

LEMMA StampsAscend ==
  ASSUME NEW l \in Int, NEW n \in 1 .. 2
  PROVE  \A i \in 1 .. Len(Stamps(l, n)) - 1 : Stamps(l, n)[i] < Stamps(l, n)[i + 1]
<1>1. CASE n = 1
  <2>1. Stamps(l, n) = <<l, nextTS(l) + 1>>
    BY <1>1 DEF Stamps
  <2>2. l < nextTS(l) + 1
    BY DEF nextTS
  <2>3. QED
    BY <2>1, <2>2 DEF nextTS
<1>2. CASE n = 2
  <2>1. Stamps(l, n) = <<l, nextTS(l) + 1, nextTS(nextTS(l) + 1) + 1>>
    BY <1>2 DEF Stamps
  <2>2. l < nextTS(l) + 1 /\ nextTS(l) + 1 < nextTS(nextTS(l) + 1) + 1
    BY DEF nextTS
  <2>3. QED
    BY <2>1, <2>2 DEF nextTS
<1>3. QED
  BY <1>1, <1>2

LEMMA SendMakesNewest ==
  ASSUME padCalls \in Seq(Event), lastEvent \in Event, NEW evs \in Seq(Sendable),
         Len(evs) <= 2
  PROVE  SendEvents(evs) =>
         /\ padCalls' \in Seq(Event) /\ lastEvent' \in Event /\ StampsIncrease'
         /\ Len(evs) = 0 => UNCHANGED <<padCalls, lastEvent>>
         /\ Len(evs) # 0 =>
              /\ ~lastEvent'.newest
              /\ \A i \in 1 .. Len(padCalls') :
                   padCalls'[i].newest => /\ padCalls'[i].kind = evs[Len(evs)].kind
                                          /\ padCalls'[i].val = evs[Len(evs)].val
<1>1. Len(evs) # 0 => Len(evs) \in 1 .. 2 /\ Len(evs) \in 1 .. Len(evs)
  <2>1. Len(evs) \in Nat
    OBVIOUS
  <2>2. ASSUME NEW n \in Nat, n <= 2 PROVE n # 0 => n \in 1 .. 2 /\ n \in 1 .. n
    BY <2>2
  <2>3. QED
    BY <2>1, <2>2, Zenon
<1> HAVE SendEvents(evs)
<1>2. CASE Len(evs) = 0
  <2>1. UNCHANGED <<padCalls, lastEvent>> /\ stamps' = <<>>
    BY <1>2 DEF SendEvents
  <2>2. QED
    BY <1>2, <2>1 DEF StampsIncrease
<1>3. CASE Len(evs) # 0
  <2>1. Len(evs) \in 1 .. 2 /\ Len(evs) \in 1 .. Len(evs)
    BY <1>1, <1>3, Zenon
  <2> DEFINE old == [i \in 1 .. Len(padCalls) |-> Older(padCalls[i])]
             new == [i \in 1 .. Len(evs) |-> [kind |-> evs[i].kind, val |-> evs[i].val,
                                              newest |-> (i = Len(evs))]]
  <2>2. padCalls' = old \o new /\ lastEvent' = Older(lastEvent)
    BY <1>3, Zenon DEF SendEvents
  <2>3. \E l \in Leads : stamps' = Stamps(l, Len(evs))
    BY <1>3, ZenonT(40) DEF SendEvents
  <2>4. StampsIncrease'
    BY <2>1, <2>3, StampsAscend, PadAssumption DEF StampsIncrease
  <2>5. \A i \in 1 .. Len(padCalls) : old[i] \in Event /\ ~old[i].newest
    <3> SUFFICES ASSUME NEW i \in 1 .. Len(padCalls)
                 PROVE  old[i] \in Event /\ ~old[i].newest
      OBVIOUS
    <3>1. padCalls[i] \in Event /\ old[i] = Older(padCalls[i])
      OBVIOUS
    <3> HIDE DEF old, new
    <3>2. QED
      BY <3>1, ZenonT(40) DEF Older, Event
  <2>6. \A i \in 1 .. Len(evs) : /\ new[i] \in Event
                                 /\ new[i].newest => i = Len(evs)
                                 /\ new[i].kind = evs[i].kind /\ new[i].val = evs[i].val
    <3> SUFFICES ASSUME NEW i \in 1 .. Len(evs)
                 PROVE  /\ new[i] \in Event /\ (new[i].newest => i = Len(evs))
                        /\ new[i].kind = evs[i].kind /\ new[i].val = evs[i].val
      BY ZenonT(40)
    <3>1. (i = Len(evs)) \in BOOLEAN
      OBVIOUS
    <3>2. evs[i] \in Sendable
      OBVIOUS
    <3>3. evs[i].kind \in {"none", "Connect", "Disconnect", "Change"} /\ evs[i].val \in StickValues
      BY <3>2 DEF Sendable
    <3>4. new[i] = [kind |-> evs[i].kind, val |-> evs[i].val, newest |-> (i = Len(evs))]
      OBVIOUS
    <3>5. new[i] \in Event
      BY <3>1, <3>3, <3>4, ZenonT(40) DEF Event
    <3>6. QED
      BY <3>4, <3>5, ZenonT(40)
  <2>7. old \in Seq(Event) /\ new \in Seq(Event) /\ Len(old) = Len(padCalls) /\ Len(new) = Len(evs)
    BY <2>5, <2>6
  <2> HIDE DEF old, new
  <2>8. \A i \in 1 .. Len(old \o new) :
          (old \o new)[i] = IF i <= Len(old) THEN old[i] ELSE new[i - Len(old)]
    BY <2>7
  <2>9. \A i \in 1 .. Len(old \o new) :
          (old \o new)[i].newest => (old \o new)[i] = new[Len(evs)]
    BY <2>5, <2>6, <2>7, <2>8
  <2>10. padCalls' \in Seq(Event)
    BY <2>2, <2>7
  <2>11. lastEvent' \in Event /\ ~lastEvent'.newest
    BY <2>2, ZenonT(40) DEF Older, Event
  <2>12. \A i \in 1 .. Len(padCalls') :
           padCalls'[i].newest => /\ padCalls'[i].kind = evs[Len(evs)].kind
                                  /\ padCalls'[i].val = evs[Len(evs)].val
    BY <2>2, <2>6, <2>1, <2>9
  <2>13. QED
    BY <1>3, <2>4, <2>10, <2>11, <2>12, Zenon
<1>4. QED
  BY <1>2, <1>3

\* What one turn of the loop reports while the pad answers.
Report == (IF prevConnected THEN <<>> ELSE <<Connect>>) \o Changed(stick)

LEMMA ReportEnds ==
  ASSUME PadInv
  PROVE  /\ Report \in Seq(Sendable) /\ Len(Report) <= 2
         /\ stick # curState => Len(Report) # 0 /\ Report[Len(Report)] = Change(stick)
         /\ stick = curState /\ ~prevConnected => Len(Report) # 0 /\ Report[Len(Report)] = Connect
         /\ stick = curState /\ prevConnected => Len(Report) = 0
<1>1. Connect \in Sendable /\ Change(stick) \in Sendable
  BY PadAssumption DEF Connect, Disconnect, Change, Sendable, PadInv, Readings
<1>2. CASE prevConnected /\ stick = curState
  <2>1. Report = <<>> \o <<>>
    BY <1>2, Zenon DEF Report, Changed
  <2>2. QED
    BY <1>2, <2>1
<1>3. CASE prevConnected /\ stick # curState
  <2>1. Report = <<>> \o <<Change(stick)>>
    BY <1>3, Zenon DEF Report, Changed
  <2>2. QED
    BY <1>1, <1>3, <2>1
<1>4. CASE ~prevConnected /\ stick = curState
  <2>1. Report = <<Connect>> \o <<>>
    BY <1>4, ZenonT(40) DEF Report, Changed
  <2>2. QED
    BY <1>1, <1>4, <2>1
<1>5. CASE ~prevConnected /\ stick # curState
  <2>1. Report = <<Connect>> \o <<Change(stick)>>
    BY <1>5, ZenonT(40) DEF Report, Changed
  <2>2. QED
    BY <1>1, <1>5, <2>1
<1>6. QED
  BY <1>2, <1>3, <1>4, <1>5

LEMMA SilentKeepsPad ==
  ASSUME PadInv, UNCHANGED <<padCalls, lastEvent, prevConnected, enabled, unsynced>>,
         stamps' = <<>>, stick' \in Readings, curState' = curState
  PROVE  PadInv'
<1>1. StampsIncrease'
  BY DEF StampsIncrease
<1>2. QED
  BY <1>1 DEF PadInv, Follows

LEMMA TickKeepsPad ==
  ASSUME PadInv, UNCHANGED <<stick, enabled>>, NEW t, NEW idx, NEW P, tick(t, idx, P)
  PROVE  PadInv'
<1>1. CASE ~Gone(idx, P) /\ enabled
  <2>1. /\ SendEvents(Report) /\ prevConnected' = TRUE /\ curState' = stick
        /\ unsynced' = (unsynced /\ stick = curState /\ (prevConnected \/ stick # 0))
    BY <1>1, ZenonT(40) DEF tick, TickRead, Report
  <2>2. /\ padCalls \in Seq(Event) /\ lastEvent \in Event /\ stick \in Readings
        /\ enabled \in BOOLEAN /\ prevConnected \in BOOLEAN /\ unsynced \in BOOLEAN
    BY DEF PadInv
  <2>3. /\ padCalls' \in Seq(Event) /\ lastEvent' \in Event /\ StampsIncrease'
        /\ Len(Report) = 0 => UNCHANGED <<padCalls, lastEvent>>
        /\ Len(Report) # 0 =>
             /\ ~lastEvent'.newest
             /\ \A i \in 1 .. Len(padCalls') :
                   padCalls'[i].newest => /\ padCalls'[i].kind = Report[Len(Report)].kind
                                          /\ padCalls'[i].val = Report[Len(Report)].val
    BY <2>1, <2>2, ReportEnds, SendMakesNewest, ZenonT(40)
  <2>4. CASE stick # curState
    <3>1. /\ ~lastEvent'.newest
          /\ \A i \in 1 .. Len(padCalls') :
                padCalls'[i].newest => /\ padCalls'[i].kind = Change(stick).kind
                                       /\ padCalls'[i].val = Change(stick).val
      BY <2>3, <2>4, ReportEnds, Zenon
    <3>2. stick \in StickValues => Change(stick).kind # "Disconnect" /\ Change(stick).val = stick
      BY PadAssumption DEF Change
    <3>3. unsynced' \in BOOLEAN
      BY <2>1, <2>2, <2>4
    <3>4. QED
      BY <2>1, <2>2, <2>3, <3>1, <3>2, <3>3, ZenonT(40) DEF PadInv, Follows
  <2>5. CASE stick = curState /\ ~prevConnected
    <3>1. /\ ~lastEvent'.newest
          /\ \A i \in 1 .. Len(padCalls') :
                padCalls'[i].newest => /\ padCalls'[i].kind = Connect.kind
                                       /\ padCalls'[i].val = Connect.val
      BY <2>3, <2>5, ReportEnds, Zenon
    <3>2. Connect.kind # "Disconnect" /\ Connect.val = 0
      BY DEF Connect
    <3>3. unsynced' \in BOOLEAN /\ (~unsynced' => stick = NaN \/ stick = 0)
      BY <1>1, <2>1, <2>2, <2>5 DEF PadInv
    <3>4. QED
      BY <2>1, <2>2, <2>3, <3>1, <3>2, <3>3, PadAssumption DEF PadInv, Follows
  <2>6. CASE stick = curState /\ prevConnected
    <3>1. UNCHANGED <<padCalls, lastEvent>>
      BY <2>3, <2>6, ReportEnds, Zenon
    <3>2. unsynced' = unsynced
      BY <2>1, <2>2, <2>6
    <3>3. QED
      BY <2>1, <2>2, <2>3, <2>6, <3>1, <3>2, Zenon DEF PadInv, Follows
  <2>7. QED
    BY <2>4, <2>5, <2>6
<1>2. CASE Gone(idx, P) /\ enabled
  <2> DEFINE evs == IF prevConnected THEN <<Disconnect>> ELSE <<>>
  <2>1. /\ SendEvents(evs) /\ prevConnected' = FALSE /\ curState' = NaN
        /\ unsynced' = (unsynced /\ ~prevConnected)
    BY <1>2, ZenonT(40) DEF tick, TickGone
  <2>2. /\ padCalls \in Seq(Event) /\ lastEvent \in Event
        /\ enabled \in BOOLEAN /\ prevConnected \in BOOLEAN /\ unsynced \in BOOLEAN
    BY DEF PadInv
  <2>3. /\ evs \in Seq(Sendable) /\ Len(evs) <= 2
        /\ prevConnected => Len(evs) # 0 /\ evs[Len(evs)] = Disconnect
        /\ ~prevConnected => Len(evs) = 0
    <3>1. Disconnect \in Sendable
      BY PadAssumption DEF Disconnect, Sendable
    <3>2. CASE prevConnected
      <4>1. evs = <<Disconnect>>
        BY <3>2
      <4>2. QED
        BY <3>1, <3>2, <4>1
    <3>3. CASE ~prevConnected
      <4>1. evs = <<>>
        BY <3>3
      <4>2. QED
        BY <3>3, <4>1
    <3>4. QED
      BY <3>2, <3>3
  <2> HIDE DEF evs
  <2>4. /\ padCalls' \in Seq(Event) /\ lastEvent' \in Event /\ StampsIncrease'
        /\ ~prevConnected => UNCHANGED <<padCalls, lastEvent>>
        /\ prevConnected =>
             /\ ~lastEvent'.newest
             /\ \A i \in 1 .. Len(padCalls') :
                   padCalls'[i].newest => padCalls'[i].kind = Disconnect.kind
    BY <2>1, <2>2, <2>3, SendMakesNewest, ZenonT(40)
  <2>5. Disconnect.kind = "Disconnect" /\ unsynced' \in BOOLEAN
    BY <2>1, <2>2 DEF Disconnect
  <2>6. CASE prevConnected
    BY <2>1, <2>2, <2>4, <2>5, <2>6, ZenonT(40) DEF PadInv, Follows
  <2>7. CASE ~prevConnected
    <3>1. unsynced' = unsynced
      BY <2>1, <2>2, <2>7
    <3>2. QED
      BY <2>1, <2>2, <2>4, <2>5, <2>7, <3>1, ZenonT(40) DEF PadInv, Follows
  <2>8. QED
    BY <2>6, <2>7
<1>3. CASE ~enabled
  <2>1. Silent /\ UNCHANGED <<prevConnected, unsynced>>
    BY <1>3, ZenonT(40) DEF tick, TickRead, TickGone
  <2>2. StampsIncrease'
    BY <2>1 DEF Silent, StampsIncrease
  <2>3. QED
    BY <1>3, <2>1, <2>2, ZenonT(40) DEF PadInv, Follows, Silent, events
<1>4. QED
  BY <1>1, <1>2, <1>3

LEMMA WithoutKeeps ==
  ASSUME NEW S, NEW s \in Seq(S), NEW i \in 1 .. Len(s)
  PROVE  /\ Without(s, i) \in Seq(S)
         /\ \A j \in 1 .. Len(Without(s, i)) : \E k \in 1 .. Len(s) : Without(s, i)[j] = s[k]
<1> DEFINE a == SubSeq(s, 1, i - 1)
           b == SubSeq(s, i + 1, Len(s))
<1>1. /\ a \in Seq(S) /\ Len(a) = i - 1 /\ \A j \in 1 .. Len(a) : a[j] = s[j]
  OBVIOUS
<1>2. /\ b \in Seq(S) /\ Len(b) = Len(s) - i /\ \A j \in 1 .. Len(b) : b[j] = s[j + i]
  OBVIOUS
<1>3. Without(s, i) = a \o b
  BY DEF Without
<1> HIDE DEF a, b
<1>4. /\ a \o b \in Seq(S) /\ Len(a \o b) = Len(a) + Len(b)
      /\ \A j \in 1 .. Len(a \o b) :
           (a \o b)[j] = IF j <= Len(a) THEN a[j] ELSE b[j - Len(a)]
  <2>1. a \in Seq(S) /\ b \in Seq(S)
    BY <1>1, <1>2
  <2>2. QED
    BY <2>1
<1>5. \A j \in 1 .. Len(a \o b) : \E k \in 1 .. Len(s) : (a \o b)[j] = s[k]
  <2> SUFFICES ASSUME NEW j \in 1 .. Len(a \o b)
               PROVE  \E k \in 1 .. Len(s) : (a \o b)[j] = s[k]
    OBVIOUS
  <2>1. CASE j <= Len(a)
    BY <2>1, <1>1, <1>4
  <2>2. CASE j > Len(a)
    <3>1. j - Len(a) \in 1 .. Len(b) /\ j + 1 \in 1 .. Len(s) /\ (j - Len(a)) + i = j + 1
      BY <2>2, <1>1, <1>2, <1>4
    <3>2. (a \o b)[j] = s[j + 1]
      BY <2>2, <3>1, <1>2, <1>4
    <3>3. QED
      BY <3>1, <3>2
  <2>3. j \in Int /\ Len(a) \in Int
    BY <1>1, <1>4
  <2>4. QED
    BY <2>1, <2>2, <2>3
<1>6. QED
  BY <1>3, <1>4, <1>5

LEMMA PadStep == PadInv /\ [PadNext]_padVars => PadInv'
<1> SUFFICES ASSUME PadInv, [PadNext]_padVars PROVE PadInv'
  OBVIOUS
<1>1. CASE \E t \in Timers : Timer(t)
  BY <1>1, TickKeepsPad DEF Timer, pad
<1>2. CASE \E p \in Pads : GamepadConnected(p)
  <2>1. PICK p \in Pads : GamepadConnected(p)
    BY <1>2
  <2>2. CASE gamepadIdx \in {Null, 0}
    <3>1. (\E t \in Timers \ timers : tick(t, p, plugged')) /\ UNCHANGED <<stick, enabled>>
      BY <2>1, <2>2, ZenonT(40) DEF GamepadConnected
    <3>2. QED
      BY <3>1, TickKeepsPad
  <2>3. CASE gamepadIdx \notin {Null, 0}
    <3>1. /\ Silent /\ UNCHANGED <<prevConnected, curState, unsynced, stick, enabled>>
      BY <2>1, <2>3, ZenonT(40) DEF GamepadConnected
    <3>2. QED
      BY <3>1, SilentKeepsPad, ZenonT(40) DEF Silent, events, PadInv
  <2>4. QED
    BY <2>2, <2>3
<1>3. CASE \/ \E p \in Pads : GamepadDisconnected(p)
           \/ \E v \in Readings : MoveStick(v)
           \/ UnmountPad
  <2>1. /\ Silent /\ UNCHANGED <<prevConnected, curState, unsynced, enabled>>
        /\ stick' \in Readings
    BY <1>3 DEF GamepadDisconnected, MoveStick, UnmountPad, pad, PadInv
  <2>2. QED
    BY <2>1, SilentKeepsPad DEF Silent, events
<1>4. CASE Toggle
  <2> DEFINE connects == ~enabled /\ Connected(gamepadIdx, plugged)
             evs == IF connects THEN <<Connect>> ELSE <<>>
  <2>1. /\ SendEvents(evs) /\ UNCHANGED <<stick, prevConnected, curState>>
        /\ enabled' = ~enabled
        /\ unsynced' = ~(connects /\ prevConnected /\ curState = 0)
    BY <1>4, ZenonT(40) DEF Toggle, pad
  <2>2. /\ padCalls \in Seq(Event) /\ lastEvent \in Event /\ stick \in Readings
        /\ enabled \in BOOLEAN /\ prevConnected \in BOOLEAN
    BY DEF PadInv
  <2>3. /\ evs \in Seq(Sendable) /\ Len(evs) <= 2
        /\ connects => Len(evs) # 0 /\ evs[Len(evs)] = Connect
    <3>1. Connect \in Sendable
      BY PadAssumption DEF Connect, Sendable
    <3> HIDE DEF connects
    <3>2. CASE connects
      <4>1. evs = <<Connect>>
        BY <3>2
      <4>2. QED
        BY <3>1, <3>2, <4>1
    <3>3. CASE ~connects
      <4>1. evs = <<>>
        BY <3>3
      <4>2. QED
        BY <3>3, <4>1
    <3>4. QED
      BY <3>2, <3>3
  <2>4. unsynced' \in BOOLEAN /\ enabled' \in BOOLEAN
    BY <2>1, <2>2
  <2>5. ~unsynced' => connects /\ prevConnected /\ curState = 0
    BY <2>1, ZenonT(40)
  <2> HIDE DEF evs, connects
  <2>6. /\ padCalls' \in Seq(Event) /\ lastEvent' \in Event /\ StampsIncrease'
        /\ connects =>
             /\ ~lastEvent'.newest
             /\ \A i \in 1 .. Len(padCalls') :
                   padCalls'[i].newest => /\ padCalls'[i].kind = Connect.kind
                                          /\ padCalls'[i].val = Connect.val
    BY <2>1, <2>2, <2>3, SendMakesNewest, ZenonT(40)
  <2>7. Connect.kind # "Disconnect" /\ Connect.val = 0
    BY DEF Connect
  <2>8. QED
    BY <2>1, <2>2, <2>4, <2>5, <2>6, <2>7, ZenonT(40) DEF PadInv, Follows
<1>5. CASE \E i \in 1 .. MaxEvents : Trigger(i) \/ LoseEvent(i)
  <2>1. PICK i : Trigger(i) \/ LoseEvent(i)
    BY <1>5
  <2>2. i \in 1 .. Len(padCalls) /\ padCalls' = Without(padCalls, i) /\ stamps' = <<>>
    BY <2>1 DEF Trigger, LoseEvent, PadInv
  <2>3. padCalls \in Seq(Event)
    BY DEF PadInv
  <2>4. /\ padCalls' \in Seq(Event)
        /\ \A j \in 1 .. Len(padCalls') : \E k \in 1 .. Len(padCalls) : padCalls'[j] = padCalls[k]
    BY <2>2, <2>3, WithoutKeeps, SMTT(40)
  <2>5. lastEvent' = padCalls[i] \/ lastEvent' = lastEvent
    BY <2>1 DEF Trigger, LoseEvent
  <2>6. UNCHANGED <<stick, prevConnected, enabled, curState, unsynced>>
    BY <2>1 DEF Trigger, LoseEvent, pad
  <2>7. StampsIncrease'
    BY <2>2 DEF StampsIncrease
  <2>8. Follows(lastEvent') /\ \A j \in 1 .. Len(padCalls') : Follows(padCalls'[j])
    BY <2>2, <2>4, <2>5, ZenonT(40) DEF PadInv
  <2>9. Follows(lastEvent)' /\ \A j \in 1 .. Len(padCalls') : Follows(padCalls[j])'
    BY <2>6, <2>8, ZenonT(40) DEF Follows
  <2>10. lastEvent' \in Event
    BY <2>2, <2>3, <2>5, SMTT(40) DEF PadInv
  <2>11. QED
    BY <2>4, <2>6, <2>7, <2>9, <2>10 DEF PadInv
<1>6. CASE UNCHANGED padVars
  BY <1>6, ZenonT(40) DEF padVars, pad, events, PadInv, Follows, StampsIncrease
<1>7. QED
  BY <1>1, <1>2, <1>3, <1>4, <1>5, <1>6 DEF PadNext

\* Events carry increasing stamps, and the newest one on its way or at the robot
\* is what the panel last read, however the pads come and go, timer loops
\* overlap, the switch is turned and events are lost or overtaken (gamepad.vue).
THEOREM PadEventsInOrder == PadSpec => []EventsInOrder
<1>1. PadInit => PadInv
  <2> SUFFICES ASSUME PadInit PROVE PadInv
    OBVIOUS
  <2>1. /\ stick \in Readings /\ padCalls \in Seq(Event) /\ lastEvent \in Event
        /\ StampsIncrease /\ Len(padCalls) = 0
    BY PadAssumption DEF PadInit, Readings, Event, StampsIncrease
  <2>2. QED
    BY <2>1, Zenon DEF PadInit, PadInv, Follows
<1>2. PadInv => EventsInOrder
  <2> SUFFICES ASSUME PadInv PROVE EventsInOrder
    OBVIOUS
  <2>1. Follows(Newest)
    <3>1. CASE padCalls = <<>>
      BY <3>1 DEF PadInv, Newest
    <3>2. CASE padCalls # <<>>
      <4>1. Len(padCalls) \in 1 .. Len(padCalls)
        BY <3>2 DEF PadInv
      <4>2. QED
        BY <3>2, <4>1 DEF PadInv, Newest
    <3>3. QED
      BY <3>1, <3>2
  <2>2. QED
    BY <2>1 DEF PadInv, EventsInOrder, RobotFollowsStick, Follows
<1>3. QED
  BY <1>1, <1>2, PadStep, PTL DEF PadSpec
=============================================================================
