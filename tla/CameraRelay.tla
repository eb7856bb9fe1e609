---------------------------- MODULE CameraRelay ----------------------------
(***************************************************************************)
(* The compressed camera of a scene (native/world_worker.py): a            *)
(* CompressedCameraRelay takes the newest image of a CARLA sensor to one   *)
(* encoder thread, and its JPEG to the threads that wait for it.  camera() *)
(* replaces the relay of a prepared scene, stop() closes it, both with     *)
(* WorldWorker._lock; pause and resume change the subscription of a relay  *)
(* they looked up under that lock, after they released it; _send_mjpeg     *)
(* asks for one frame after the other, looking the relay up each time.     *)
(*                                                                         *)
(* A step is a stretch of code between two points where another thread may *)
(* run.  Relays are numbered in the order of their creation; an image is   *)
(* the number of the simulator frame it shows.                             *)
(***************************************************************************)
EXTENDS Integers, FiniteSets

CONSTANTS
  MaxRelays,   \* bound: relays a scene has, one after the other
  MaxFrame     \* bound: frames of the simulator that matter

ASSUME BoundsAssumption == MaxRelays \in Nat \ {0} /\ MaxFrame \in Nat \ {0}

Relays == 1..MaxRelays
None == 0

VARIABLES
  current,    \* scene.camera_relay, or None
  made,       \* relays created so far
  live,       \* their sensors that CARLA has
  listening,  \* those subscribed by sensor.listen
  draining,   \* those that were stopped and may still deliver a queued image
  closed, paused, stopped, complete,  \* flags of the relays, as sets
  failed,     \* relays with _error
  pending,    \* _pending_image of each relay, or None
  sequence,   \* _sequence of each relay
  jpeg,       \* image shown by _jpeg, or None
  encoder,    \* where each encoder thread is
  inHand,     \* the image it encodes
  frame,      \* frame of the simulator
  lock,       \* who has _lifecycle_lock of each relay
  owner,      \* the request that has WorldWorker._lock: where it is
  goal,       \* and what it wants: "replace", "stop", "abandon"
  changer,    \* the pause or resume request: where it is, which relay, what
  stream      \* the MJPEG request: where it is, on which relay, the sequence it
              \* asks to exceed, and (for the properties) image and relay of its last part

world == <<current, made, owner, goal>>
sensors == <<live, listening, draining, frame>>
flags == <<closed, paused, stopped, complete>>
encoding == <<failed, pending, sequence, jpeg, encoder, inHand>>
vars == <<world, sensors, flags, encoding, lock, changer, stream>>

Frames == 0..MaxFrame

TypeOK ==
  /\ current \in Relays \cup {None} /\ made \in 0..MaxRelays
  /\ live \subseteq Relays /\ listening \subseteq Relays /\ draining \subseteq Relays
  /\ closed \subseteq Relays /\ paused \subseteq Relays /\ stopped \subseteq Relays
  /\ complete \subseteq Relays /\ failed \subseteq Relays
  /\ pending \in [Relays -> Frames] /\ jpeg \in [Relays -> Frames] /\ inHand \in [Relays -> Frames]
  /\ sequence \in [Relays -> -1..MaxFrame]
  /\ encoder \in [Relays -> {"none", "ready", "asleep", "encoding", "exited"}]
  /\ frame \in Frames
  /\ lock \in [Relays -> {"free", "owner", "changer"}]
  /\ owner \in {"idle", "close", "sensor", "join", "drain", "destroy", "spawn", "listen"}
  /\ goal \in {"replace", "stop", "abandon"}
  /\ changer \in [at : {"idle", "enter", "subscribe", "check"}, relay : Relays \cup {None},
                  to : {"pause", "resume"}]
  /\ stream \in [at : {"off", "fetch", "ready", "asleep", "writing"}, relay : Relays \cup {None},
                 after : -1..MaxFrame, shown : Frames, source : Relays \cup {None}]

(* A scene without a camera.                                               *)
Init ==
  /\ current = None /\ made = 0 /\ owner = "idle" /\ goal = "replace"
  /\ live = {} /\ listening = {} /\ draining = {} /\ frame = 0
  /\ closed = {} /\ paused = {} /\ stopped = {} /\ complete = {} /\ failed = {}
  /\ pending = [r \in Relays |-> None] /\ jpeg = [r \in Relays |-> None]
  /\ inHand = [r \in Relays |-> None] /\ sequence = [r \in Relays |-> -1]
  /\ encoder = [r \in Relays |-> "none"] /\ lock = [r \in Relays |-> "free"]
  /\ changer = [at |-> "idle", relay |-> None, to |-> "pause"]
  /\ stream = [at |-> "off", relay |-> None, after |-> -1, shown |-> None, source |-> None]

WorldFree == owner = "idle"

(* _condition.notify_all(): the threads that wait on relay r run again.  A *)
(* notification that changes nothing they wait for is left out.            *)
(* Mutant: nobody is told.                                                 *)
LeaveEncoder(r) == encoder

WakeEncoder(r) == IF encoder[r] = "asleep" THEN [encoder EXCEPT ![r] = "ready"] ELSE encoder
WakeStream(r) ==
  IF stream.at = "asleep" /\ stream.relay = r THEN [stream EXCEPT !.at = "ready"] ELSE stream

-----------------------------------------------------------------------------
(* The sensor's callback, _on_image: keeps the newest image.               *)
Dropped(r) == r \in closed \cup paused

Deliver(r) ==
  /\ r \in listening \cup draining /\ frame < MaxFrame
  /\ frame' = frame + 1
  /\ IF Dropped(r)
       THEN UNCHANGED <<pending, encoder>>
       ELSE pending' = [pending EXCEPT ![r] = frame + 1] /\ encoder' = WakeEncoder(r)
  /\ UNCHANGED <<world, live, listening, draining, flags, failed, sequence, jpeg, inHand, lock, changer, stream>>

(* sensor.stop(): no more images, but those that are queued.               *)
Unsubscribed(r) ==
  /\ listening' = listening \ {r}
  /\ draining' = draining \cup (listening \cap {r})

(* A map change or another client destroys the sensor; what it has queued  *)
(* is still delivered.                                                     *)
SensorDies(r) ==
  /\ r \in live /\ owner \in {"idle", "close", "sensor", "join", "drain"}
  /\ live' = live \ {r} /\ Unsubscribed(r)
  /\ UNCHANGED <<world, frame, flags, encoding, lock, changer, stream>>

(* _encode_loop: leaves, sleeps or takes the image.                        *)
Taken(r) == [pending EXCEPT ![r] = None]

EncoderLooks(r) ==
  /\ encoder[r] = "ready"
  /\ \/ r \in closed /\ encoder' = [encoder EXCEPT ![r] = "exited"] /\ UNCHANGED <<pending, inHand>>
     \/ /\ r \notin closed /\ pending[r] = None
        /\ encoder' = [encoder EXCEPT ![r] = "asleep"] /\ UNCHANGED <<pending, inHand>>
     \/ /\ r \notin closed /\ pending[r] # None
        /\ inHand' = [inHand EXCEPT ![r] = pending[r]]
        /\ pending' = Taken(r)
        /\ encoder' = [encoder EXCEPT ![r] = "encoding"]
  /\ UNCHANGED <<world, sensors, flags, failed, sequence, jpeg, lock, changer, stream>>

(* The image is published, or its error is; a closed relay publishes none. *)
EncoderPublishes(r) ==
  /\ encoder[r] = "encoding"
  /\ \/ /\ r \in closed
        /\ encoder' = [encoder EXCEPT ![r] = "exited"]
        /\ UNCHANGED <<failed, sequence, jpeg, stream>>
     \/ /\ r \notin closed
        /\ encoder' = [encoder EXCEPT ![r] = "ready"] /\ stream' = WakeStream(r)
        /\ \/ /\ sequence' = [sequence EXCEPT ![r] = @ + 1]
              /\ jpeg' = [jpeg EXCEPT ![r] = inHand[r]]
              /\ failed' = failed \ {r}
           \/ failed' = failed \cup {r} /\ UNCHANGED <<sequence, jpeg>>
  /\ inHand' = [inHand EXCEPT ![r] = None]
  /\ UNCHANGED <<world, sensors, flags, pending, lock, changer>>

-----------------------------------------------------------------------------
(* camera() and stop(), with the world lock.  After a stop the scene takes *)
(* no other camera; a stop that failed is tried again.                     *)
Stopping == goal = "stop"

BeginReplace ==
  /\ WorldFree /\ ~Stopping /\ made < MaxRelays
  /\ goal' = "replace"
  /\ owner' = IF current = None THEN "spawn" ELSE "close"
  /\ UNCHANGED <<current, made, sensors, flags, encoding, lock, changer, stream>>

BeginStop ==
  /\ WorldFree /\ current # None
  /\ goal' = "stop" /\ owner' = "close"
  /\ UNCHANGED <<current, made, sensors, flags, encoding, lock, changer, stream>>

(* close(): takes the lifecycle lock and says that the relay is closed.    *)
Close ==
  /\ owner = "close" /\ lock[current] \in {"free", "owner"}
  /\ IF current \in complete
       THEN /\ owner' = "destroy" /\ lock' = [lock EXCEPT ![current] = "free"]
            /\ UNCHANGED <<closed, pending, encoder, stream>>
       ELSE /\ lock' = [lock EXCEPT ![current] = "owner"]
            /\ closed' = closed \cup {current}
            /\ pending' = [pending EXCEPT ![current] = None]
            /\ encoder' = WakeEncoder(current) /\ stream' = WakeStream(current)
            /\ owner' = "sensor"
  /\ UNCHANGED <<current, made, goal, sensors, paused, stopped, complete, failed, sequence, jpeg, inHand, changer>>

(* The request ends with an exception; the relay stays as it is.           *)
GiveUp == owner' = "idle" /\ lock' = [lock EXCEPT ![current] = "free"]

(* The sensor is stopped, unless it was or the relay is paused.  A failure *)
(* is passed over only when the sensor is gone.                            *)
(* Mutant: looks at the flag that close() has just set.                    *)
MustStopUnlessClosed == current \notin stopped \cup closed

MustStopSensor == current \notin stopped \cup paused

StopSensor ==
  /\ owner = "sensor"
  /\ \/ /\ stopped' = stopped \cup {current} /\ owner' = "join" /\ UNCHANGED lock
        /\ IF MustStopSensor THEN Unsubscribed(current) ELSE UNCHANGED <<listening, draining>>
     \/ /\ MustStopSensor /\ current \in live
        /\ GiveUp /\ UNCHANGED stopped
        /\ Unsubscribed(current) \/ UNCHANGED <<listening, draining>>
  /\ UNCHANGED <<current, made, goal, live, frame, closed, paused, complete, encoding, changer, stream>>

(* The encoder is joined: it has exited, or the join times out.            *)
EncoderGone(r) == encoder[r] \in {"none", "exited"}

JoinEncoder ==
  /\ owner = "join"
  /\ \/ EncoderGone(current) /\ owner' = "drain" /\ UNCHANGED lock
     \/ ~EncoderGone(current) /\ GiveUp
  /\ UNCHANGED <<current, made, goal, sensors, flags, encoding, changer, stream>>

(* 0.4 s after the stop no callback is left, and close() is complete.      *)
Drain ==
  /\ owner = "drain"
  /\ draining' = draining \ {current} /\ complete' = complete \cup {current}
  /\ lock' = [lock EXCEPT ![current] = "free"] /\ owner' = "destroy"
  /\ UNCHANGED <<current, made, goal, live, listening, frame, closed, paused, stopped, encoding, changer, stream>>

(* The sensor is destroyed, or cannot be; stop and a failed listen let the *)
(* relay go first.                                                         *)
DestroySensor ==
  /\ owner = "destroy"
  /\ \/ /\ live' = live \ {current} /\ current' = None
        /\ owner' = IF goal = "replace" THEN "spawn" ELSE "idle"
     \/ /\ UNCHANGED live /\ owner' = "idle"
        /\ current' = IF goal = "replace" THEN current ELSE None
  /\ UNCHANGED <<made, goal, listening, draining, frame, flags, encoding, lock, changer, stream>>

(* A new sensor, with a relay of its own; or none.                         *)
SpawnSensor ==
  /\ owner = "spawn"
  /\ \/ /\ made' = made + 1 /\ current' = made + 1 /\ live' = live \cup {made + 1}
        /\ owner' = "listen"
     \/ owner' = "idle" /\ UNCHANGED <<made, current, live>>
  /\ UNCHANGED <<goal, listening, draining, frame, flags, encoding, lock, changer, stream>>

(* listen(): starts the encoder and subscribes; a failure closes the relay. *)
Listen ==
  /\ owner = "listen"
  /\ encoder' = [encoder EXCEPT ![current] = "ready"]
  /\ \/ listening' = listening \cup {current} /\ owner' = "idle" /\ UNCHANGED goal
     \/ goal' = "abandon" /\ owner' = "close" /\ UNCHANGED listening
  /\ UNCHANGED <<current, made, live, draining, frame, flags, failed, pending, sequence, jpeg, inHand,
                 lock, changer, stream>>

-----------------------------------------------------------------------------
(* camera_pause() and camera_resume().                                     *)
LookUp(to) ==
  /\ changer.at = "idle" /\ WorldFree /\ current # None /\ ~Stopping
  /\ changer' = [at |-> "enter", relay |-> current, to |-> to]
  /\ UNCHANGED <<world, sensors, flags, encoding, lock, stream>>

Leave == changer' = [at |-> "idle", relay |-> None, to |-> "pause"]
AsWanted(r) == (changer.to = "pause") = (r \in paused)

(* The relay is closed by now, or as wanted, or is to change.              *)
EnterChange ==
  /\ changer.at = "enter" /\ lock[changer.relay] = "free"
  /\ LET r == changer.relay
     IN  \/ r \in closed /\ Leave /\ UNCHANGED <<lock, paused, pending>>
         \/ /\ r \notin closed /\ AsWanted(r) /\ changer' = [changer EXCEPT !.at = "check"]
            /\ UNCHANGED <<lock, paused, pending>>
         \/ /\ r \notin closed /\ ~AsWanted(r)
            /\ changer' = [changer EXCEPT !.at = "subscribe"]
            /\ lock' = [lock EXCEPT ![r] = "changer"]
            /\ IF changer.to = "pause"
                 THEN paused' = paused \cup {r} /\ pending' = [pending EXCEPT ![r] = None]
                 ELSE UNCHANGED <<paused, pending>>
  /\ UNCHANGED <<world, sensors, closed, stopped, complete, failed, sequence, jpeg, encoder, inHand, stream>>

Unlocked(r) == [lock EXCEPT ![r] = "free"]

(* sensor.stop() or sensor.listen(), and the flag that says so.            *)
Subscribe ==
  /\ changer.at = "subscribe"
  /\ LET r == changer.relay
         done == changer' = [changer EXCEPT !.at = "check"]
     IN  /\ lock' = Unlocked(r)
         /\ \/ changer.to = "pause" /\ done /\ Unsubscribed(r) /\ UNCHANGED paused
            \/ /\ changer.to = "pause" /\ Leave /\ paused' = paused \ {r}
               /\ Unsubscribed(r) \/ UNCHANGED <<listening, draining>>
            \/ /\ changer.to = "resume" /\ done /\ paused' = paused \ {r}
               /\ listening' = listening \cup ({r} \cap live) /\ UNCHANGED draining
            \/ /\ changer.to = "resume" /\ Leave
               /\ UNCHANGED <<listening, draining, paused>>
  /\ UNCHANGED <<world, live, frame, closed, stopped, complete, encoding, stream>>

(* The answer says whether the relay is still the scene's.                 *)
CheckChange ==
  /\ changer.at = "check" /\ WorldFree /\ Leave
  /\ UNCHANGED <<world, sensors, flags, encoding, lock, stream>>

-----------------------------------------------------------------------------
(* _send_mjpeg and camera_frame.                                           *)
OpenStream ==
  /\ stream.at = "off"
  /\ stream' = [at |-> "fetch", relay |-> None, after |-> -1, shown |-> None, source |-> None]
  /\ UNCHANGED <<world, sensors, flags, encoding, lock, changer>>

Fetch ==
  /\ stream.at = "fetch" /\ WorldFree
  /\ stream' = IF current = None THEN [stream EXCEPT !.at = "off"]
                                 ELSE [stream EXCEPT !.at = "ready", !.relay = current]
  /\ UNCHANGED <<world, sensors, flags, encoding, lock, changer>>

(* wait(): nothing to do while the relay is open and has no newer frame    *)
(* and no error.                                                           *)
NothingNew(r) == r \notin closed /\ sequence[r] <= stream.after /\ r \notin failed

StreamSleeps ==
  /\ stream.at = "ready" /\ NothingNew(stream.relay)
  /\ stream' = [stream EXCEPT !.at = "asleep"]
  /\ UNCHANGED <<world, sensors, flags, encoding, lock, changer>>

(* The wait times out: the first request fails; a stream takes it for a    *)
(* stall of CARLA and asks again, with the sequence it has.                *)
StreamTimesOut ==
  /\ stream.at \in {"ready", "asleep"} /\ NothingNew(stream.relay)
  /\ stream' = [stream EXCEPT !.at = IF stream.shown = None THEN "off" ELSE "fetch", !.relay = None]
  /\ UNCHANGED <<world, sensors, flags, encoding, lock, changer>>

(* A relay that failed, or is closed, has nothing to show.                 *)
(* Mutant: a closed one shows what it has.                                 *)
NothingEncoded(r) == r \in failed \/ jpeg[r] = None

NothingToShow(r) == r \in failed \cup closed \/ jpeg[r] = None

StreamWakes ==
  /\ stream.at = "ready" /\ ~NothingNew(stream.relay)
  /\ LET r == stream.relay
     IN  stream' = IF NothingToShow(r)
                     THEN [stream EXCEPT !.at = "off", !.relay = None]
                     ELSE [at |-> "writing", relay |-> None, after |-> sequence[r],
                           shown |-> jpeg[r], source |-> r]
  /\ UNCHANGED <<world, sensors, flags, encoding, lock, changer>>

(* The part is written, or the browser is gone.                            *)
StreamWrites ==
  /\ stream.at = "writing"
  /\ \E next \in {"fetch", "off"} : stream' = [stream EXCEPT !.at = next]
  /\ UNCHANGED <<world, sensors, flags, encoding, lock, changer>>

-----------------------------------------------------------------------------
OwnerStep ==
  \/ Close \/ StopSensor \/ JoinEncoder \/ Drain \/ DestroySensor \/ SpawnSensor \/ Listen

Next ==
  \/ \E r \in Relays : Deliver(r) \/ SensorDies(r) \/ EncoderLooks(r) \/ EncoderPublishes(r)
  \/ BeginReplace \/ BeginStop \/ OwnerStep
  \/ \E to \in {"pause", "resume"} : LookUp(to)
  \/ EnterChange \/ Subscribe \/ CheckChange
  \/ OpenStream \/ Fetch \/ StreamSleeps \/ StreamTimesOut \/ StreamWakes \/ StreamWrites

Spec == Init /\ [][Next]_vars

(* Threads that are not blocked go on; CARLA's calls return.               *)
Fairness ==
  /\ WF_vars(OwnerStep)
  /\ WF_vars(EnterChange) /\ WF_vars(Subscribe)
  /\ \A r \in Relays : WF_vars(EncoderLooks(r)) /\ WF_vars(EncoderPublishes(r))

FairSpec == Spec /\ Fairness

-----------------------------------------------------------------------------
(* A relay that the scene let go of is complete; a complete relay has no   *)
(* encoder thread and its sensor delivers nothing any more.                *)
(* ("Destroying while callbacks run is unsafe"; close: "Every concurrent   *)
(* caller must observe the completed drain".)                              *)
QuietBeforeDestroy ==
  \A r \in 1..made :
    /\ r # current => r \in complete
    /\ r \in complete => encoder[r] \in {"none", "exited"} /\ r \notin listening \cup draining

(* A thread sleeps on the condition only while there is nothing for it to  *)
(* do: every change it waits for is followed by a notification.            *)
NoLostWakeup ==
  /\ \A r \in Relays : encoder[r] = "asleep" => pending[r] = None /\ r \notin closed
  /\ stream.at = "asleep" => NothingNew(stream.relay)

(* Every part of a stream shows a later frame than the part before it,     *)
(* also when the camera was replaced, or closed under the waiting stream,  *)
(* in between; and a stream that takes a wait for a stall of CARLA has     *)
(* been withheld no newer image, unless the camera was replaced since its  *)
(* last part: then it still asks to exceed the old camera's sequence.      *)
PartShown == stream.at = "ready" /\ stream'.at = "writing"
StallTaken == stream.at \in {"ready", "asleep"} /\ stream'.at = "fetch"
StreamGoesForward ==
  [][/\ PartShown => stream'.shown > stream.shown
     /\ StallTaken => jpeg[stream.relay] <= stream.shown \/ stream.relay # stream.source]_vars

(* "Live MJPEG ... newest frame wins" (docs/realtime_streaming.md:109):    *)
(* without that exception.  The code does not keep it.                     *)
NewestFrameWins == [][StallTaken => jpeg[stream.relay] <= stream.shown]_vars

=============================================================================
