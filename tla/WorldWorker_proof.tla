-------------------------- MODULE WorldWorker_proof --------------------------
(***************************************************************************)
(* TLAPS proofs about two parts of native/world_worker.py.  First what     *)
(* CameraRelay promises for any number of relays and frames.  Its          *)
(* invariant says which flags a relay has at each place of close(), who    *)
(* can hold its lifecycle lock, and how old its images are: a frame that   *)
(* an open relay can still publish is newer than all the stream has shown. *)
(* Then what configure() leaves of a prepared scene (SceneConfigure), for  *)
(* any blueprints, settings and sizes of the population.                   *)
(***************************************************************************)
EXTENDS CameraRelay, SceneConfigure, FiniteSetTheorems, TLAPS

(* TypeOK in parts: what the Worker, the sensors and their flags, the      *)
(* encoder threads, and the requests keep.                                 *)
OwnerTyped ==
  /\ current \in Relays \cup {None} /\ made \in 0..MaxRelays
  /\ owner \in {"idle", "close", "sensor", "join", "drain", "destroy", "spawn", "listen"}
  /\ goal \in {"replace", "stop", "abandon"}
SetsTyped ==
  /\ live \subseteq Relays /\ listening \subseteq Relays /\ draining \subseteq Relays
  /\ closed \subseteq Relays /\ paused \subseteq Relays /\ stopped \subseteq Relays
  /\ complete \subseteq Relays /\ failed \subseteq Relays
ImagesTyped ==
  /\ pending \in [Relays -> Frames] /\ jpeg \in [Relays -> Frames] /\ inHand \in [Relays -> Frames]
  /\ sequence \in [Relays -> -1..MaxFrame] /\ frame \in Frames
EncoderTyped == encoder \in [Relays -> {"none", "ready", "asleep", "encoding", "exited"}]
LockTyped == lock \in [Relays -> {"free", "owner", "changer"}]
ChangerTyped ==
  changer \in [at : {"idle", "enter", "subscribe", "check"}, relay : Relays \cup {None},
               to : {"pause", "resume"}]
StreamTyped ==
  stream \in [at : {"off", "fetch", "ready", "asleep", "writing"}, relay : Relays \cup {None},
              after : -1..MaxFrame, shown : Frames, source : Relays \cup {None}]

(* The request with the world lock works on the newest relay, and makes    *)
(* room for a new one before it spawns it.                                 *)
Closing == {"close", "sensor", "join", "drain", "destroy"}
OwnersRelay ==
  /\ current \in {None} \cup 1..made
  /\ owner \in Closing \cup {"listen"} => current # None
  /\ owner = "spawn" => current = None /\ goal = "replace"
  /\ owner \in Closing \cup {"spawn"} /\ goal = "replace" => made < MaxRelays

(* A relay that is not made yet has nothing.                               *)
Unmade ==
  \A r \in Relays : r > made =>
    /\ encoder[r] = "none" /\ sequence[r] = -1 /\ pending[r] = None
    /\ r \notin listening \cup draining \cup closed \cup paused

(* What close() has behind it at each of its places.                       *)
Closed ==
  /\ owner \in {"sensor", "join", "drain"} => current \in closed
  /\ owner \in {"join", "drain"} => current \in stopped
  /\ owner = "drain" => EncoderGone(current)
  /\ owner = "destroy" => current \in complete
  /\ owner = "listen" =>
       /\ current \in live /\ current \notin closed \cup paused
       /\ encoder[current] = "none" /\ changer.relay # current

(* Who holds a lifecycle lock is at a place where it has taken it.         *)
Locked ==
  \A r \in Relays :
    /\ lock[r] = "changer" <=> changer.at = "subscribe" /\ changer.relay = r
    /\ lock[r] = "owner" <=> owner \in {"sensor", "join", "drain"} /\ current = r
ChangersRelay ==
  /\ changer.relay \in IF changer.at = "idle" THEN {None} ELSE 1..made
  /\ changer.at = "subscribe" => changer.relay \notin closed

(* The flags of a relay tell what its sensor and its encoder do.           *)
FlagsTell ==
  /\ complete \subseteq stopped /\ stopped \subseteq closed
  /\ stopped \cap listening = {} /\ complete \cap draining = {}
  /\ \A r \in paused \cap listening : lock[r] = "changer" /\ changer.to = "pause"
LetGoComplete == \A r \in 1..made : r # current => r \in complete
Finished == \A r \in complete : EncoderGone(r)

(* An image is newer than what was published before it, and each           *)
(* publication shows a frame of its own.                                   *)
InHand == \A r \in Relays : inHand[r] # None <=> encoder[r] = "encoding"
InOrder ==
  \A r \in Relays :
    /\ jpeg[r] <= frame /\ inHand[r] <= frame /\ pending[r] <= frame
    /\ inHand[r] # None => jpeg[r] < inHand[r]
    /\ pending[r] # None => jpeg[r] < pending[r] /\ inHand[r] < pending[r]
    /\ sequence[r] < jpeg[r]

(* Whatever an open relay can still publish is newer than what the stream  *)
(* has shown.                                                              *)
StreamsRelay == stream.at \in {"ready", "asleep"} => stream.relay \in 1..made
Ahead(r) ==
  /\ sequence[r] > stream.after => jpeg[r] > stream.shown
  /\ inHand[r] # None => inHand[r] > stream.shown
  /\ pending[r] # None => pending[r] > stream.shown
StreamBehind == stream.shown <= frame /\ \A r \in Relays \ closed : Ahead(r)

EncoderSleeps == \A r \in Relays : encoder[r] = "asleep" => pending[r] = None /\ r \notin closed
StreamSleepsIdle == stream.at = "asleep" => NothingNew(stream.relay)

IInv ==
  /\ OwnerTyped /\ SetsTyped /\ ImagesTyped /\ EncoderTyped /\ LockTyped /\ ChangerTyped /\ StreamTyped
  /\ OwnersRelay /\ Unmade /\ Closed /\ Locked /\ ChangersRelay
  /\ FlagsTell /\ LetGoComplete /\ Finished
  /\ InHand /\ InOrder /\ StreamsRelay /\ StreamBehind
  /\ EncoderSleeps /\ StreamSleepsIdle

-----------------------------------------------------------------------------
(* What the types mean for one relay, and for the relay at hand.           *)
LEMMA Basics ==
  ASSUME IInv
  PROVE  /\ MaxRelays \in Nat /\ MaxFrame \in Nat /\ made \in Nat /\ frame \in Nat
         /\ 1..made \subseteq Relays
         /\ owner \in Closing \cup {"listen"} => current \in 1..made /\ current \in Relays
         /\ \A q \in Relays : /\ q \in Nat /\ q # None
                              /\ pending[q] \in Nat /\ jpeg[q] \in Nat /\ inHand[q] \in Nat
                              /\ sequence[q] \in Int
         /\ stream.after \in Int /\ stream.shown \in Nat
<1>1. MaxRelays \in Nat /\ MaxFrame \in Nat /\ made \in 0..MaxRelays
  BY BoundsAssumption DEF IInv, OwnerTyped
<1>2. 1..made \subseteq Relays
  BY <1>1 DEF Relays
<1>3. owner \in Closing \cup {"listen"} => current \in 1..made
  BY <1>1 DEF IInv, OwnersRelay, None
<1>4. \A q \in Relays : pending[q] \in Frames /\ jpeg[q] \in Frames /\ inHand[q] \in Frames
                        /\ sequence[q] \in -1..MaxFrame
  BY DEF IInv, ImagesTyped
<1>5. \A q \in Relays : q \in Nat /\ q # None
  BY <1>1 DEF Relays, None
<1>6. frame \in Frames /\ stream.after \in -1..MaxFrame /\ stream.shown \in Frames
  BY DEF IInv, ImagesTyped, StreamTyped
<1> QED BY <1>1, <1>2, <1>3, <1>4, <1>5, <1>6 DEF Frames

(* A notification wakes who sleeps on that relay and nobody else.          *)
LEMMA WokenEncoder ==
  ASSUME EncoderTyped, NEW r \in Relays
  PROVE  /\ WakeEncoder(r) \in [Relays -> {"none", "ready", "asleep", "encoding", "exited"}]
         /\ \A q \in Relays :
              WakeEncoder(r)[q] = IF q = r /\ encoder[r] = "asleep" THEN "ready" ELSE encoder[q]
  BY DEF EncoderTyped, WakeEncoder

LEMMA WokenStream ==
  ASSUME StreamTyped, NEW r \in Relays
  PROVE  /\ WakeStream(r) \in [at : {"off", "fetch", "ready", "asleep", "writing"},
                               relay : Relays \cup {None}, after : -1..MaxFrame, shown : Frames,
                               source : Relays \cup {None}]
         /\ WakeStream(r).at = IF stream.at = "asleep" /\ stream.relay = r THEN "ready" ELSE stream.at
         /\ WakeStream(r).relay = stream.relay
         /\ WakeStream(r).after = stream.after /\ WakeStream(r).shown = stream.shown
         /\ WakeStream(r).source = stream.source
  BY DEF StreamTyped, WakeStream

-----------------------------------------------------------------------------
(* The sensor.                                                             *)
LEMMA DeliverStep ==
  ASSUME IInv, NEW r \in Relays, Deliver(r)
  PROVE  IInv'
<1>1. /\ r \in listening \cup draining /\ frame < MaxFrame /\ frame' = frame + 1
      /\ UNCHANGED <<current, made, owner, goal, live, listening, draining, closed, paused, stopped, complete,
                     failed, sequence, jpeg, inHand, lock, changer, stream>>
  BY DEF Deliver, world, flags
<1>2. r <= made
  BY <1>1, Basics DEF IInv, Unmade
<1>3. \A q \in Relays : pending'[q] = pending[q] \/ (q = r /\ pending'[q] = frame + 1 /\ r \notin closed)
  BY DEF Deliver, Dropped, IInv, ImagesTyped
<1>4. \A q \in Relays : encoder'[q] = encoder[q] \/ (q = r /\ encoder[q] = "asleep" /\ encoder'[q] = "ready")
  BY WokenEncoder DEF Deliver, IInv
<1>5. \A q \in Relays : encoder'[q] = "asleep" => encoder[q] = "asleep" /\ pending'[q] = pending[q]
  BY WokenEncoder DEF Deliver, IInv, ImagesTyped, EncoderTyped
<1>6. OwnerTyped' /\ SetsTyped' /\ LockTyped' /\ ChangerTyped' /\ StreamTyped'
  BY <1>1 DEF IInv, OwnerTyped, SetsTyped, LockTyped, ChangerTyped, StreamTyped
<1>7. ImagesTyped'
  <2>1. frame + 1 \in Frames
    BY <1>1, Basics DEF Frames
  <2> QED BY <1>1, <2>1 DEF Deliver, IInv, ImagesTyped
<1>8. EncoderTyped'
  BY WokenEncoder DEF Deliver, IInv, EncoderTyped
<1>9. OwnersRelay' /\ Unmade'
  <2>1. OwnersRelay'
    BY <1>1 DEF IInv, OwnersRelay
  <2>2. Unmade'
    BY <1>1, <1>2, <1>3, <1>4, Basics DEF IInv, Unmade
  <2> QED BY <2>1, <2>2
<1>10. Closed' /\ Locked' /\ ChangersRelay'
  <2>1. Closed'
    BY <1>1, <1>4, Basics DEF IInv, Closed, EncoderGone, Closing
  <2>2. Locked' /\ ChangersRelay'
    BY <1>1 DEF IInv, Locked, ChangersRelay
  <2> QED BY <2>1, <2>2
<1>11. FlagsTell' /\ LetGoComplete' /\ Finished'
  <2>1. FlagsTell' /\ LetGoComplete'
    BY <1>1 DEF IInv, FlagsTell, LetGoComplete
  <2>2. Finished'
    BY <1>1, <1>4 DEF IInv, Finished, EncoderGone, SetsTyped
  <2> QED BY <2>1, <2>2
<1>12. InHand' /\ InOrder'
  <2>1. InHand'
    BY <1>1, <1>4 DEF IInv, InHand
  <2>2. InOrder'
    BY <1>1, <1>3, Basics DEF IInv, InOrder
  <2> QED BY <2>1, <2>2
<1>13. StreamsRelay' /\ StreamBehind' /\ EncoderSleeps' /\ StreamSleepsIdle'
  <2>1. StreamBehind'
    BY <1>1, <1>3, Basics DEF IInv, StreamBehind, Ahead
  <2>2. StreamsRelay' /\ StreamSleepsIdle'
    BY <1>1 DEF IInv, StreamsRelay, StreamSleepsIdle, NothingNew
  <2>3. EncoderSleeps'
    BY <1>1, <1>5 DEF IInv, EncoderSleeps
  <2> QED BY <2>1, <2>2, <2>3
<1> QED BY <1>6, <1>7, <1>8, <1>9, <1>10, <1>11, <1>12, <1>13 DEF IInv

LEMMA SensorDiesStep ==
  ASSUME IInv, NEW r \in Relays, SensorDies(r)
  PROVE  IInv'
<1>1. /\ live' = live \ {r} /\ listening' = listening \ {r} /\ draining' = draining \cup (listening \cap {r})
      /\ owner \notin {"destroy", "spawn", "listen"}
      /\ UNCHANGED <<world, frame, flags, encoding, lock, changer, stream>>
  BY DEF SensorDies, Unsubscribed
<1>2. OwnerTyped' /\ SetsTyped' /\ LockTyped' /\ ChangerTyped' /\ ImagesTyped' /\ EncoderTyped' /\ StreamTyped'
  BY <1>1 DEF IInv, OwnerTyped, SetsTyped, LockTyped, ChangerTyped, ImagesTyped, EncoderTyped, StreamTyped,
              world, flags, encoding
<1>3. OwnersRelay' /\ Unmade' /\ Closed' /\ Locked' /\ ChangersRelay'
  BY <1>1 DEF IInv, OwnersRelay, Unmade, Closed, Locked, ChangersRelay, EncoderGone, world, flags, encoding
<1>4. FlagsTell' /\ LetGoComplete' /\ Finished'
  BY <1>1 DEF IInv, FlagsTell, LetGoComplete, Finished, EncoderGone, world, flags, encoding
<1>5. /\ InHand' /\ InOrder'
      /\ StreamsRelay' /\ StreamBehind' /\ EncoderSleeps' /\ StreamSleepsIdle'
  BY <1>1 DEF IInv, InHand, InOrder, StreamsRelay, StreamBehind, Ahead, EncoderSleeps, StreamSleepsIdle,
              NothingNew, world, flags, encoding
<1> QED BY <1>2, <1>3, <1>4, <1>5 DEF IInv

-----------------------------------------------------------------------------
(* The encoder thread.                                                     *)
LEMMA EncoderLooksStep ==
  ASSUME IInv, NEW r \in Relays, EncoderLooks(r)
  PROVE  IInv'
<1>1. /\ encoder[r] = "ready"
      /\ UNCHANGED <<world, sensors, flags, failed, sequence, jpeg, lock, changer, stream>>
  BY DEF EncoderLooks
<1>2. /\ encoder' \in [Relays -> {"none", "ready", "asleep", "encoding", "exited"}]
      /\ pending' \in [Relays -> Frames] /\ inHand' \in [Relays -> Frames]
      /\ \A q \in Relays \ {r} : encoder'[q] = encoder[q] /\ pending'[q] = pending[q] /\ inHand'[q] = inHand[q]
  BY Basics DEF EncoderLooks, IInv, ImagesTyped, EncoderTyped, Taken, Frames, None
<1>3. \/ encoder'[r] = "exited" /\ pending'[r] = pending[r] /\ inHand'[r] = inHand[r]
      \/ /\ encoder'[r] = "asleep" /\ r \notin closed /\ pending[r] = None
         /\ pending'[r] = pending[r] /\ inHand'[r] = inHand[r]
      \/ /\ encoder'[r] = "encoding" /\ pending[r] # None
         /\ pending'[r] = None /\ inHand'[r] = pending[r]
  BY DEF EncoderLooks, IInv, ImagesTyped, EncoderTyped, Taken
<1>4. OwnerTyped' /\ SetsTyped' /\ LockTyped' /\ ChangerTyped' /\ ImagesTyped' /\ EncoderTyped' /\ StreamTyped'
  BY <1>1, <1>2 DEF IInv, OwnerTyped, SetsTyped, LockTyped, ChangerTyped, ImagesTyped, EncoderTyped, StreamTyped,
                    world, sensors, flags
<1>5. OwnersRelay' /\ Unmade' /\ Locked' /\ ChangersRelay'
  <2>1. r <= made
    BY <1>1, Basics DEF IInv, Unmade
  <2> QED BY <1>1, <1>2, <2>1, Basics DEF IInv, OwnersRelay, Unmade, Locked, ChangersRelay, world, sensors, flags
<1>6. Closed' /\ Finished'
  <2>1. owner = "drain" \/ owner = "listen" => current \in Relays /\ current # r
    BY <1>1, Basics DEF IInv, Closed, EncoderGone, Closing
  <2>2. r \notin complete
    BY <1>1 DEF IInv, Finished, EncoderGone
  <2>3. Closed'
    BY <1>1, <1>2, <2>1 DEF IInv, Closed, EncoderGone, world, sensors, flags
  <2>4. Finished'
    BY <1>1, <1>2, <2>2 DEF IInv, Finished, EncoderGone, SetsTyped, flags
  <2> QED BY <2>3, <2>4
<1>7. FlagsTell' /\ LetGoComplete'
  BY <1>1 DEF IInv, FlagsTell, LetGoComplete, world, sensors, flags
<1>8. InHand'
  BY <1>1, <1>2, <1>3, Basics DEF IInv, InHand
<1>9. InOrder'
  <2>1. inHand[r] = None
    BY <1>1 DEF IInv, InHand
  <2> QED BY <1>1, <1>2, <1>3, <2>1, Basics DEF IInv, InOrder, None, sensors
<1>10. StreamBehind'
  BY <1>1, <1>2, <1>3, Basics DEF IInv, StreamBehind, Ahead, sensors, flags
<1>11. StreamsRelay' /\ EncoderSleeps' /\ StreamSleepsIdle'
  BY <1>1, <1>2, <1>3 DEF IInv, StreamsRelay, EncoderSleeps, StreamSleepsIdle, NothingNew, world, flags
<1> QED BY <1>4, <1>5, <1>6, <1>7, <1>8, <1>9, <1>10, <1>11 DEF IInv

LEMMA EncoderPublishesStep ==
  ASSUME IInv, NEW r \in Relays, EncoderPublishes(r)
  PROVE  IInv'
<1>1. /\ encoder[r] = "encoding" /\ inHand[r] # None
      /\ UNCHANGED <<world, sensors, flags, pending, lock, changer>>
  BY DEF EncoderPublishes, IInv, InHand
<1>2. /\ encoder' \in [Relays -> {"none", "ready", "asleep", "encoding", "exited"}]
      /\ inHand' \in [Relays -> Frames] /\ inHand'[r] = None
      /\ \A q \in Relays \ {r} : encoder'[q] = encoder[q] /\ inHand'[q] = inHand[q]
  BY Basics DEF EncoderPublishes, IInv, ImagesTyped, EncoderTyped, Frames, None
<1>3. encoder'[r] = IF r \in closed THEN "exited" ELSE "ready"
  BY DEF EncoderPublishes, IInv, EncoderTyped
<1>4. \A q \in Relays \ {r} : sequence'[q] = sequence[q] /\ jpeg'[q] = jpeg[q] /\ (q \in failed' <=> q \in failed)
  BY DEF EncoderPublishes, IInv, ImagesTyped
<1>5. \/ sequence'[r] = sequence[r] /\ jpeg'[r] = jpeg[r]
      \/ r \notin closed /\ sequence'[r] = sequence[r] + 1 /\ jpeg'[r] = inHand[r]
  BY DEF EncoderPublishes, IInv, ImagesTyped
<1>6. /\ inHand[r] \in Frames /\ inHand[r] <= frame /\ jpeg[r] < inHand[r] /\ sequence[r] < jpeg[r]
      /\ frame <= MaxFrame /\ sequence[r] + 1 \in -1..MaxFrame
  <2>1. inHand[r] \in Frames /\ frame \in Frames /\ sequence[r] \in -1..MaxFrame /\ jpeg[r] \in Frames
    BY DEF IInv, ImagesTyped
  <2>2. inHand[r] <= frame /\ jpeg[r] < inHand[r] /\ sequence[r] < jpeg[r]
    BY <1>1 DEF IInv, InOrder
  <2> QED BY <2>1, <2>2, Basics DEF Frames
<1>7. /\ failed' \subseteq Relays /\ jpeg' \in [Relays -> Frames] /\ sequence' \in [Relays -> -1..MaxFrame]
      /\ stream' = stream \/ (r \notin closed /\ stream' = WakeStream(r))
  <2>1. CASE r \in closed
    BY <2>1 DEF EncoderPublishes, IInv, SetsTyped, ImagesTyped
  <2>2. CASE /\ r \notin closed
             /\ sequence' = [sequence EXCEPT ![r] = @ + 1] /\ jpeg' = [jpeg EXCEPT ![r] = inHand[r]]
             /\ failed' = failed \ {r}
    BY <1>6, <2>2 DEF EncoderPublishes, IInv, SetsTyped, ImagesTyped
  <2>3. CASE r \notin closed /\ failed' = failed \cup {r} /\ UNCHANGED <<sequence, jpeg>>
    BY <2>3 DEF EncoderPublishes, IInv, SetsTyped, ImagesTyped
  <2> QED BY <2>1, <2>2, <2>3 DEF EncoderPublishes
<1>8. /\ StreamTyped' /\ stream'.relay = stream.relay
      /\ stream'.after = stream.after /\ stream'.shown = stream.shown
      /\ stream'.at = stream.at \/ (stream'.at = "ready" /\ stream.at = "asleep")
      /\ stream'.at = "asleep" /\ stream.relay = r => UNCHANGED <<encoding, stream>> \/ r \in closed
  BY <1>7, WokenStream DEF IInv, StreamTyped, EncoderPublishes
<1>9. OwnerTyped' /\ SetsTyped' /\ LockTyped' /\ ChangerTyped' /\ ImagesTyped' /\ EncoderTyped'
  BY <1>1, <1>2, <1>7 DEF IInv, OwnerTyped, SetsTyped, LockTyped, ChangerTyped, ImagesTyped, EncoderTyped,
                          world, sensors, flags
<1>10. OwnersRelay' /\ Unmade' /\ Locked' /\ ChangersRelay'
  <2>1. r <= made
    BY <1>1, Basics DEF IInv, Unmade
  <2> QED BY <1>1, <1>2, <1>4, <2>1, Basics
          DEF IInv, OwnersRelay, Unmade, Locked, ChangersRelay, world, sensors, flags
<1>11. Closed' /\ Finished'
  <2>1. owner = "drain" \/ owner = "listen" => current \in Relays /\ current # r
    BY <1>1, Basics DEF IInv, Closed, EncoderGone, Closing
  <2>2. r \notin complete
    BY <1>1 DEF IInv, Finished, EncoderGone
  <2>3. Closed'
    BY <1>1, <1>2, <2>1 DEF IInv, Closed, EncoderGone, world, sensors, flags
  <2>4. Finished'
    BY <1>1, <1>2, <2>2 DEF IInv, Finished, EncoderGone, SetsTyped, flags
  <2> QED BY <2>3, <2>4
<1>12. FlagsTell' /\ LetGoComplete'
  BY <1>1 DEF IInv, FlagsTell, LetGoComplete, world, sensors, flags
<1>13. InHand' /\ EncoderSleeps'
  BY <1>1, <1>2, <1>3, Basics DEF IInv, InHand, EncoderSleeps, flags
<1>14. InOrder'
  BY <1>1, <1>2, <1>4, <1>5, <1>6, Basics DEF IInv, InOrder, None, sensors
<1>15. StreamsRelay' /\ StreamBehind'
  BY <1>1, <1>2, <1>4, <1>5, <1>8, Basics
     DEF IInv, StreamsRelay, StreamBehind, Ahead, world, sensors, flags
<1>16. StreamSleepsIdle'
  <2> SUFFICES ASSUME stream'.at = "asleep"
               PROVE  NothingNew(stream.relay)'
    BY DEF StreamSleepsIdle
  <2>1. NothingNew(stream.relay) /\ stream.relay \in Relays
    BY <1>8, Basics DEF IInv, StreamSleepsIdle, StreamsRelay
  <2>2. CASE stream.relay = r
    BY <1>1, <1>8, <2>1, <2>2 DEF NothingNew, flags, encoding
  <2>3. CASE stream.relay # r
    BY <1>1, <1>4, <1>8, <2>1, <2>3 DEF NothingNew, flags
  <2> QED BY <2>2, <2>3
<1> QED BY <1>8, <1>9, <1>10, <1>11, <1>12, <1>13, <1>14, <1>15, <1>16 DEF IInv

-----------------------------------------------------------------------------
(* The request that has the world lock.                                    *)
LEMMA BeginStep ==
  ASSUME IInv, BeginReplace \/ BeginStop
  PROVE  IInv'
<1>1. /\ owner = "idle"
      /\ UNCHANGED <<current, made, sensors, flags, encoding, lock, changer, stream>>
  BY DEF BeginReplace, BeginStop, WorldFree
<1>2. OwnerTyped' /\ OwnersRelay' /\ owner' \in {"close", "spawn"}
  BY <1>1, Basics DEF BeginReplace, BeginStop, IInv, OwnerTyped, OwnersRelay, Closing
<1>3. /\ SetsTyped' /\ LockTyped' /\ ChangerTyped' /\ ImagesTyped' /\ EncoderTyped' /\ StreamTyped'
      /\ Unmade' /\ ChangersRelay'
  BY <1>1 DEF IInv, SetsTyped, LockTyped, ChangerTyped, ImagesTyped, EncoderTyped, StreamTyped,
              Unmade, ChangersRelay, sensors, flags, encoding
<1>4. Closed' /\ Locked' /\ FlagsTell' /\ LetGoComplete' /\ Finished'
  BY <1>1, <1>2 DEF IInv, Closed, Locked, FlagsTell, LetGoComplete, Finished, EncoderGone, sensors, flags, encoding
<1>5. /\ InHand' /\ InOrder'
      /\ StreamsRelay' /\ StreamBehind' /\ EncoderSleeps' /\ StreamSleepsIdle'
  BY <1>1 DEF IInv, InHand, InOrder, StreamsRelay, StreamBehind, Ahead, EncoderSleeps, StreamSleepsIdle,
              NothingNew, sensors, flags, encoding
<1> QED BY <1>2, <1>3, <1>4, <1>5 DEF IInv

(* close() says that the relay is closed, and tells both who wait.         *)
LEMMA ClosesRelay ==
  ASSUME IInv, Close, current \notin complete
  PROVE  IInv'
<1>1. /\ owner = "close" /\ lock[current] \in {"free", "owner"} /\ owner' = "sensor"
      /\ current \in 1..made /\ current \in Relays
      /\ lock' = [lock EXCEPT ![current] = "owner"] /\ closed' = closed \cup {current}
      /\ pending' = [pending EXCEPT ![current] = None]
      /\ encoder' = WakeEncoder(current) /\ stream' = WakeStream(current)
      /\ UNCHANGED <<current, made, goal, sensors, paused, stopped, complete, failed, sequence, jpeg, inHand, changer>>
  BY Basics DEF Close, Closing
<1>2. /\ \A q \in Relays : pending'[q] = IF q = current THEN None ELSE pending[q]
      /\ \A q \in Relays : lock'[q] = IF q = current THEN "owner" ELSE lock[q]
      /\ \A q \in Relays : encoder'[q] = IF q = current /\ encoder[q] = "asleep" THEN "ready" ELSE encoder[q]
  BY <1>1, WokenEncoder DEF IInv, ImagesTyped, LockTyped
<1>3. /\ stream'.at = IF stream.at = "asleep" /\ stream.relay = current THEN "ready" ELSE stream.at
      /\ stream'.relay = stream.relay /\ stream'.after = stream.after /\ stream'.shown = stream.shown
      /\ StreamTyped'
  BY <1>1, WokenStream DEF IInv, StreamTyped
<1>4. OwnerTyped' /\ SetsTyped' /\ ChangerTyped'
  BY <1>1 DEF IInv, OwnerTyped, SetsTyped, ChangerTyped, sensors
<1>5. LockTyped' /\ ImagesTyped' /\ EncoderTyped'
  <2>1. None \in Frames
    BY Basics DEF Frames, None
  <2> QED BY <1>1, <2>1, WokenEncoder DEF IInv, LockTyped, ImagesTyped, EncoderTyped, sensors
<1>6. OwnersRelay' /\ Unmade'
  BY <1>1, <1>2, Basics DEF IInv, OwnersRelay, Unmade, Closing, sensors
<1>7. changer.at = "subscribe" => changer.relay # current
  BY <1>1 DEF IInv, Locked
<1>8. Closed' /\ Locked' /\ ChangersRelay'
  BY <1>1, <1>2, <1>7 DEF IInv, Closed, Locked, ChangersRelay
<1>9. FlagsTell' /\ LetGoComplete'
  BY <1>1, <1>2, <1>7 DEF IInv, FlagsTell, LetGoComplete, SetsTyped, Locked, sensors
<1>10. Finished' /\ InHand'
  BY <1>1, <1>2 DEF IInv, Finished, InHand, EncoderGone, SetsTyped
<1>11. InOrder'
  BY <1>1, <1>2, Basics DEF IInv, InOrder, None, sensors
<1>12. StreamsRelay' /\ StreamBehind' /\ EncoderSleeps' /\ StreamSleepsIdle'
  BY <1>1, <1>2, <1>3, Basics
     DEF IInv, StreamsRelay, StreamBehind, Ahead, EncoderSleeps, StreamSleepsIdle, NothingNew, sensors
<1> QED BY <1>3, <1>4, <1>5, <1>6, <1>8, <1>9, <1>10, <1>11, <1>12 DEF IInv

(* What the later places of close() leave alone.                           *)
LEMMA EncodingUntouched ==
  ASSUME IInv, UNCHANGED <<encoding, closed, changer, stream, frame, made>>
  PROVE  /\ ImagesTyped' /\ EncoderTyped' /\ StreamTyped' /\ ChangerTyped'
         /\ InHand' /\ InOrder'
         /\ StreamsRelay' /\ StreamBehind' /\ EncoderSleeps' /\ StreamSleepsIdle'
  BY DEF IInv, ImagesTyped, EncoderTyped, StreamTyped, ChangerTyped, InHand, InOrder, StreamsRelay, StreamBehind,
         Ahead, EncoderSleeps, StreamSleepsIdle, NothingNew, encoding

LEMMA CloseStep ==
  ASSUME IInv, Close
  PROVE  IInv'
<1>1. CASE current \notin complete
  BY <1>1, ClosesRelay
<1>2. CASE current \in complete
  <2>1. /\ owner = "close" /\ owner' = "destroy" /\ current \in 1..made /\ current \in Relays
        /\ lock' = [lock EXCEPT ![current] = "free"]
        /\ UNCHANGED <<current, made, goal, sensors, flags, encoding, changer, stream>>
    BY <1>2, Basics DEF Close, Closing, flags, encoding
  <2>2. \A q \in Relays : lock'[q] = lock[q]
    BY <2>1 DEF IInv, LockTyped, Locked, Close
  <2>3. OwnerTyped' /\ SetsTyped' /\ LockTyped'
    BY <2>1 DEF IInv, OwnerTyped, SetsTyped, LockTyped, sensors, flags, encoding
  <2>4. OwnersRelay' /\ Unmade'
    BY <2>1 DEF IInv, OwnersRelay, Unmade, Closing, sensors, flags, encoding
  <2>5. Closed' /\ Locked' /\ ChangersRelay'
    BY <1>2, <2>1, <2>2 DEF IInv, Closed, Locked, ChangersRelay, flags
  <2>6. FlagsTell' /\ LetGoComplete' /\ Finished'
    BY <2>1, <2>2 DEF IInv, FlagsTell, LetGoComplete, Finished, EncoderGone, SetsTyped, sensors, flags, encoding
  <2> QED BY <2>1, <2>3, <2>4, <2>5, <2>6, EncodingUntouched DEF IInv, sensors, flags
<1> QED BY <1>1, <1>2

(* A sensor that was not stopped delivers only while the relay is neither  *)
(* stopped nor paused, or while a pause is about to stop it.               *)
LEMMA StopSensorStep ==
  ASSUME IInv, StopSensor
  PROVE  IInv'
<1>1. /\ owner = "sensor" /\ current \in 1..made /\ current \in Relays
      /\ lock[current] = "owner" /\ current \in closed
      /\ UNCHANGED <<current, made, goal, live, frame, closed, paused, complete, encoding, changer, stream>>
  BY Basics DEF StopSensor, Closing, IInv, Locked, Closed
<1>2. /\ listening' \subseteq listening /\ listening \ {current} \subseteq listening'
      /\ draining' \subseteq draining \cup listening
      /\ current \notin listening => draining' = draining
      /\ \A q \in Relays \ {current} : q \in draining' <=> q \in draining
  BY DEF StopSensor, MustStopSensor, Unsubscribed, GiveUp
<1>3. \/ /\ stopped' = stopped \cup {current} /\ owner' = "join" /\ lock' = lock
         /\ current \notin listening'
      \/ /\ owner' = "idle" /\ stopped' = stopped
         /\ lock' = [lock EXCEPT ![current] = "free"]
  <2>1. current \in stopped \cup paused => current \notin listening
    BY <1>1 DEF IInv, FlagsTell
  <2> QED BY <2>1 DEF StopSensor, MustStopSensor, Unsubscribed, GiveUp
<1>4. current \notin complete \/ current \notin listening
  BY DEF IInv, FlagsTell
<1>5. /\ \A q \in Relays \ {current} : lock'[q] = lock[q]
      /\ lock'[current] = IF owner' = "join" THEN "owner" ELSE "free"
      /\ lock' \in [Relays -> {"free", "owner", "changer"}]
  BY <1>1, <1>3 DEF IInv, LockTyped
<1>6. OwnerTyped' /\ SetsTyped' /\ LockTyped'
  BY <1>1, <1>2, <1>3, <1>5 DEF IInv, OwnerTyped, SetsTyped, LockTyped, encoding
<1>7. OwnersRelay' /\ Unmade'
  BY <1>1, <1>2, <1>3, Basics DEF IInv, OwnersRelay, Unmade, Closing, encoding
<1>8. Closed' /\ Locked' /\ ChangersRelay'
  BY <1>1, <1>3, <1>5 DEF IInv, Closed, Locked, ChangersRelay
<1>9. FlagsTell' /\ LetGoComplete' /\ Finished'
  <2>1. \A q \in paused \cap listening' : q \in Relays /\ q # current /\ lock'[q] = "changer" /\ changer'.to = "pause"
    BY <1>1, <1>2, <1>5 DEF IInv, FlagsTell, SetsTyped
  <2>2. complete \cap draining' = {}
    BY <1>2, <1>4 DEF IInv, FlagsTell, SetsTyped
  <2>3. FlagsTell'
    BY <1>1, <1>2, <1>3, <2>1, <2>2 DEF IInv, FlagsTell, SetsTyped
  <2> QED BY <1>1, <2>3 DEF IInv, LetGoComplete, Finished, EncoderGone, encoding
<1> QED BY <1>1, <1>6, <1>7, <1>8, <1>9, EncodingUntouched DEF IInv

LEMMA JoinEncoderStep ==
  ASSUME IInv, JoinEncoder
  PROVE  IInv'
<1>1. /\ owner = "join" /\ current \in 1..made /\ current \in Relays /\ lock[current] = "owner"
      /\ UNCHANGED <<current, made, goal, sensors, flags, encoding, changer, stream>>
  BY Basics DEF JoinEncoder, Closing, IInv, Locked
<1>2. \/ owner' = "drain" /\ EncoderGone(current) /\ lock' = lock
      \/ owner' = "idle" /\ lock' = [lock EXCEPT ![current] = "free"]
  BY DEF JoinEncoder, GiveUp
<1>3. /\ \A q \in Relays \ {current} : lock'[q] = lock[q]
      /\ lock'[current] = IF owner' = "drain" THEN "owner" ELSE "free"
      /\ lock' \in [Relays -> {"free", "owner", "changer"}]
  BY <1>1, <1>2 DEF IInv, LockTyped
<1>4. OwnerTyped' /\ SetsTyped' /\ LockTyped'
  BY <1>1, <1>2, <1>3 DEF IInv, OwnerTyped, SetsTyped, LockTyped, sensors, flags, encoding
<1>5. OwnersRelay' /\ Unmade'
  BY <1>1, <1>2 DEF IInv, OwnersRelay, Unmade, Closing, sensors, flags, encoding
<1>6. Closed' /\ Locked' /\ ChangersRelay'
  BY <1>1, <1>2, <1>3 DEF IInv, Closed, Locked, ChangersRelay, EncoderGone, flags, encoding
<1>7. FlagsTell' /\ LetGoComplete' /\ Finished'
  <2>1. \A q \in paused \cap listening : q \in Relays /\ q # current
    BY <1>1 DEF IInv, FlagsTell, SetsTyped
  <2> QED BY <1>1, <1>3, <2>1 DEF IInv, FlagsTell, LetGoComplete, Finished, EncoderGone, sensors, flags, encoding
<1> QED BY <1>1, <1>4, <1>5, <1>6, <1>7, EncodingUntouched DEF IInv, sensors, flags

LEMMA DrainStep ==
  ASSUME IInv, Drain
  PROVE  IInv'
<1>1. /\ owner = "drain" /\ owner' = "destroy" /\ current \in 1..made /\ current \in Relays
      /\ current \in stopped /\ EncoderGone(current) /\ lock[current] = "owner"
      /\ draining' = draining \ {current} /\ complete' = complete \cup {current}
      /\ lock' = [lock EXCEPT ![current] = "free"]
      /\ UNCHANGED <<current, made, goal, live, listening, frame, closed, paused, stopped, encoding, changer, stream>>
  BY Basics DEF Drain, Closing, IInv, Locked, Closed
<1>2. /\ \A q \in Relays \ {current} : lock'[q] = lock[q]
      /\ lock'[current] = "free" /\ lock' \in [Relays -> {"free", "owner", "changer"}]
  BY <1>1 DEF IInv, LockTyped
<1>3. OwnerTyped' /\ SetsTyped' /\ LockTyped'
  BY <1>1, <1>2 DEF IInv, OwnerTyped, SetsTyped, LockTyped, encoding
<1>4. OwnersRelay' /\ Unmade'
  BY <1>1 DEF IInv, OwnersRelay, Unmade, Closing, encoding
<1>5. Closed' /\ Locked' /\ ChangersRelay'
  BY <1>1, <1>2 DEF IInv, Closed, Locked, ChangersRelay
<1>6. FlagsTell' /\ LetGoComplete' /\ Finished'
  <2>1. \A q \in paused \cap listening : q \in Relays /\ q # current
    BY <1>1 DEF IInv, FlagsTell, SetsTyped
  <2>2. FlagsTell'
    BY <1>1, <1>2, <2>1 DEF IInv, FlagsTell
  <2>3. LetGoComplete' /\ Finished'
    BY <1>1 DEF IInv, LetGoComplete, Finished, EncoderGone, encoding
  <2> QED BY <2>2, <2>3
<1> QED BY <1>1, <1>3, <1>4, <1>5, <1>6, EncodingUntouched DEF IInv

LEMMA DestroySensorStep ==
  ASSUME IInv, DestroySensor
  PROVE  IInv'
<1>1. /\ owner = "destroy" /\ owner' \in {"spawn", "idle"} /\ current \in 1..made /\ current \in complete
      /\ current' \in {current, None} /\ live \ {current} \subseteq live' /\ live' \subseteq live
      /\ owner' = "spawn" => current' = None /\ goal = "replace"
      /\ UNCHANGED <<made, goal, listening, draining, frame, flags, encoding, lock, changer, stream>>
  BY Basics DEF DestroySensor, Closing, IInv, Closed
<1>2. current \notin listening \cup draining
  BY <1>1 DEF IInv, FlagsTell
<1>3. OwnerTyped' /\ SetsTyped' /\ LockTyped'
  BY <1>1 DEF IInv, OwnerTyped, SetsTyped, LockTyped, flags, encoding
<1>4. OwnersRelay' /\ Unmade'
  BY <1>1 DEF IInv, OwnersRelay, Unmade, Closing, flags, encoding
<1>5. Closed' /\ Locked' /\ ChangersRelay'
  BY <1>1 DEF IInv, Closed, Locked, ChangersRelay, flags
<1>6. FlagsTell' /\ LetGoComplete' /\ Finished'
  <2>1. FlagsTell'
    BY <1>1, <1>2 DEF IInv, FlagsTell, flags
  <2>2. LetGoComplete' /\ Finished'
    BY <1>1 DEF IInv, LetGoComplete, Finished, EncoderGone, flags, encoding
  <2> QED BY <2>1, <2>2
<1> QED BY <1>1, <1>3, <1>4, <1>5, <1>6, EncodingUntouched DEF IInv, flags

LEMMA SpawnSensorStep ==
  ASSUME IInv, SpawnSensor
  PROVE  IInv'
<1>1. /\ owner = "spawn" /\ current = None /\ made < MaxRelays
      /\ UNCHANGED <<goal, listening, draining, frame, flags, encoding, lock, changer, stream>>
  BY DEF SpawnSensor, IInv, OwnersRelay
<1>2. CASE owner' = "idle" /\ UNCHANGED <<made, current, live>>
  <2>1. OwnerTyped' /\ SetsTyped' /\ LockTyped' /\ OwnersRelay' /\ Unmade'
    BY <1>1, <1>2 DEF IInv, OwnerTyped, SetsTyped, LockTyped, OwnersRelay, Unmade, Closing, flags, encoding
  <2>2. Closed' /\ Locked' /\ ChangersRelay' /\ FlagsTell' /\ LetGoComplete' /\ Finished'
    BY <1>1, <1>2 DEF IInv, Closed, Locked, ChangersRelay, FlagsTell, LetGoComplete, Finished, EncoderGone,
                      flags, encoding
  <2> QED BY <1>1, <1>2, <2>1, <2>2, EncodingUntouched DEF IInv, flags
<1>3. CASE /\ made' = made + 1 /\ current' = made + 1 /\ live' = live \cup {made + 1}
           /\ owner' = "listen"
  <2>1. made + 1 \in Relays /\ made + 1 # None /\ made + 1 \in 1..made' /\ made' \in 0..MaxRelays
        /\ made \in Nat /\ \A q \in 1..made' : q = made + 1 \/ q \in 1..made
    BY <1>1, <1>3, Basics DEF Relays, None
  <2>2. /\ encoder[made + 1] = "none"
        /\ made + 1 \notin listening \cup draining \cup closed \cup paused
    BY <2>1 DEF IInv, Unmade
  <2>3. changer.relay # made + 1
    BY <2>1 DEF IInv, ChangersRelay
  <2>4. OwnerTyped' /\ SetsTyped' /\ LockTyped'
    BY <1>1, <1>3, <2>1 DEF IInv, OwnerTyped, SetsTyped, LockTyped, flags, encoding
  <2>5. OwnersRelay' /\ Unmade'
    BY <1>1, <1>3, <2>1, Basics DEF IInv, OwnersRelay, Unmade, Closing, flags, encoding
  <2>6. ChangersRelay' /\ Locked'
    BY <1>1, <1>3, <2>1 DEF IInv, ChangersRelay, Locked, flags
  <2>7. Closed'
    BY <1>1, <1>3, <2>1, <2>2, <2>3 DEF IInv, Closed, flags, encoding
  <2>8. LetGoComplete'
    BY <1>1, <1>3, <2>1 DEF IInv, LetGoComplete, None, flags
  <2>9. FlagsTell' /\ Finished'
    BY <1>1, <1>3 DEF IInv, FlagsTell, Finished, EncoderGone, flags, encoding
  <2>10. ImagesTyped' /\ EncoderTyped' /\ StreamTyped' /\ ChangerTyped' /\ InHand' /\ InOrder'
    BY <1>1 DEF IInv, ImagesTyped, EncoderTyped, StreamTyped, ChangerTyped, InHand, InOrder, encoding
  <2>11. StreamsRelay' /\ StreamBehind' /\ EncoderSleeps' /\ StreamSleepsIdle'
    BY <1>1, <1>3, <2>1 DEF IInv, StreamsRelay, StreamBehind, Ahead, EncoderSleeps, StreamSleepsIdle, NothingNew,
                            flags, encoding
  <2> QED BY <2>4, <2>5, <2>6, <2>7, <2>8, <2>9, <2>10, <2>11 DEF IInv
<1> QED BY <1>2, <1>3 DEF SpawnSensor

LEMMA ListenStep ==
  ASSUME IInv, Listen
  PROVE  IInv'
<1>1. /\ owner = "listen" /\ current \in 1..made /\ current \in Relays /\ current # None
      /\ current \in live /\ current \notin closed \cup paused /\ encoder[current] = "none"
      /\ encoder' = [encoder EXCEPT ![current] = "ready"]
      /\ UNCHANGED <<current, made, live, draining, frame, flags, failed, pending, sequence, jpeg, inHand,
                     lock, changer, stream>>
  BY Basics DEF Listen, IInv, Closed
<1>2. \/ listening' = listening \cup {current} /\ owner' = "idle" /\ goal' = goal
      \/ goal' = "abandon" /\ owner' = "close" /\ listening' = listening
  BY DEF Listen
<1>3. \A q \in Relays : encoder'[q] = IF q = current THEN "ready" ELSE encoder[q]
  BY <1>1 DEF IInv, EncoderTyped
<1>4. /\ OwnerTyped' /\ SetsTyped' /\ LockTyped' /\ ChangerTyped' /\ ImagesTyped' /\ EncoderTyped' /\ StreamTyped'
  BY <1>1, <1>2, ZenonT(30) DEF IInv, OwnerTyped, SetsTyped, LockTyped, ChangerTyped, ImagesTyped, EncoderTyped, StreamTyped, flags
<1>5. OwnersRelay' /\ Unmade'
  BY <1>1, <1>2, <1>3, Basics DEF IInv, OwnersRelay, Unmade, Closing, flags
<1>6. Closed' /\ Locked' /\ ChangersRelay'
  BY <1>1, <1>2 DEF IInv, Closed, Locked, ChangersRelay, flags
<1>7. FlagsTell' /\ LetGoComplete' /\ Finished'
  BY <1>1, <1>2, <1>3, ZenonT(30) DEF IInv, FlagsTell, LetGoComplete, Finished, EncoderGone, SetsTyped, flags
<1>8. /\ InHand' /\ InOrder'
      /\ StreamsRelay' /\ StreamBehind' /\ EncoderSleeps' /\ StreamSleepsIdle'
  BY <1>1, <1>3 DEF IInv, InHand, InOrder, StreamsRelay, StreamBehind, Ahead, EncoderSleeps, StreamSleepsIdle,
                    NothingNew, flags
<1> QED BY <1>4, <1>5, <1>6, <1>7, <1>8 DEF IInv

-----------------------------------------------------------------------------
(* The request to pause or to resume.                                      *)
LEMMA LookUpStep ==
  ASSUME IInv, NEW to \in {"pause", "resume"}, LookUp(to)
  PROVE  IInv'
<1>1. /\ changer.at = "idle" /\ owner = "idle" /\ current \in 1..made /\ current \in Relays
      /\ changer' = [at |-> "enter", relay |-> current, to |-> to]
      /\ UNCHANGED <<world, sensors, flags, encoding, lock, stream>>
  BY Basics DEF LookUp, WorldFree, IInv, OwnersRelay
<1>2. OwnerTyped' /\ SetsTyped' /\ LockTyped' /\ ChangerTyped' /\ ImagesTyped' /\ EncoderTyped' /\ StreamTyped'
  BY <1>1 DEF IInv, OwnerTyped, SetsTyped, LockTyped, ChangerTyped, ImagesTyped, EncoderTyped, StreamTyped,
              world, sensors, flags, encoding
<1>3. OwnersRelay' /\ Unmade' /\ Closed' /\ Locked' /\ ChangersRelay'
  BY <1>1 DEF IInv, OwnersRelay, Unmade, Closed, Locked, ChangersRelay, EncoderGone, world, sensors, flags, encoding
<1>4. FlagsTell' /\ LetGoComplete' /\ Finished'
  <2>1. \A q \in paused \cap listening : FALSE
    BY <1>1 DEF IInv, FlagsTell, Locked, SetsTyped
  <2> QED BY <1>1, <2>1 DEF IInv, FlagsTell, LetGoComplete, Finished, EncoderGone, world, sensors, flags, encoding
<1>5. /\ InHand' /\ InOrder'
      /\ StreamsRelay' /\ StreamBehind' /\ EncoderSleeps' /\ StreamSleepsIdle'
  BY <1>1 DEF IInv, InHand, InOrder, StreamsRelay, StreamBehind, Ahead, EncoderSleeps, StreamSleepsIdle,
              NothingNew, world, sensors, flags, encoding
<1> QED BY <1>2, <1>3, <1>4, <1>5 DEF IInv

(* It takes the lifecycle lock only of a relay that is not closed.         *)
LEMMA EnterChangeStep ==
  ASSUME IInv, EnterChange
  PROVE  IInv'
<1> DEFINE r == changer.relay
<1>1. /\ changer.at = "enter" /\ r \in 1..made /\ r \in Relays /\ lock[r] = "free"
      /\ changer.to \in {"pause", "resume"}
      /\ UNCHANGED <<world, sensors, closed, stopped, complete, failed, sequence, jpeg, encoder, inHand, stream>>
  BY Basics DEF EnterChange, IInv, ChangersRelay, ChangerTyped
<1>2. /\ ChangerTyped'
      /\ \/ changer' = [at |-> "idle", relay |-> None, to |-> "pause"]
         \/ changer'.relay = r /\ changer'.at # "idle" /\ changer'.to = changer.to
  BY <1>1 DEF EnterChange, Leave, IInv, ChangerTyped
<1>3. \/ changer'.at \in {"idle", "check"} /\ UNCHANGED <<lock, paused, pending>>
      \/ /\ changer'.at = "subscribe" /\ r \notin closed
         /\ lock' = [lock EXCEPT ![r] = "changer"]
         /\ paused' = IF changer.to = "pause" THEN paused \cup {r} ELSE paused
         /\ pending' \in {pending, [pending EXCEPT ![r] = None]}
  BY <1>1 DEF EnterChange, Leave, IInv, ChangerTyped
<1>4. /\ \A q \in Relays : pending'[q] = pending[q] \/ pending'[q] = None
      /\ pending' \in [Relays -> Frames]
  BY <1>1, <1>3, Basics DEF IInv, ImagesTyped, Frames, None
<1>5. /\ \A q \in Relays : lock'[q] = IF q = r /\ changer'.at = "subscribe" THEN "changer" ELSE lock[q]
      /\ LockTyped'
  BY <1>1, <1>3 DEF IInv, LockTyped
<1>6. OwnerTyped' /\ SetsTyped' /\ ImagesTyped' /\ EncoderTyped' /\ StreamTyped'
  BY <1>1, <1>3, <1>4 DEF IInv, OwnerTyped, SetsTyped, ImagesTyped, EncoderTyped, StreamTyped, world, sensors
<1>7. OwnersRelay' /\ Unmade'
  BY <1>1, <1>3, <1>4, Basics DEF IInv, OwnersRelay, Unmade, None, world, sensors
<1>8. Closed' /\ Locked' /\ ChangersRelay'
  <2>1. Closed'
    <3>1. owner = "listen" => r # current /\ current # None
      BY <1>1 DEF IInv, Closed, OwnersRelay
    <3> QED BY <1>1, <1>2, <1>3, <3>1 DEF IInv, Closed, EncoderGone, world, sensors
  <2>2. Locked'
    BY <1>1, <1>2, <1>3, <1>5 DEF IInv, Locked, world
  <2>3. ChangersRelay'
    <3>1. made' = made /\ closed' = closed
      BY <1>1 DEF world
    <3>2. changer'.relay \in IF changer'.at = "idle" THEN {None} ELSE 1..made
      <4>1. CASE changer' = [at |-> "idle", relay |-> None, to |-> "pause"]
        BY <4>1
      <4>2. CASE changer'.relay = r /\ changer'.at # "idle"
        BY <1>1, <4>2
      <4> QED BY <1>2, <4>1, <4>2
    <3>3. changer'.at = "subscribe" => changer'.relay = r /\ r \notin closed
      BY <1>2, <1>3
    <3> QED BY <3>1, <3>2, <3>3 DEF ChangersRelay
  <2> QED BY <2>1, <2>2, <2>3
<1>9. FlagsTell' /\ LetGoComplete' /\ Finished'
  <2>1. paused \cap listening = {}
    BY <1>1 DEF IInv, FlagsTell, Locked, SetsTyped
  <2>2. \A q \in paused' \cap listening' : lock'[q] = "changer" /\ changer'.to = "pause"
    BY <1>1, <1>2, <1>3, <1>5, <2>1 DEF sensors
  <2>3. FlagsTell'
    BY <1>1, <2>2 DEF IInv, FlagsTell, sensors
  <2> QED BY <1>1, <2>3 DEF IInv, LetGoComplete, Finished, EncoderGone, world
<1>10. InHand' /\ InOrder'
  BY <1>1, <1>4, Basics DEF IInv, InHand, InOrder, None, sensors
<1>11. StreamsRelay' /\ StreamBehind' /\ EncoderSleeps' /\ StreamSleepsIdle'
  BY <1>1, <1>4 DEF IInv, StreamsRelay, StreamBehind, Ahead, EncoderSleeps, StreamSleepsIdle, NothingNew, world, sensors
<1> QED BY <1>2, <1>5, <1>6, <1>7, <1>8, <1>9, <1>10, <1>11 DEF IInv

(* With the lock it changes the subscription, and then gives the lock back. *)
LEMMA SubscribeStep ==
  ASSUME IInv, Subscribe
  PROVE  IInv'
<1> DEFINE r == changer.relay
<1>1. /\ changer.at = "subscribe" /\ r \in 1..made /\ r \in Relays /\ lock[r] = "changer"
      /\ r \notin closed /\ changer.to \in {"pause", "resume"}
      /\ lock' = [lock EXCEPT ![r] = "free"]
      /\ UNCHANGED <<world, live, frame, closed, stopped, complete, encoding, stream>>
  BY Basics DEF Subscribe, Unlocked, IInv, ChangersRelay, ChangerTyped, Locked
<1>2. /\ ChangerTyped'
      /\ \/ changer' = [at |-> "idle", relay |-> None, to |-> "pause"]
         \/ changer'.relay = r /\ changer'.at = "check"
  BY <1>1 DEF Subscribe, Leave, IInv, ChangerTyped
<1>3. /\ paused' \subseteq paused /\ paused \ {r} \subseteq paused'
      /\ listening' \subseteq listening \cup ({r} \cap live) /\ listening \ {r} \subseteq listening'
      /\ draining' \subseteq draining \cup listening /\ draining \subseteq draining'
      /\ \A q \in Relays \ {r} : q \in draining' <=> q \in draining
      /\ r \in paused' \cap listening' => changer.to = "resume" /\ r \in paused \cap listening
  BY <1>1 DEF Subscribe, Unsubscribed, Leave
<1>4. /\ \A q \in Relays : lock'[q] = IF q = r THEN "free" ELSE lock[q]
      /\ LockTyped'
  BY <1>1 DEF IInv, LockTyped
<1>5. OwnerTyped' /\ SetsTyped' /\ ImagesTyped' /\ EncoderTyped' /\ StreamTyped'
  BY <1>1, <1>3 DEF IInv, OwnerTyped, SetsTyped, ImagesTyped, EncoderTyped, StreamTyped, world, encoding
<1>6. OwnersRelay' /\ Unmade'
  BY <1>1, <1>3, Basics DEF IInv, OwnersRelay, Unmade, world, encoding
<1>7. Closed' /\ Locked' /\ ChangersRelay'
  <2>1. Closed'
    BY <1>1, <1>2, <1>3 DEF IInv, Closed, OwnersRelay, EncoderGone, world, encoding
  <2>2. Locked'
    BY <1>1, <1>2, <1>4 DEF IInv, Locked, world
  <2>3. ChangersRelay'
    <3>1. made' = made /\ changer'.at # "subscribe"
      BY <1>1, <1>2 DEF world
    <3>2. changer'.relay \in IF changer'.at = "idle" THEN {None} ELSE 1..made
      <4>1. CASE changer' = [at |-> "idle", relay |-> None, to |-> "pause"]
        BY <4>1
      <4>2. CASE changer'.relay = r /\ changer'.at # "idle"
        BY <1>1, <4>2
      <4> QED BY <1>2, <4>1, <4>2
    <3> QED BY <3>1, <3>2 DEF ChangersRelay
  <2> QED BY <2>1, <2>2, <2>3
<1>8. FlagsTell'
  <2>1. r \notin stopped /\ r \notin complete /\ (r \in paused \cap listening => changer.to = "pause")
    BY <1>1 DEF IInv, FlagsTell
  <2>2. \A q \in paused' \cap listening' : q \in Relays /\ q # r /\ q \in paused \cap listening
    BY <1>1, <1>3, <2>1 DEF IInv, SetsTyped
  <2>3. \A q \in paused' \cap listening' : FALSE
    BY <1>1, <2>2 DEF IInv, FlagsTell, Locked
  <2>4. stopped \cap listening' = {} /\ complete \cap draining' = {}
    BY <1>1, <1>3, <2>1 DEF IInv, FlagsTell, SetsTyped
  <2> QED BY <1>1, <2>3, <2>4 DEF IInv, FlagsTell
<1>9. LetGoComplete' /\ Finished'
  BY <1>1 DEF IInv, LetGoComplete, Finished, EncoderGone, world, encoding
<1>10. /\ InHand' /\ InOrder'
       /\ StreamsRelay' /\ StreamBehind' /\ EncoderSleeps' /\ StreamSleepsIdle'
  BY <1>1 DEF IInv, InHand, InOrder, StreamsRelay, StreamBehind, Ahead, EncoderSleeps, StreamSleepsIdle,
              NothingNew, world, encoding
<1> QED BY <1>2, <1>4, <1>5, <1>6, <1>7, <1>8, <1>9, <1>10 DEF IInv

LEMMA CheckChangeStep ==
  ASSUME IInv, CheckChange
  PROVE  IInv'
<1>1. /\ owner = "idle" /\ changer.at = "check"
      /\ changer' = [at |-> "idle", relay |-> None, to |-> "pause"]
      /\ UNCHANGED <<world, sensors, flags, encoding, lock, stream>>
  BY DEF CheckChange, Leave, WorldFree
<1>2. OwnerTyped' /\ SetsTyped' /\ LockTyped' /\ ChangerTyped' /\ ImagesTyped' /\ EncoderTyped' /\ StreamTyped'
  BY <1>1 DEF IInv, OwnerTyped, SetsTyped, LockTyped, ChangerTyped, ImagesTyped, EncoderTyped, StreamTyped,
              world, sensors, flags, encoding
<1>3. OwnersRelay' /\ Unmade' /\ Closed' /\ Locked' /\ ChangersRelay'
  BY <1>1 DEF IInv, OwnersRelay, Unmade, Closed, Locked, ChangersRelay, EncoderGone, world, sensors, flags, encoding
<1>4. FlagsTell' /\ LetGoComplete' /\ Finished'
  <2>1. \A q \in paused \cap listening : FALSE
    BY <1>1 DEF IInv, FlagsTell, Locked, SetsTyped
  <2> QED BY <1>1, <2>1 DEF IInv, FlagsTell, LetGoComplete, Finished, EncoderGone, world, sensors, flags, encoding
<1>5. /\ InHand' /\ InOrder'
      /\ StreamsRelay' /\ StreamBehind' /\ EncoderSleeps' /\ StreamSleepsIdle'
  BY <1>1 DEF IInv, InHand, InOrder, StreamsRelay, StreamBehind, Ahead, EncoderSleeps, StreamSleepsIdle,
              NothingNew, world, sensors, flags, encoding
<1> QED BY <1>2, <1>3, <1>4, <1>5 DEF IInv

-----------------------------------------------------------------------------
(* The stream.  It disturbs what is said of the stream only.               *)
LEMMA StreamAlone ==
  ASSUME IInv, UNCHANGED <<world, sensors, flags, encoding, lock, changer>>,
         StreamTyped', StreamsRelay', StreamBehind', StreamSleepsIdle'
  PROVE  IInv'
<1>1. OwnerTyped' /\ SetsTyped' /\ LockTyped' /\ ChangerTyped' /\ ImagesTyped' /\ EncoderTyped'
  BY DEF IInv, OwnerTyped, SetsTyped, LockTyped, ChangerTyped, ImagesTyped, EncoderTyped,
         world, sensors, flags, encoding
<1>2. OwnersRelay' /\ Unmade' /\ Closed' /\ Locked' /\ ChangersRelay'
  BY DEF IInv, OwnersRelay, Unmade, Closed, Locked, ChangersRelay, EncoderGone, world, sensors, flags, encoding
<1>3. FlagsTell' /\ LetGoComplete' /\ Finished' /\ InHand' /\ InOrder' /\ EncoderSleeps'
  BY DEF IInv, FlagsTell, LetGoComplete, Finished, InHand, InOrder, EncoderSleeps, EncoderGone,
         world, sensors, flags, encoding
<1> QED BY <1>1, <1>2, <1>3 DEF IInv

(* At its start nothing was shown, and an image that is published is one.  *)
LEMMA OpenStreamStep ==
  ASSUME IInv, OpenStream
  PROVE  IInv'
<1>1. /\ stream' = [at |-> "fetch", relay |-> None, after |-> -1, shown |-> None, source |-> None]
      /\ UNCHANGED <<world, sensors, flags, encoding, lock, changer>>
  BY DEF OpenStream
<1>2. StreamTyped' /\ StreamsRelay' /\ StreamSleepsIdle'
  <2>1. None \in Frames /\ -1 \in -1..MaxFrame
    BY Basics DEF None, Frames
  <2> QED BY <1>1, <2>1 DEF StreamTyped, StreamsRelay, StreamSleepsIdle
<1>3. StreamBehind'
  BY <1>1, Basics DEF IInv, StreamBehind, Ahead, InOrder, None, sensors, flags, encoding
<1> QED BY <1>1, <1>2, <1>3, StreamAlone

(* The steps that show nothing.                                            *)
LEMMA StreamWaitsStep ==
  ASSUME IInv, Fetch \/ StreamSleeps \/ StreamTimesOut \/ StreamWrites
  PROVE  IInv'
<1>1. UNCHANGED <<world, sensors, flags, encoding, lock, changer>>
  BY DEF Fetch, StreamSleeps, StreamTimesOut, StreamWrites
<1>2. /\ StreamTyped' /\ stream'.after = stream.after /\ stream'.shown = stream.shown
      /\ StreamsRelay'
  BY <1>1, Basics DEF Fetch, StreamSleeps, StreamTimesOut, StreamWrites, IInv, StreamTyped, StreamsRelay,
                      OwnersRelay, OwnerTyped, world
<1>3. stream'.at = "asleep" => stream'.relay = stream.relay /\ NothingNew(stream.relay)
  BY DEF Fetch, StreamSleeps, StreamTimesOut, StreamWrites, IInv, StreamTyped
<1>4. StreamBehind' /\ StreamSleepsIdle'
  BY <1>1, <1>2, <1>3 DEF IInv, StreamBehind, Ahead, StreamSleepsIdle, NothingNew, sensors, flags, encoding
<1> QED BY <1>1, <1>2, <1>4, StreamAlone

(* Only the relay of the scene is open, so what it publishes is what the   *)
(* stream is compared with.                                                *)
LEMMA StreamShows ==
  ASSUME IInv, StreamWakes, stream'.at # "off"
  PROVE  /\ stream.relay \in Relays /\ stream.relay \notin closed
         /\ stream' = [at |-> "writing", relay |-> None, after |-> sequence[stream.relay],
                       shown |-> jpeg[stream.relay], source |-> stream.relay]
         /\ jpeg[stream.relay] > stream.shown
<1> DEFINE r == stream.relay
<1>1. r \in Relays /\ stream.at = "ready"
  BY Basics DEF StreamWakes, IInv, StreamsRelay
<1>2. /\ r \notin closed /\ r \notin failed /\ ~(sequence[r] <= stream.after)
      /\ stream' = [at |-> "writing", relay |-> None, after |-> sequence[r], shown |-> jpeg[r], source |-> r]
  BY <1>1 DEF StreamWakes, NothingNew, NothingToShow, IInv, StreamTyped
<1>3. sequence[r] > stream.after
  BY <1>1, <1>2, Basics
<1> QED BY <1>1, <1>2, <1>3 DEF IInv, StreamBehind, Ahead

LEMMA StreamWakesStep ==
  ASSUME IInv, StreamWakes
  PROVE  IInv'
<1>1. UNCHANGED <<world, sensors, flags, encoding, lock, changer>>
  BY DEF StreamWakes
<1>2. CASE stream'.at = "off"
  <2>1. StreamTyped' /\ stream'.after = stream.after /\ stream'.shown = stream.shown
    BY <1>2 DEF StreamWakes, IInv, StreamTyped
  <2>2. StreamsRelay' /\ StreamSleepsIdle' /\ StreamBehind'
    BY <1>1, <1>2, <2>1 DEF IInv, StreamsRelay, StreamSleepsIdle, StreamBehind, Ahead, sensors, flags, encoding
  <2> QED BY <1>1, <2>1, <2>2, StreamAlone
<1>3. CASE stream'.at # "off"
  <2> DEFINE r == stream.relay
  <2>1. /\ r \in Relays /\ r \notin closed /\ r \in 1..made /\ r = current
        /\ stream' = [at |-> "writing", relay |-> None, after |-> sequence[r], shown |-> jpeg[r], source |-> r]
    BY <1>3, StreamShows DEF IInv, LetGoComplete, FlagsTell, StreamsRelay, StreamWakes
  <2>2. StreamTyped' /\ StreamsRelay' /\ StreamSleepsIdle'
    BY <2>1 DEF IInv, ImagesTyped, StreamTyped, StreamsRelay, StreamSleepsIdle
  <2>3. \A q \in Relays \ closed : q # r => sequence[q] = -1 /\ inHand[q] = None /\ pending[q] = None
    <3> SUFFICES ASSUME NEW q \in Relays, q \notin closed, q # r
                 PROVE  sequence[q] = -1 /\ inHand[q] = None /\ pending[q] = None
      OBVIOUS
    <3>1. q \notin 1..made
      BY <2>1 DEF IInv, LetGoComplete, FlagsTell
    <3>2. q > made
      BY <3>1, Basics DEF None
    <3> QED BY <3>2 DEF IInv, Unmade, InHand
  <2>4. /\ jpeg[r] <= frame /\ sequence[r] >= -1
        /\ inHand[r] # None => inHand[r] > jpeg[r]
        /\ pending[r] # None => pending[r] > jpeg[r]
    BY <2>1, Basics DEF IInv, InOrder, ImagesTyped
  <2>5. StreamBehind'
    BY <1>1, <2>1, <2>3, <2>4, Basics DEF StreamBehind, Ahead, sensors, flags, encoding
  <2> QED BY <1>1, <2>2, <2>5, StreamAlone
<1> QED BY <1>2, <1>3

-----------------------------------------------------------------------------
LEMMA Initially == Init => IInv
<1> SUFFICES ASSUME Init
             PROVE  IInv
  OBVIOUS
<1>1. 0 \in Frames /\ -1 \in -1..MaxFrame /\ MaxRelays \in Nat
  BY BoundsAssumption DEF Frames
<1>2. OwnerTyped /\ SetsTyped /\ LockTyped /\ ChangerTyped /\ ImagesTyped /\ EncoderTyped /\ StreamTyped
  BY <1>1 DEF Init, OwnerTyped, SetsTyped, LockTyped, ChangerTyped, ImagesTyped, EncoderTyped, StreamTyped, None
<1>3. OwnersRelay /\ Unmade /\ Closed /\ Locked /\ ChangersRelay
  BY DEF Init, OwnersRelay, Unmade, Closed, Locked, ChangersRelay, Closing
<1>4. FlagsTell /\ LetGoComplete /\ Finished
  BY DEF Init, FlagsTell, LetGoComplete, Finished
<1>5. InHand /\ InOrder /\ StreamsRelay /\ StreamBehind /\ EncoderSleeps /\ StreamSleepsIdle
  BY DEF Init, InHand, InOrder, StreamsRelay, StreamBehind, Ahead, EncoderSleeps, StreamSleepsIdle, None
<1> QED BY <1>2, <1>3, <1>4, <1>5 DEF IInv

LEMMA Inductive == IInv /\ [Next]_vars => IInv'
<1> SUFFICES ASSUME IInv, [Next]_vars
             PROVE  IInv'
  OBVIOUS
<1>1. CASE UNCHANGED vars
  <2>1. UNCHANGED <<world, sensors, flags, encoding, lock, changer, stream>>
    BY <1>1 DEF vars
  <2>2. StreamTyped' /\ StreamsRelay' /\ StreamBehind' /\ StreamSleepsIdle'
    BY <2>1 DEF IInv, StreamTyped, StreamsRelay, StreamBehind, Ahead, StreamSleepsIdle, NothingNew,
                world, sensors, flags, encoding
  <2> QED BY <2>1, <2>2, StreamAlone
<1>2. CASE \E r \in Relays : Deliver(r) \/ SensorDies(r) \/ EncoderLooks(r) \/ EncoderPublishes(r)
  BY <1>2, DeliverStep, SensorDiesStep, EncoderLooksStep, EncoderPublishesStep
<1>3. CASE BeginReplace \/ BeginStop
  BY <1>3, BeginStep
<1>4. CASE OwnerStep
  BY <1>4, CloseStep, StopSensorStep, JoinEncoderStep, DrainStep, DestroySensorStep, SpawnSensorStep, ListenStep
     DEF OwnerStep
<1>5. CASE \E to \in {"pause", "resume"} : LookUp(to)
  BY <1>5, LookUpStep
<1>6. CASE EnterChange \/ Subscribe \/ CheckChange
  BY <1>6, EnterChangeStep, SubscribeStep, CheckChangeStep
<1>7. CASE OpenStream \/ Fetch \/ StreamSleeps \/ StreamTimesOut \/ StreamWakes \/ StreamWrites
  BY <1>7, OpenStreamStep, StreamWaitsStep, StreamWakesStep
<1> QED BY <1>1, <1>2, <1>3, <1>4, <1>5, <1>6, <1>7 DEF Next

LEMMA Invariant == Spec => []IInv
  BY Initially, Inductive, PTL DEF Spec

-----------------------------------------------------------------------------
(* The relay of the last part has published no image since, or its         *)
(* sequence is beyond what the stream asks to exceed.                      *)
SourceKnown ==
  stream.source # None =>
    /\ stream.after <= sequence[stream.source]
    /\ stream.after = sequence[stream.source] => jpeg[stream.source] = stream.shown

(* The steps that neither show a part nor publish an image keep what the   *)
(* stream remembers.                                                       *)
SameMemory == stream'.after = stream.after /\ stream'.shown = stream.shown /\ stream'.source = stream.source

LEMMA Remembers ==
  ASSUME IInv, Next, ~OpenStream, ~StreamWakes
  PROVE  SameMemory
<1>1. CASE Fetch \/ StreamSleeps \/ StreamTimesOut \/ StreamWrites
  BY <1>1 DEF Fetch, StreamSleeps, StreamTimesOut, StreamWrites, IInv, StreamTyped, SameMemory
<1>2. CASE \E r \in Relays : EncoderPublishes(r)
  <2>1. PICK r \in Relays : EncoderPublishes(r)
    BY <1>2
  <2>2. stream' = stream \/ stream' = WakeStream(r)
    BY <2>1 DEF EncoderPublishes
  <2> QED BY <2>2, WokenStream DEF IInv, SameMemory
<1>3. CASE OwnerStep
  <2>1. stream' = stream \/ (stream' = WakeStream(current) /\ current \in Relays)
    BY <1>3, Basics DEF OwnerStep, Close, StopSensor, JoinEncoder, Drain, DestroySensor, SpawnSensor, Listen, Closing
  <2> QED BY <2>1, WokenStream DEF IInv, SameMemory
<1>4. CASE \E r \in Relays : Deliver(r) \/ SensorDies(r) \/ EncoderLooks(r)
  BY <1>4 DEF Deliver, SensorDies, EncoderLooks, SameMemory
<1>5. CASE BeginReplace \/ BeginStop \/ \E to \in {"pause", "resume"} : LookUp(to)
  BY <1>5 DEF BeginReplace, BeginStop, LookUp, SameMemory
<1>6. CASE EnterChange \/ Subscribe \/ CheckChange
  BY <1>6 DEF EnterChange, Subscribe, CheckChange, SameMemory
<1> QED BY <1>1, <1>2, <1>3, <1>4, <1>5, <1>6 DEF Next

(* Publishing makes the sequence of the relay exceed what it was.          *)
LEMMA Publishes ==
  ASSUME IInv, Next, UNCHANGED <<sequence, jpeg>> => FALSE
  PROVE  /\ ~OpenStream /\ ~StreamWakes
         /\ \E r \in Relays : /\ sequence' = [sequence EXCEPT ![r] = @ + 1]
                             /\ \A q \in Relays : q # r => jpeg'[q] = jpeg[q]
<1>1. ~OpenStream /\ ~StreamWakes /\ ~(Fetch \/ StreamSleeps \/ StreamTimesOut \/ StreamWrites)
  BY DEF OpenStream, StreamWakes, Fetch, StreamSleeps, StreamTimesOut, StreamWrites, encoding
<1>2. ~(BeginReplace \/ BeginStop \/ \E to \in {"pause", "resume"} : LookUp(to))
  BY DEF BeginReplace, BeginStop, LookUp, encoding
<1>3. ~(EnterChange \/ Subscribe \/ CheckChange)
  BY DEF EnterChange, Subscribe, CheckChange, encoding
<1>4. ~OwnerStep
  BY DEF OwnerStep, Close, StopSensor, JoinEncoder, Drain, DestroySensor, SpawnSensor, Listen, encoding
<1>5. ~\E r \in Relays : Deliver(r) \/ SensorDies(r) \/ EncoderLooks(r)
  BY DEF Deliver, SensorDies, EncoderLooks, encoding
<1>6. PICK r \in Relays : EncoderPublishes(r)
  BY <1>1, <1>2, <1>3, <1>4, <1>5 DEF Next
<1>7. sequence' = [sequence EXCEPT ![r] = @ + 1] /\ jpeg' = [jpeg EXCEPT ![r] = inHand[r]]
  BY <1>6 DEF EncoderPublishes
<1> QED BY <1>1, <1>7 DEF IInv, ImagesTyped

LEMMA SourceStep == IInv /\ SourceKnown /\ [Next]_vars => SourceKnown'
<1> SUFFICES ASSUME IInv, SourceKnown, [Next]_vars
             PROVE  SourceKnown'
  OBVIOUS
<1>1. CASE UNCHANGED vars
  BY <1>1 DEF vars, encoding, SourceKnown
<1>2. CASE OpenStream
  BY <1>2 DEF OpenStream, SourceKnown, None
<1>3. CASE StreamWakes /\ stream'.at = "off"
  <2>1. SameMemory /\ UNCHANGED <<sequence, jpeg>>
    BY <1>3 DEF StreamWakes, IInv, StreamTyped, SameMemory, encoding
  <2> QED BY <2>1 DEF SameMemory, SourceKnown
<1>4. CASE StreamWakes /\ stream'.at # "off"
  <2>1. UNCHANGED <<sequence, jpeg>>
    BY <1>4 DEF StreamWakes, encoding
  <2>2. /\ stream.relay \in Relays
        /\ stream'.source = stream.relay /\ stream'.after = sequence[stream.relay]
        /\ stream'.shown = jpeg[stream.relay]
    BY <1>4, StreamShows
  <2> QED BY <2>1, <2>2, Basics DEF SourceKnown
<1>5. CASE Next /\ UNCHANGED <<sequence, jpeg>> /\ ~OpenStream /\ ~StreamWakes
  BY <1>5, Remembers DEF SameMemory, SourceKnown
<1>6. CASE Next /\ ~UNCHANGED <<sequence, jpeg>>
  <2>1. /\ ~OpenStream /\ ~StreamWakes
        /\ \E r \in Relays : /\ sequence' = [sequence EXCEPT ![r] = @ + 1]
                            /\ \A q \in Relays : q # r => jpeg'[q] = jpeg[q]
    BY <1>6, Publishes
  <2>2. SameMemory
    BY <1>6, <2>1, Remembers
  <2> SUFFICES ASSUME stream'.source # None
               PROVE  /\ stream'.after <= sequence'[stream'.source]
                      /\ stream'.after = sequence'[stream'.source] => jpeg'[stream'.source] = stream'.shown
    BY DEF SourceKnown
  <2>3. stream.source \in Relays /\ stream.after <= sequence[stream.source]
        /\ (stream.after = sequence[stream.source] => jpeg[stream.source] = stream.shown)
    BY <2>2 DEF SameMemory, SourceKnown, IInv, StreamTyped
  <2>4. PICK r \in Relays : /\ sequence' = [sequence EXCEPT ![r] = @ + 1]
                            /\ \A q \in Relays : q # r => jpeg'[q] = jpeg[q]
    BY <2>1
  <2>5. \A q \in Relays : sequence'[q] = IF q = r THEN sequence[q] + 1 ELSE sequence[q]
    BY <2>4 DEF IInv, ImagesTyped
  <2>6. CASE stream.source = r
    BY <2>2, <2>3, <2>5, <2>6, Basics DEF SameMemory
  <2>7. CASE stream.source # r
    BY <2>2, <2>3, <2>4, <2>5, <2>7 DEF SameMemory
  <2> QED BY <2>6, <2>7
<1> QED BY <1>1, <1>2, <1>3, <1>4, <1>5, <1>6

LEMMA SourceInvariant == Spec => []SourceKnown
<1>1. Init => SourceKnown
  BY DEF Init, SourceKnown
<1> QED BY <1>1, SourceStep, Invariant, PTL DEF Spec

(* The relays, their sensors and threads, and the requests keep their      *)
(* types for any number of relays and frames; no relay publishes more      *)
(* often than there were frames.                                           *)
THEOREM RelayTypes == Spec => []TypeOK
<1>1. IInv => TypeOK
  BY DEF IInv, OwnerTyped, SetsTyped, LockTyped, ChangerTyped, ImagesTyped, EncoderTyped, StreamTyped, TypeOK
<1> QED BY <1>1, Invariant, PTL

(* However replacements, stops, pauses, resumes and deliveries are         *)
(* interleaved, and whichever calls fail: the scene lets go of a relay     *)
(* only when close() is complete, and then neither its encoder nor its     *)
(* sensor's callback runs any more.                                        *)
THEOREM QuietRelays == Spec => []QuietBeforeDestroy
<1>1. IInv => QuietBeforeDestroy
  <2> SUFFICES ASSUME IInv, NEW r \in 1..made
               PROVE  /\ r # current => r \in complete
                      /\ r \in complete => encoder[r] \in {"none", "exited"}
                      /\ r \in complete => r \notin listening \cup draining
    BY DEF QuietBeforeDestroy
  <2> QED BY DEF IInv, LetGoComplete, Finished, EncoderGone, FlagsTell
<1> QED BY <1>1, Invariant, PTL

(* No thread sleeps through what it waits for: the encoder an image or the *)
(* end of its relay, the stream a frame, an error or that end.             *)
THEOREM Awake == Spec => []NoLostWakeup
<1>1. IInv => NoLostWakeup
  BY DEF IInv, EncoderSleeps, StreamSleepsIdle, NoLostWakeup
<1> QED BY <1>1, Invariant, PTL

(* A stream shows later and later frames, across any number of             *)
(* replacements of the camera and whenever it is closed: nothing an open   *)
(* relay can still publish is as old as what was shown, and a closed one   *)
(* shows nothing.  A wait that a stream takes for a stall has withheld no  *)
(* image of the camera its last part came from.                            *)
THEOREM StreamAdvances == Spec => StreamGoesForward
<1>1. IInv /\ SourceKnown /\ [Next]_vars =>
        [/\ PartShown => stream'.shown > stream.shown
         /\ StallTaken => jpeg[stream.relay] <= stream.shown \/ stream.relay # stream.source]_vars
  <2> SUFFICES ASSUME IInv, SourceKnown, Next
               PROVE  /\ PartShown => stream'.shown > stream.shown
                      /\ StallTaken => jpeg[stream.relay] <= stream.shown \/ stream.relay # stream.source
    BY DEF vars
  <2>1. (PartShown \/ StallTaken) => stream'.at # stream.at /\ stream'.at \in {"writing", "fetch"}
    BY DEF PartShown, StallTaken
  <2>2. PartShown \/ StallTaken => StreamWakes \/ StreamTimesOut
    <3> SUFFICES ASSUME PartShown \/ StallTaken, ~StreamWakes, ~StreamTimesOut
                 PROVE  FALSE
      OBVIOUS
    <3>1. ~(OpenStream \/ Fetch \/ StreamSleeps \/ StreamWrites)
      BY DEF OpenStream, Fetch, StreamSleeps, StreamWrites, PartShown, StallTaken, IInv, StreamTyped
    <3>2. ~\E r \in Relays : EncoderPublishes(r)
      BY <2>1, WokenStream DEF EncoderPublishes, IInv
    <3>3. ~OwnerStep
      <4>1. CASE Close
        BY <4>1, <2>1, Basics, WokenStream DEF Close, Closing, IInv
      <4>2. CASE ~Close
        BY <2>1, <4>2 DEF OwnerStep, StopSensor, JoinEncoder, Drain, DestroySensor, SpawnSensor, Listen
      <4> QED BY <4>1, <4>2
    <3>4. ~\E r \in Relays : Deliver(r) \/ SensorDies(r) \/ EncoderLooks(r)
      BY <2>1 DEF Deliver, SensorDies, EncoderLooks
    <3>5. ~(BeginReplace \/ BeginStop \/ \E to \in {"pause", "resume"} : LookUp(to))
      BY <2>1 DEF BeginReplace, BeginStop, LookUp
    <3>6. ~(EnterChange \/ Subscribe \/ CheckChange)
      BY <2>1 DEF EnterChange, Subscribe, CheckChange
    <3> QED BY <3>1, <3>2, <3>3, <3>4, <3>5, <3>6 DEF Next
  <2>3. CASE StreamWakes
    <3>1. ~StallTaken
      BY <2>3 DEF StreamWakes, StallTaken, IInv, StreamTyped
    <3>2. PartShown => stream'.at # "off"
      BY DEF PartShown
    <3> QED BY <2>3, <3>1, <3>2, StreamShows
  <2>4. CASE StreamTimesOut
    <3>1. ~PartShown
      BY <2>4 DEF StreamTimesOut, PartShown, IInv, StreamTyped
    <3>2. StallTaken => NothingNew(stream.relay) /\ stream.relay \in Relays
      BY <2>4, Basics DEF StreamTimesOut, StallTaken, IInv, StreamsRelay
    <3>3. ASSUME StallTaken, stream.relay = stream.source
          PROVE  jpeg[stream.relay] <= stream.shown
      <4>1. stream.source # None /\ sequence[stream.source] <= stream.after
        BY <3>2, <3>3, Basics DEF NothingNew
      <4>2. stream.after = sequence[stream.source]
        BY <3>2, <3>3, <4>1, Basics DEF SourceKnown
      <4> QED BY <3>2, <3>3, <4>1, <4>2, Basics DEF SourceKnown
    <3> QED BY <3>1, <3>3
  <2> QED BY <2>2, <2>3, <2>4
<1> QED BY <1>1, Invariant, SourceInvariant, PTL DEF Spec, StreamGoesForward

-----------------------------------------------------------------------------
(* The reconfiguration of a scene.                                         *)
(* SceneTypeOK in parts: what the handler works with, what it records, and what *)
(* the simulator has.                                                      *)
HandlerTyped ==
  /\ status \in {"prepared", "stopped"}
  /\ config \in Configs /\ wish \in Configs /\ uncertain \in BOOLEAN
  /\ at \in {"idle", "ego", "newEgo", "oldEgo", "dynamics", "factor", "traffic", "walker", "prop",
             "newProp", "finish", "rollback", "abort"}
CamerasTyped == rig \in Actors \cup {Plain} /\ camera \in {"none", "garage", "attached"}
RecordsTyped ==
  /\ owned \subseteq Actors /\ alive \subseteq Actors /\ before \subseteq Actors
  /\ strays \subseteq Actors
  /\ listed \in [Populations -> SUBSET Actors]
  /\ ego \in Actors \cup {Plain}
SettingsTyped == dynamics \in Dynamics /\ factor \in Factors

(* Actors are recorded or lost, never both, and only so many are lost that *)
(* a new one finds a number.                                               *)
Accounts ==
  /\ IsFiniteSet(owned) /\ IsFiniteSet(strays) /\ Cardinality(strays) <= MaxStrays
  /\ strays \subseteq alive /\ strays \cap owned = {}
  /\ NothingForgotten

(* Where the handler may be in a scene that stopped or is about to stop,   *)
(* and what is known while it replaces the ego or the props.               *)
Places ==
  /\ status = "stopped" => at \in {"idle", "abort"}
  /\ uncertain => at = "abort"
  /\ at \in {"ego", "newEgo", "oldEgo"} => wish.ego # config.ego
  /\ at = "newProp" => listed["prop"] = {}

(* The actors that the scene stands by: all it has recorded, save what a   *)
(* failed addition has left.                                               *)
Base == IF at = "rollback" THEN before ELSE owned
Populated ==
  \A k \in Populations : OfKind(Base, k) = listed[k] /\ Cardinality(listed[k]) = config[k]
EgoKnown ==
  IF at \in {"newEgo", "oldEgo"}
  THEN /\ at = "newEgo" => OfKind(owned, "ego") = {}
       /\ \A a \in OfKind(owned, "ego") : a[3] = wish.ego
  ELSE OfKind(Base, "ego") = {ego} /\ ego[3] = config.ego
Applied == dynamics = config.dynamics /\ factor = config.factor

(* A scene that goes on has what it records, and records what it says.     *)
Faithful ==
  status = "prepared" /\ ~uncertain =>
    /\ owned \subseteq alive /\ Base \subseteq owned
    /\ Populated /\ EgoKnown /\ Applied

SceneInv ==
  /\ HandlerTyped /\ CamerasTyped /\ RecordsTyped /\ SettingsTyped
  /\ Accounts /\ Places /\ Faithful

-----------------------------------------------------------------------------
(* Numbered actors, and a choice of some of them.                          *)
LEMMA Numbered ==
  \A k, t, S : \A n \in Nat :
    (\A x : x \in S <=> \E i \in 1..n : x = <<k, i, t>>)
      => IsFiniteSet(S) /\ Cardinality(S) = n
<1> SUFFICES ASSUME NEW k, NEW t, NEW S, NEW n \in Nat,
                    \A x : x \in S <=> \E i \in 1..n : x = <<k, i, t>>
             PROVE  IsFiniteSet(S) /\ Cardinality(S) = n
  OBVIOUS
<1> DEFINE f == [i \in 1..n |-> <<k, i, t>>]
<1>1. f \in Bijection(1..n, S)
  <2>1. f \in [1..n -> S]
    OBVIOUS
  <2>2. \A i, j \in 1..n : f[i] = f[j] => i = j
    OBVIOUS
  <2>3. \A s \in S : \E i \in 1..n : f[i] = s
    OBVIOUS
  <2> QED BY <2>1, <2>2, <2>3 DEF Bijection, Injection, Surjection, IsInjective
<1>2. ExistsBijection(1..n, S)
  BY <1>1 DEF ExistsBijection
<1>3. IsFiniteSet(1..n) /\ Cardinality(1..n) = n
  BY FS_Interval
<1> QED BY <1>2, <1>3, FS_Bijection

LEMMA SubsetOfSize ==
  ASSUME NEW S, IsFiniteSet(S), NEW n \in Nat, n <= Cardinality(S)
  PROVE  LET T == CHOOSE s \in SUBSET S : Cardinality(s) = n
         IN  T \in SUBSET S /\ IsFiniteSet(T) /\ Cardinality(T) = n
<1>1. Cardinality(S) \in Nat /\ ExistsBijection(1..Cardinality(S), S)
  BY FS_CardinalityType
<1>2. PICK f : f \in Bijection(1..Cardinality(S), S)
  BY <1>1 DEF ExistsBijection
<1> DEFINE T == {f[i] : i \in 1..n}
           g == [i \in 1..n |-> f[i]]
<1>3. 1..n \subseteq 1..Cardinality(S)
  BY <1>1
<1>4. f \in [1..Cardinality(S) -> S] /\ \A i, j \in 1..Cardinality(S) : f[i] = f[j] => i = j
  BY <1>2 DEF Bijection, Injection, Surjection, IsInjective
<1>5. T \in SUBSET S
  BY <1>3, <1>4
<1>6. g \in Bijection(1..n, T)
  <2>1. g \in [1..n -> T] /\ \A t \in T : \E i \in 1..n : g[i] = t
    OBVIOUS
  <2>2. \A i, j \in 1..n : g[i] = g[j] => i = j
    BY <1>3, <1>4
  <2> QED BY <2>1, <2>2 DEF Bijection, Injection, Surjection, IsInjective
<1>7. IsFiniteSet(1..n) /\ Cardinality(1..n) = n
  BY FS_Interval
<1>8. Cardinality(T) = n
  BY <1>6, <1>7, FS_Bijection DEF ExistsBijection
<1>9. \E s \in SUBSET S : Cardinality(s) = n
  BY <1>5, <1>8
<1> QED BY <1>9, FS_Subset

(* Two finite sets that share nothing.                                     *)
LEMMA Apart ==
  ASSUME NEW S, NEW T, IsFiniteSet(S), IsFiniteSet(T), S \cap T = {}
  PROVE  IsFiniteSet(S \cup T) /\ Cardinality(S \cup T) = Cardinality(S) + Cardinality(T)
<1>1. Cardinality(S) \in Nat /\ Cardinality(T) \in Nat
  BY FS_CardinalityType
<1> QED BY <1>1, FS_Union, FS_EmptySet

-----------------------------------------------------------------------------
(* The constants, and the settings with one of them changed.               *)
LEMMA Sizes ==
  ASSUME ConstantsAssumption, NEW k \in Populations
  PROVE  MaxPopulation[k] \in Nat
BY DEF ConstantsAssumption, Populations

LEMMA ConfigPopulation ==
  ASSUME NEW c \in Configs, NEW k \in Populations
  PROVE  c[k] \in 0..MaxPopulation[k]
BY DEF Configs, Populations

LEMMA ConfigResized ==
  ASSUME config \in Configs, NEW k \in Populations, NEW n \in 0..MaxPopulation[k],
         config' = [config EXCEPT ![k] = n]
  PROVE  /\ config' \in Configs /\ config'.ego = config.ego
         /\ config'.dynamics = config.dynamics /\ config'.factor = config.factor
         /\ \A j \in Populations : config'[j] = IF j = k THEN n ELSE config[j]
<1>1. CASE k = "traffic"
  BY <1>1 DEF Configs, Populations
<1>2. CASE k = "walker"
  BY <1>2 DEF Configs, Populations
<1>3. CASE k = "prop"
  BY <1>3 DEF Configs, Populations
<1> QED BY <1>1, <1>2, <1>3 DEF Populations

LEMMA ConfigEgo ==
  ASSUME config \in Configs, NEW b \in Blueprints, config' = [config EXCEPT !.ego = b]
  PROVE  /\ config' \in Configs /\ config'.ego = b
         /\ config'.dynamics = config.dynamics /\ config'.factor = config.factor
         /\ \A j \in Populations : config'[j] = config[j]
BY DEF Configs, Populations

LEMMA ConfigDynamics ==
  ASSUME config \in Configs, NEW v \in Dynamics, config' = [config EXCEPT !.dynamics = v]
  PROVE  /\ config' \in Configs /\ config'.ego = config.ego
         /\ config'.dynamics = v /\ config'.factor = config.factor
         /\ \A j \in Populations : config'[j] = config[j]
BY DEF Configs, Populations

LEMMA ConfigFactor ==
  ASSUME ConstantsAssumption, config \in Configs, NEW f \in Factors,
         config' = [config EXCEPT !.factor = f, !.walker = 0]
  PROVE  /\ config' \in Configs /\ config'.ego = config.ego
         /\ config'.dynamics = config.dynamics /\ config'.factor = f
         /\ \A j \in Populations : config'[j] = IF j = "walker" THEN 0 ELSE config[j]
<1>1. 0 \in 0..MaxPopulation["walker"]
  BY Sizes DEF Populations
<1> QED BY <1>1 DEF Configs, Populations

LEMMA KindsDiffer ==
  /\ "ego" \notin Populations
  /\ \A a, b, k : OfKind(a \cup b, k) = OfKind(a, k) \cup OfKind(b, k)
  /\ \A a, b, k : OfKind(a \ b, k) = OfKind(a, k) \ OfKind(b, k)
  /\ \A a, k : OfKind(a, k) \subseteq a
BY DEF Populations, OfKind

(* New actors exist: there are numbers enough beside those recorded and    *)
(* those lost.                                                             *)
Size(k) == IF k = "ego" THEN 1 ELSE MaxPopulation[k]

LEMMA NewActors ==
  ASSUME ConstantsAssumption, Accounts, RecordsTyped,
         NEW k \in Populations \cup {"ego"}, NEW t, NEW n \in Nat,
         NEW K, IsFiniteSet(K), Cardinality(K) + n <= Size(k),
         {a \in OfKind(owned, k) : a[3] = t} \subseteq K
  PROVE  /\ New(k, t, n) \subseteq {<<k, i, t>> : i \in Slots(k)}
         /\ New(k, t, n) \cap (alive \cup owned) = {}
         /\ IsFiniteSet(New(k, t, n)) /\ Cardinality(New(k, t, n)) = n
<1> DEFINE m == Size(k) + MaxStrays
           All == {<<k, i, t>> : i \in 1..m}
           Used == alive \cup owned
<1>1. Size(k) \in Nat /\ MaxStrays \in Nat
  BY Sizes DEF Size, ConstantsAssumption
<1>2. m \in Nat
  BY <1>1
<1>2a. Slots(k) = 1..m
  BY DEF Slots, Size
<1> HIDE DEF m
<1>3. IsFiniteSet(All) /\ Cardinality(All) = m
  <2>1. \A x : x \in All <=> \E i \in 1..m : x = <<k, i, t>>
    OBVIOUS
  <2> HIDE DEF All
  <2> QED BY <1>2, <2>1, Numbered
<1>4. IsFiniteSet(K \cup strays) /\ Cardinality(K \cup strays) <= Cardinality(K) + MaxStrays
  <2>1. /\ Cardinality(K) \in Nat /\ Cardinality(strays) \in Nat
        /\ Cardinality(strays) <= MaxStrays /\ IsFiniteSet(strays)
    BY FS_CardinalityType DEF Accounts
  <2>2. IsFiniteSet(K \cap strays) /\ Cardinality(K \cap strays) \in Nat
    BY <2>1, FS_Intersection, FS_CardinalityType
  <2> QED BY SMTT(30), <1>1, <2>1, <2>2, FS_Union
<1>5. All \cap Used \subseteq K \cup strays
  <2> SUFFICES ASSUME NEW a \in All, a \in Used, a \notin strays
               PROVE  a \in K
    OBVIOUS
  <2>1. a \in owned
    BY DEF Accounts, NothingForgotten
  <2>2. a[1] = k /\ a[3] = t
    OBVIOUS
  <2> QED BY <2>1, <2>2 DEF OfKind
<1>6. IsFiniteSet(All \ Used) /\ n <= Cardinality(All \ Used)
  <2>1. Cardinality(All \cap Used) <= Cardinality(K \cup strays)
    BY <1>4, <1>5, FS_Subset
  <2>2. IsFiniteSet(All \cap Used) /\ Cardinality(All \cap Used) \in Nat
    BY <1>3, FS_Intersection, FS_CardinalityType
  <2>3. IsFiniteSet(All \ Used) /\ Cardinality(All \ Used) = m - Cardinality(All \cap Used)
    BY <1>3, FS_Difference
  <2>4. Cardinality(K) \in Nat /\ Cardinality(K \cup strays) \in Nat
    BY <1>4, FS_CardinalityType
  <2>5. m = Size(k) + MaxStrays
    BY DEF m
  <2> QED BY <1>1, <1>2, <1>4, <2>1, <2>2, <2>3, <2>4, <2>5
<1>7. New(k, t, n) = CHOOSE s \in SUBSET (All \ Used) : Cardinality(s) = n
  BY <1>2a DEF New
<1>8. /\ New(k, t, n) \in SUBSET (All \ Used)
      /\ IsFiniteSet(New(k, t, n)) /\ Cardinality(New(k, t, n)) = n
  <2> HIDE DEF All, Used
  <2> QED BY <1>6, <1>7, SubsetOfSize
<1> QED BY <1>8, <1>2a

LEMMA NewTyped ==
  ASSUME ConstantsAssumption, NEW k \in Populations \cup {"ego"}, NEW t,
         k = "ego" => t \in Blueprints, k = "walker" => t \in Factors,
         k \in {"traffic", "prop"} => t = Plain
  PROVE  {<<k, i, t>> : i \in Slots(k)} \subseteq Actors
<1>1. CASE k = "ego"
  BY <1>1 DEF Actors
<1>2. CASE k = "walker"
  BY <1>2 DEF Actors
<1>3. CASE k \in {"traffic", "prop"}
  BY <1>3 DEF Actors
<1> QED BY <1>1, <1>2, <1>3 DEF Populations

(* What is made, removed or half removed is accounted for.                 *)
LEMMA MadeAccounts ==
  ASSUME ConstantsAssumption, Accounts, NEW spawned, NEW known \in SUBSET spawned,
         IsFiniteSet(spawned), spawned \cap (alive \cup owned) = {},
         alive' = alive \cup spawned, owned' = owned \cup known,
         strays' = strays \cup (spawned \ known), Cardinality(strays') <= MaxStrays
  PROVE  Accounts'
<1>1. IsFiniteSet(known) /\ IsFiniteSet(spawned \ known)
  BY FS_Subset
<1>2. IsFiniteSet(owned') /\ IsFiniteSet(strays')
  BY <1>1, FS_Union DEF Accounts
<1> QED BY <1>2 DEF Accounts, NothingForgotten

LEMMA RemovedAccounts ==
  ASSUME Accounts, NEW actors \in SUBSET owned,
         alive' = alive \ actors, owned' = owned \ actors, strays' = strays
  PROVE  Accounts'
<1>1. IsFiniteSet(owned')
  BY FS_Subset DEF Accounts
<1> QED BY <1>1 DEF Accounts, NothingForgotten

LEMMA GoneAccounts ==
  ASSUME Accounts, NEW gone \in SUBSET owned,
         alive' = alive \ gone, owned' = owned, strays' = strays
  PROVE  Accounts'
BY DEF Accounts, NothingForgotten

LEMMA SameAccounts ==
  ASSUME Accounts, UNCHANGED <<alive, owned, strays>>
  PROVE  Accounts'
BY DEF Accounts, NothingForgotten

-----------------------------------------------------------------------------
LEMMA SceneStarts ==
  ASSUME ConstantsAssumption, SceneInit
  PROVE  SceneInv
<1> DEFINE T(k) == IF k = "walker" THEN config.factor ELSE Plain
<1>1. config \in Configs /\ config.ego \in Blueprints /\ config.factor \in Factors
      /\ config.dynamics \in Dynamics
  BY DEF SceneInit, Configs
<1>2. ASSUME NEW k \in Populations
      PROVE  /\ listed[k] = {<<k, i, T(k)>> : i \in 1..config[k]}
             /\ listed[k] \subseteq Actors /\ OfKind(listed[k], k) = listed[k]
             /\ \A j \in Populations \cup {"ego"} : j # k => OfKind(listed[k], j) = {}
             /\ IsFiniteSet(listed[k]) /\ Cardinality(listed[k]) = config[k]
  <2>1. listed[k] = {<<k, i, T(k)>> : i \in 1..config[k]}
    BY DEF SceneInit
  <2>2. MaxPopulation[k] \in Nat /\ MaxStrays \in Nat /\ config[k] \in 0..MaxPopulation[k] /\ k # "ego"
    BY <1>1, Sizes, ConfigPopulation DEF ConstantsAssumption, Populations
  <2>3. 1..config[k] \subseteq Slots(k)
    BY <2>2 DEF Slots
  <2>4. {<<k, i, T(k)>> : i \in Slots(k)} \subseteq Actors
    <3>1. k = "ego" => T(k) \in Blueprints
      BY <2>2
    <3>2. (k = "walker" => T(k) \in Factors) /\ (k \in {"traffic", "prop"} => T(k) = Plain)
      BY <1>1
    <3> HIDE DEF T
    <3> QED BY <3>1, <3>2, NewTyped
  <2>5. \A x : x \in listed[k] <=> \E i \in 1..config[k] : x = <<k, i, T(k)>>
    BY <2>1
  <2>6. config[k] \in Nat
    BY <2>2
  <2>7. IsFiniteSet(listed[k]) /\ Cardinality(listed[k]) = config[k]
    <3> HIDE DEF T
    <3> QED BY <2>5, <2>6, Numbered
  <2>8. /\ OfKind(listed[k], k) = listed[k]
        /\ \A j \in Populations \cup {"ego"} : j # k => OfKind(listed[k], j) = {}
    BY <2>5 DEF OfKind
  <2> QED BY <2>1, <2>3, <2>4, <2>7, <2>8
<1> HIDE DEF T
<1>3. owned = {ego} \cup listed["traffic"] \cup listed["walker"] \cup listed["prop"]
  BY DEF SceneInit, Populations
<1>4. ego \in Actors /\ ego[3] = config.ego /\ OfKind({ego}, "ego") = {ego}
      /\ \A k \in Populations : OfKind({ego}, k) = {}
  <2>1. ego = <<"ego", 1, config.ego>> /\ 1 \in Slots("ego")
    BY DEF SceneInit, Slots, ConstantsAssumption
  <2> QED BY <1>1, <2>1 DEF Actors, OfKind, Populations
<1>5. IsFiniteSet(owned)
  <2>1. IsFiniteSet({ego} \cup listed["traffic"])
    BY <1>2, FS_Singleton, FS_Union DEF Populations
  <2>2. IsFiniteSet({ego} \cup listed["traffic"] \cup listed["walker"])
    BY <1>2, <2>1, FS_Union DEF Populations
  <2> QED BY <1>2, <1>3, <2>2, FS_Union DEF Populations
<1>6. RecordsTyped
  <2>1. listed \in [Populations -> SUBSET Actors]
    <3>1. listed = [k \in Populations |-> listed[k]]
      BY DEF SceneInit
    <3> QED BY <1>2, <3>1
  <2>2. owned \subseteq Actors
    BY <1>2, <1>3, <1>4 DEF Populations
  <2> QED BY <1>4, <2>1, <2>2 DEF RecordsTyped, SceneInit
<1>7. Populated /\ EgoKnown
  <2>1. \A k \in Populations \cup {"ego"} :
           OfKind(owned, k) = OfKind({ego}, k) \cup OfKind(listed["traffic"], k)
                                \cup OfKind(listed["walker"], k) \cup OfKind(listed["prop"], k)
    BY <1>3 DEF OfKind
  <2>2. OfKind(owned, "ego") = {ego}
    BY <1>2, <1>4, <2>1 DEF Populations
  <2>3. \A k \in Populations : OfKind(owned, k) = listed[k]
    <3>1. \A k, j \in Populations : OfKind(listed[k], j) = IF j = k THEN listed[k] ELSE {}
      BY <1>2
    <3>2. OfKind(owned, "traffic") = listed["traffic"]
      BY <1>4, <2>1, <3>1 DEF Populations
    <3>3. OfKind(owned, "walker") = listed["walker"]
      BY <1>4, <2>1, <3>1 DEF Populations
    <3>4. OfKind(owned, "prop") = listed["prop"]
      BY <1>4, <2>1, <3>1 DEF Populations
    <3> QED BY <3>2, <3>3, <3>4 DEF Populations
  <2>4. at = "idle"
    BY DEF SceneInit
  <2> QED BY <1>2, <1>4, <2>2, <2>3, <2>4 DEF Populated, EgoKnown, Base
<1>8. HandlerTyped /\ CamerasTyped /\ SettingsTyped /\ Places
  BY <1>1 DEF SceneInit, HandlerTyped, CamerasTyped, SettingsTyped, Places
<1>9. Accounts
  BY <1>5, FS_EmptySet DEF SceneInit, Accounts, NothingForgotten, ConstantsAssumption
<1>10. Faithful
  BY <1>7 DEF SceneInit, Faithful, Applied, Base
<1> QED BY <1>6, <1>8, <1>9, <1>10 DEF SceneInv

(* A step that leaves the actors and what is known of them alone.          *)
LEMMA QuietStep ==
  ASSUME SceneInv, UNCHANGED <<scene, simulator>>,
         HandlerTyped', CamerasTyped', Places', before' \subseteq Actors,
         at \notin {"rollback", "newEgo", "oldEgo"}, at' \notin {"rollback", "newEgo", "oldEgo"},
         uncertain => uncertain'
  PROVE  SceneInv'
<1>1. RecordsTyped' /\ SettingsTyped'
  BY DEF SceneInv, RecordsTyped, SettingsTyped, scene, simulator
<1>2. Accounts'
  BY SameAccounts DEF SceneInv, scene, simulator
<1>3. Faithful'
  BY DEF SceneInv, Faithful, Populated, EgoKnown, Base, Applied, scene, simulator
<1> QED BY <1>1, <1>2, <1>3 DEF SceneInv

LEMMA BeginConfigureStep ==
  ASSUME SceneInv, NEW c \in Configs, BeginConfigure(c)
  PROVE  SceneInv'
<1>1. HandlerTyped' /\ CamerasTyped' /\ Places' /\ before' \subseteq Actors
  BY DEF SceneInv, BeginConfigure, ChangesEgo, HandlerTyped, CamerasTyped, RecordsTyped, Places, scene, cameras
<1>2. UNCHANGED <<scene, simulator>> /\ at = "idle" /\ at' \in {"ego", "dynamics"} /\ uncertain' = uncertain
  BY DEF BeginConfigure
<1> QED BY <1>1, <1>2, QuietStep

LEMMA FinishStep ==
  ASSUME SceneInv, Finish
  PROVE  SceneInv'
<1>1. HandlerTyped' /\ CamerasTyped' /\ Places' /\ before' \subseteq Actors
  BY DEF SceneInv, Finish, LeaveHandler, HandlerTyped, CamerasTyped, RecordsTyped, Places, scene, cameras,
         handler
<1>2. UNCHANGED <<scene, simulator>> /\ at = "finish" /\ at' \in {"idle", "abort"} /\ ~uncertain
  BY DEF Finish, SceneInv, Places
<1> QED BY <1>1, <1>2, QuietStep

LEMMA CameraStep ==
  ASSUME SceneInv, AttachRig \/ \E kind \in {"garage", "attached"} : AttachCamera(kind)
  PROVE  SceneInv'
<1>1. HandlerTyped' /\ CamerasTyped' /\ Places' /\ before' \subseteq Actors
  BY DEF SceneInv, AttachRig, AttachCamera, HandlerTyped, CamerasTyped, RecordsTyped, Places, scene, handler
<1>2. UNCHANGED <<scene, simulator>> /\ at = "idle" /\ at' = at /\ uncertain' = uncertain
  BY DEF AttachRig, AttachCamera, handler
<1> QED BY <1>1, <1>2, QuietStep

LEMMA KeepStep ==
  ASSUME SceneInv, NEW k \in {"traffic", "walker"}, KeepPopulation(k)
  PROVE  SceneInv'
<1>1. at' \in {"walker", "prop"}
  BY DEF KeepPopulation, After
<1>2. HandlerTyped' /\ CamerasTyped' /\ Places' /\ before' \subseteq Actors
  BY <1>1 DEF SceneInv, KeepPopulation, HandlerTyped, CamerasTyped, RecordsTyped, Places, scene, cameras, handler
<1>3. UNCHANGED <<scene, simulator>> /\ at \in {"traffic", "walker"} /\ uncertain' = uncertain
  BY DEF KeepPopulation, handler
<1> QED BY <1>1, <1>2, <1>3, QuietStep

(* A scene that stops keeps its accounts.                                  *)
LEMMA StoppedStep ==
  ASSUME SceneInv, HandlerTyped', CamerasTyped', Places', RecordsTyped', SettingsTyped', Accounts',
         status' = "stopped" \/ uncertain'
  PROVE  SceneInv'
BY DEF SceneInv, Faithful, HandlerTyped

LEMMA StopStep ==
  ASSUME SceneInv, Stop
  PROVE  SceneInv'
<1>1. PICK gone \in SUBSET owned : alive' = alive \ gone
  BY DEF Stop, Cleanup
<1>2. Accounts'
  BY <1>1, GoneAccounts DEF SceneInv, Stop
<1>3. HandlerTyped' /\ CamerasTyped' /\ Places' /\ RecordsTyped' /\ SettingsTyped' /\ status' = "stopped"
  BY <1>1 DEF SceneInv, Stop, Cleanup, HandlerTyped, CamerasTyped, Places, RecordsTyped, SettingsTyped, handler
<1> QED BY <1>2, <1>3, StoppedStep

LEMMA AbortStep ==
  ASSUME SceneInv, AbortConfigure
  PROVE  SceneInv'
<1>1. HandlerTyped' /\ CamerasTyped' /\ Places' /\ before' = {}
  BY DEF SceneInv, AbortConfigure, Cleanup, LeaveHandler, HandlerTyped, CamerasTyped, Places, cameras
<1>2. CASE MustStop
  <2>1. PICK gone \in SUBSET owned : alive' = alive \ gone
    BY <1>2 DEF AbortConfigure, Cleanup
  <2>2. Accounts'
    BY <2>1, GoneAccounts DEF SceneInv, AbortConfigure
  <2>3. RecordsTyped' /\ SettingsTyped' /\ status' = "stopped"
    BY <1>1, <1>2, <2>1 DEF SceneInv, AbortConfigure, Cleanup, RecordsTyped, SettingsTyped
  <2> QED BY <1>1, <2>2, <2>3, StoppedStep
<1>3. CASE ~MustStop
  <2>1. UNCHANGED <<scene, simulator>> /\ at = "abort" /\ at' = "idle"
    BY <1>3 DEF AbortConfigure, scene, simulator
  <2>2. CASE status = "stopped"
    <3>1. RecordsTyped' /\ SettingsTyped' /\ Accounts'
      BY <1>1, <2>1, SameAccounts DEF SceneInv, RecordsTyped, SettingsTyped, scene, simulator
    <3> QED BY <1>1, <2>1, <2>2, <3>1, StoppedStep DEF scene
  <2>3. CASE status # "stopped"
    <3>1. ~uncertain
      BY <1>3, <2>3 DEF MustStop, SceneInv, HandlerTyped
    <3> QED BY <1>1, <2>1, <3>1, QuietStep
  <2> QED BY <2>2, <2>3
<1> QED BY <1>2, <1>3

-----------------------------------------------------------------------------
(* The ego is replaced.                                                    *)
LEMMA RemoveEgoStep ==
  ASSUME SceneInv, RemoveEgo
  PROVE  SceneInv'
<1>1. at = "ego" /\ status = "prepared" /\ ~uncertain
  BY DEF RemoveEgo, SceneInv, Places, HandlerTyped
<1>2. CASE Removed(OfKind(owned, "ego")) /\ ego' = Plain /\ at' = "newEgo" /\ UNCHANGED <<status, cameras>>
  <2>1. HandlerTyped' /\ CamerasTyped' /\ Places' /\ RecordsTyped' /\ SettingsTyped'
    BY <1>1, <1>2 DEF SceneInv, RemoveEgo, Removed, HandlerTyped, CamerasTyped, Places, RecordsTyped,
           SettingsTyped, handler, cameras
  <2>2. Accounts'
    BY <1>2, KindsDiffer, RemovedAccounts DEF SceneInv, RemoveEgo, Removed
  <2>3. owned \subseteq alive /\ Populated /\ Applied
    BY <1>1 DEF SceneInv, Faithful
  <2>4. owned' \subseteq alive' /\ Base' \subseteq owned' /\ Applied'
    BY <1>2, <2>3 DEF Removed, Base, Applied, RemoveEgo
  <2>5. \A k \in Populations : OfKind(owned', k) = OfKind(owned, k)
    BY <1>2 DEF Removed, OfKind, Populations
  <2>6. OfKind(owned', "ego") = {}
    BY <1>2 DEF Removed, OfKind
  <2>7. Populated' /\ EgoKnown'
    BY <1>1, <1>2, <2>3, <2>5, <2>6 DEF Populated, EgoKnown, Base, RemoveEgo
  <2> QED BY <2>1, <2>2, <2>4, <2>7 DEF SceneInv, Faithful
<1>3. CASE \E gone \in SUBSET owned :
              /\ status' = "stopped" /\ alive' = alive \ gone /\ camera' = "none" /\ rig' = Plain
              /\ at' = "abort" /\ UNCHANGED <<owned, ego>>
  <2>1. PICK gone \in SUBSET owned : alive' = alive \ gone
    BY <1>3
  <2>2. Accounts'
    BY <1>3, <2>1, GoneAccounts DEF SceneInv, RemoveEgo
  <2>3. /\ HandlerTyped' /\ CamerasTyped' /\ Places' /\ RecordsTyped' /\ SettingsTyped'
        /\ status' = "stopped"
    BY <1>1, <1>3 DEF SceneInv, RemoveEgo, HandlerTyped, CamerasTyped, Places, RecordsTyped, SettingsTyped,
           handler
  <2> QED BY <2>2, <2>3, StoppedStep
<1> QED BY <1>2, <1>3 DEF RemoveEgo

LEMMA SpawnEgoStep ==
  ASSUME ConstantsAssumption, SceneInv, SpawnEgo
  PROVE  SceneInv'
<1>1. /\ at = "newEgo" /\ status = "prepared" /\ ~uncertain /\ wish.ego # config.ego
      /\ wish \in Configs /\ config \in Configs /\ wish.ego \in Blueprints
  BY DEF SpawnEgo, SceneInv, Places, HandlerTyped, Configs
<1>2. /\ owned \subseteq alive /\ Populated /\ Applied /\ OfKind(owned, "ego") = {}
  BY <1>1 DEF SceneInv, Faithful, EgoKnown
<1>3. /\ New("ego", wish.ego, 1) \subseteq {<<"ego", i, wish.ego>> : i \in Slots("ego")}
      /\ New("ego", wish.ego, 1) \cap (alive \cup owned) = {}
  <2>1. IsFiniteSet({}) /\ Cardinality({}) + 1 <= Size("ego")
    BY FS_EmptySet DEF Size
  <2>2. {a \in OfKind(owned, "ego") : a[3] = wish.ego} \subseteq {}
    BY <1>2
  <2> QED BY <2>1, <2>2, NewActors DEF SceneInv
<1>4. PICK new \in New("ego", wish.ego, 1) :
         \/ /\ Spawned({new}, {new}) /\ ego' = new
            /\ config' = [config EXCEPT !.ego = wish.ego] /\ at' = "dynamics"
         \/ SpawnFails({new}) /\ at' = "oldEgo" /\ UNCHANGED <<config, ego>>
  BY DEF SpawnEgo
<1>5. /\ new \notin alive \cup owned /\ new[1] = "ego" /\ new[3] = wish.ego
      /\ new \in Actors
  <2>1. {<<"ego", i, wish.ego>> : i \in Slots("ego")} \subseteq Actors
    BY <1>1 DEF Actors
  <2>2. new \in {<<"ego", i, wish.ego>> : i \in Slots("ego")}
    BY <1>3
  <2> QED BY <1>3, <2>1, <2>2
<1>6. CASE /\ Spawned({new}, {new}) /\ ego' = new
           /\ config' = [config EXCEPT !.ego = wish.ego] /\ at' = "dynamics"
  <2>1. /\ alive' = alive \cup {new} /\ owned' = owned \cup {new} /\ strays' = strays
    BY <1>6 DEF Spawned
  <2>2. Accounts'
    <3>1. strays' = strays \cup ({new} \ {new}) /\ Cardinality(strays') <= MaxStrays
      BY <2>1 DEF SceneInv, Accounts
    <3>2. IsFiniteSet({new}) /\ {new} \cap (alive \cup owned) = {}
      BY <1>5, FS_Singleton
    <3> QED BY <2>1, <3>1, <3>2, MadeAccounts DEF SceneInv
  <2>3. /\ config' \in Configs
        /\ config'.ego = wish.ego /\ config'.dynamics = config.dynamics /\ config'.factor = config.factor
        /\ \A j \in Populations : config'[j] = config[j]
    BY <1>1, <1>6, ConfigEgo
  <2>4. HandlerTyped' /\ CamerasTyped' /\ Places' /\ RecordsTyped' /\ SettingsTyped'
    BY <1>1, <1>5, <1>6, <2>1, <2>3 DEF SceneInv, SpawnEgo, HandlerTyped, CamerasTyped, Places, RecordsTyped,
           SettingsTyped, handler, cameras
  <2>5. /\ OfKind(owned', "ego") = {new}
        /\ \A k \in Populations : OfKind(owned', k) = OfKind(owned, k)
    BY <1>2, <1>5, <2>1 DEF OfKind, Populations
  <2>6. Populated' /\ EgoKnown'
    BY <1>1, <1>2, <1>5, <1>6, <2>3, <2>5 DEF Populated, EgoKnown, Base, SpawnEgo
  <2>7. owned' \subseteq alive' /\ Base' \subseteq owned' /\ Applied'
    BY <1>2, <1>6, <2>1, <2>3 DEF Base, Applied, SpawnEgo
  <2> QED BY <2>2, <2>4, <2>6, <2>7 DEF SceneInv, Faithful
<1>7. CASE SpawnFails({new}) /\ at' = "oldEgo" /\ UNCHANGED <<config, ego>>
  <2>0. PICK spawned \in SUBSET {new} : \E known \in SUBSET spawned :
           Cardinality(strays \cup (spawned \ known)) <= MaxStrays /\ Spawned(spawned, known)
    BY <1>7 DEF SpawnFails
  <2>1. PICK known \in SUBSET spawned :
           Cardinality(strays \cup (spawned \ known)) <= MaxStrays /\ Spawned(spawned, known)
    BY <2>0
  <2>2. Accounts'
    <3>1. IsFiniteSet(spawned)
      BY FS_Singleton, FS_Subset
    <3>2. spawned \cap (alive \cup owned) = {}
      BY <1>5
    <3> QED BY <2>1, <3>1, <3>2, MadeAccounts DEF SceneInv, Spawned
  <2>3. HandlerTyped' /\ CamerasTyped' /\ Places' /\ RecordsTyped' /\ SettingsTyped'
    BY <1>1, <1>5, <1>7, <2>1 DEF SceneInv, SpawnEgo, Spawned, HandlerTyped, CamerasTyped, Places,
           RecordsTyped, SettingsTyped, handler, cameras
  <2>4. /\ \A a \in OfKind(owned', "ego") : a[3] = wish.ego
        /\ \A k \in Populations : OfKind(owned', k) = OfKind(owned, k)
    BY <1>2, <1>5, <2>1 DEF OfKind, Spawned, Populations
  <2>5. Populated' /\ EgoKnown'
    BY <1>1, <1>2, <1>7, <2>4 DEF Populated, EgoKnown, Base, SpawnEgo, handler
  <2>6. owned' \subseteq alive' /\ Base' \subseteq owned' /\ Applied'
    BY <1>2, <1>7, <2>1 DEF Base, Applied, SpawnEgo, Spawned
  <2> QED BY <2>2, <2>3, <2>5, <2>6 DEF SceneInv, Faithful
<1> QED BY <1>4, <1>6, <1>7

LEMMA RestoreEgoStep ==
  ASSUME ConstantsAssumption, SceneInv, RestoreEgo
  PROVE  SceneInv'
<1> DEFINE new == OfKind(owned, "ego")
<1>1. /\ at = "oldEgo" /\ status = "prepared" /\ ~uncertain /\ wish.ego # config.ego
      /\ config \in Configs /\ config.ego \in Blueprints
  BY DEF RestoreEgo, SceneInv, Places, HandlerTyped, Configs
<1>2. /\ owned \subseteq alive /\ Populated /\ Applied /\ \A a \in new : a[3] = wish.ego
  BY <1>1 DEF SceneInv, Faithful, EgoKnown
<1>3. /\ New("ego", config.ego, 1) \subseteq {<<"ego", i, config.ego>> : i \in Slots("ego")}
      /\ New("ego", config.ego, 1) \cap (alive \cup owned) = {}
  <2>1. IsFiniteSet({}) /\ Cardinality({}) + 1 <= Size("ego")
    BY FS_EmptySet DEF Size
  <2>2. {a \in OfKind(owned, "ego") : a[3] = config.ego} \subseteq {}
    BY <1>1, <1>2
  <2> QED BY <2>1, <2>2, NewActors DEF SceneInv
<1>4. PICK old \in New("ego", config.ego, 1) :
         \/ /\ alive' = (alive \ new) \cup {old} /\ owned' = (owned \ new) \cup {old}
            /\ ego' = old /\ UNCHANGED <<status, cameras, strays>>
         \/ \E gone \in SUBSET owned, spawned \in SUBSET {old} : \E known \in SUBSET spawned :
              /\ status' = "stopped" /\ camera' = "none" /\ rig' = Plain
              /\ alive' = (alive \ gone) \cup spawned /\ owned' = owned \cup known
              /\ strays' = strays \cup (spawned \ known)
              /\ Cardinality(strays') <= MaxStrays /\ UNCHANGED ego
  BY DEF RestoreEgo
<1>5. old \notin alive \cup owned /\ old[1] = "ego" /\ old[3] = config.ego /\ old \in Actors
  <2>1. {<<"ego", i, config.ego>> : i \in Slots("ego")} \subseteq Actors
    BY <1>1 DEF Actors
  <2>2. old \in {<<"ego", i, config.ego>> : i \in Slots("ego")}
    BY <1>3
  <2> QED BY <1>3, <2>1, <2>2
<1>6. /\ at' = "abort" /\ UNCHANGED <<config, listed, handler, dynamics, factor>>
  BY DEF RestoreEgo
<1>7. CASE /\ alive' = (alive \ new) \cup {old} /\ owned' = (owned \ new) \cup {old}
           /\ ego' = old /\ UNCHANGED <<status, cameras, strays>>
  <2>1. Accounts'
    <3>1. IsFiniteSet(owned')
      BY <1>7, FS_Difference, FS_AddElement DEF SceneInv, Accounts
    <3>2. new \subseteq owned
      BY DEF OfKind
    <3> QED BY <1>5, <1>7, <3>1, <3>2 DEF SceneInv, Accounts, NothingForgotten
  <2>2. HandlerTyped' /\ CamerasTyped' /\ Places' /\ RecordsTyped' /\ SettingsTyped'
    BY <1>1, <1>5, <1>6, <1>7 DEF SceneInv, HandlerTyped, CamerasTyped, Places, RecordsTyped,
           SettingsTyped, handler, cameras
  <2>3. /\ OfKind(owned', "ego") = {old}
        /\ \A k \in Populations : OfKind(owned', k) = OfKind(owned, k)
    BY <1>5, <1>7 DEF OfKind, Populations
  <2>4. Populated' /\ EgoKnown'
    BY <1>1, <1>2, <1>5, <1>6, <1>7, <2>3 DEF Populated, EgoKnown, Base
  <2>5. owned' \subseteq alive' /\ Base' \subseteq owned' /\ Applied'
    BY <1>2, <1>6, <1>7 DEF Base, Applied
  <2> QED BY <2>1, <2>2, <2>4, <2>5 DEF SceneInv, Faithful
<1>8. CASE \E gone \in SUBSET owned, spawned \in SUBSET {old} : \E known \in SUBSET spawned :
              /\ status' = "stopped" /\ camera' = "none" /\ rig' = Plain
              /\ alive' = (alive \ gone) \cup spawned /\ owned' = owned \cup known
              /\ strays' = strays \cup (spawned \ known)
              /\ Cardinality(strays') <= MaxStrays /\ UNCHANGED ego
  <2>0. PICK gone \in SUBSET owned, spawned \in SUBSET {old} : \E known \in SUBSET spawned :
              /\ alive' = (alive \ gone) \cup spawned /\ owned' = owned \cup known
              /\ strays' = strays \cup (spawned \ known)
              /\ Cardinality(strays') <= MaxStrays
    BY <1>8
  <2>1. PICK known \in SUBSET spawned :
              /\ alive' = (alive \ gone) \cup spawned /\ owned' = owned \cup known
              /\ strays' = strays \cup (spawned \ known)
              /\ Cardinality(strays') <= MaxStrays
    BY <2>0
  <2>2. Accounts'
    <3>1. IsFiniteSet(spawned) /\ IsFiniteSet(known) /\ IsFiniteSet(spawned \ known)
      BY FS_Singleton, FS_Subset
    <3>2. IsFiniteSet(owned') /\ IsFiniteSet(strays')
      BY <2>1, <3>1, FS_Union DEF SceneInv, Accounts
    <3> QED BY <1>5, <2>1, <3>2 DEF SceneInv, Accounts, NothingForgotten
  <2>3. /\ HandlerTyped' /\ CamerasTyped' /\ Places' /\ RecordsTyped' /\ SettingsTyped'
        /\ status' = "stopped"
    BY <1>1, <1>5, <1>6, <1>8, <2>1 DEF SceneInv, HandlerTyped, CamerasTyped, Places, RecordsTyped,
           SettingsTyped, handler
  <2> QED BY <2>2, <2>3, StoppedStep
<1> QED BY <1>4, <1>7, <1>8

-----------------------------------------------------------------------------
(* Actors of one kind are removed and the settings follow.                 *)
LEMMA ShrunkStep ==
  ASSUME ConstantsAssumption, SceneInv, status = "prepared", ~uncertain, NEW k \in Populations,
         at \notin {"rollback", "newEgo", "oldEgo"},
         NEW gone \in SUBSET listed[k], Removed(gone), listed' = [listed EXCEPT ![k] = @ \ gone],
         config' \in Configs, config'.ego = config.ego, dynamics' = config'.dynamics,
         factor' = config'.factor, config'[k] = Cardinality(listed[k] \ gone),
         \A j \in Populations : j # k => config'[j] = config[j],
         at' \in {"traffic", "walker", "prop", "newProp"},
         at' = "newProp" => k = "prop" /\ gone = listed[k],
         UNCHANGED <<status, ego, cameras, wish, before, uncertain, strays>>
  PROVE  SceneInv'
<1>1. owned \subseteq alive /\ Populated /\ EgoKnown /\ Base = owned
  BY DEF SceneInv, Faithful, Base
<1>2. gone \subseteq owned /\ OfKind(gone, k) = gone
  BY <1>1 DEF Populated, OfKind
<1>3. /\ \A j \in Populations \cup {"ego"} : j # k => OfKind(owned', j) = OfKind(owned, j)
      /\ OfKind(owned', k) = listed[k] \ gone /\ "ego" # k
  BY <1>1, <1>2 DEF OfKind, Removed, Populated, Populations
<1>4. Accounts'
  BY <1>2, RemovedAccounts DEF SceneInv, Removed
<1>5. /\ listed' \in [Populations -> SUBSET Actors]
      /\ \A j \in Populations : listed'[j] = IF j = k THEN listed[j] \ gone ELSE listed[j]
  BY DEF SceneInv, RecordsTyped
<1>6. HandlerTyped' /\ CamerasTyped' /\ RecordsTyped' /\ SettingsTyped'
  BY <1>2, <1>5 DEF SceneInv, HandlerTyped, CamerasTyped, RecordsTyped, SettingsTyped, Removed, cameras, Configs
<1>7. Places'
  BY <1>5 DEF SceneInv, Places, HandlerTyped
<1>8. Populated' /\ EgoKnown'
  <2>1. Base' = owned'
    BY DEF Base
  <2>2. Populated'
    BY <1>1, <1>3, <1>5, <2>1 DEF Populated
  <2>3. EgoKnown'
    BY <1>1, <1>3, <2>1 DEF EgoKnown
  <2> QED BY <2>2, <2>3
<1>9. owned' \subseteq alive' /\ Base' \subseteq owned' /\ Applied'
  BY <1>1 DEF Removed, Base, Applied
<1> QED BY <1>4, <1>6, <1>7, <1>8, <1>9 DEF SceneInv, Faithful

(* A removal that is not confirmed, or settings of which nobody knows      *)
(* whether they are applied: the scene is about to stop.                   *)
LEMMA UnconfirmedStep ==
  ASSUME SceneInv, status = "prepared", Abort(TRUE), NEW gone \in SUBSET owned, alive' = alive \ gone,
         dynamics' \in Dynamics, factor' \in Factors,
         UNCHANGED <<status, config, owned, listed, ego, cameras, wish, before, strays>>
  PROVE  SceneInv'
<1>1. Accounts'
  BY GoneAccounts DEF SceneInv
<1>2. HandlerTyped' /\ CamerasTyped' /\ Places' /\ RecordsTyped' /\ SettingsTyped' /\ uncertain'
  BY DEF SceneInv, Abort, HandlerTyped, CamerasTyped, Places, RecordsTyped, SettingsTyped, cameras
<1> QED BY <1>1, <1>2, StoppedStep

(* A delta that had no effect.                                             *)
LEMMA RefusedStep ==
  ASSUME SceneInv, status = "prepared", at \notin {"rollback", "newEgo", "oldEgo"}, Abort(FALSE),
         UNCHANGED <<scene, cameras, wish, before, simulator>>
  PROVE  SceneInv'
<1>1. HandlerTyped' /\ CamerasTyped' /\ Places' /\ before' \subseteq Actors
  BY DEF SceneInv, Abort, HandlerTyped, CamerasTyped, RecordsTyped, Places, scene, cameras
<1>2. at' = "abort" /\ (uncertain => uncertain')
  BY DEF Abort
<1> QED BY <1>1, <1>2, QuietStep

LEMMA DynamicsStep ==
  ASSUME SceneInv, SetDynamics
  PROVE  SceneInv'
<1>1. /\ at = "dynamics" /\ status = "prepared" /\ ~uncertain /\ config \in Configs
      /\ wish.dynamics \in Dynamics /\ dynamics \in Dynamics /\ factor \in Factors
  BY DEF SetDynamics, SceneInv, Places, HandlerTyped, Configs, SettingsTyped
<1>2. CASE /\ dynamics' = wish.dynamics /\ config' = [config EXCEPT !.dynamics = wish.dynamics]
           /\ at' = "factor" /\ UNCHANGED uncertain
  <2>1. /\ config' \in Configs
        /\ config'.ego = config.ego /\ config'.dynamics = wish.dynamics
        /\ config'.factor = config.factor
        /\ \A j \in Populations : config'[j] = config[j]
    BY <1>1, <1>2, ConfigDynamics
  <2>2. UNCHANGED <<status, owned, listed, ego, cameras, wish, before, alive, factor, strays>>
    BY DEF SetDynamics
  <2>3. HandlerTyped' /\ CamerasTyped' /\ Places' /\ RecordsTyped' /\ SettingsTyped'
    BY <1>1, <1>2, <2>1, <2>2 DEF SceneInv, HandlerTyped, CamerasTyped, Places, RecordsTyped,
           SettingsTyped, cameras
  <2>4. Accounts'
    BY <2>2, SameAccounts DEF SceneInv
  <2>5. Populated' /\ EgoKnown'
    BY <1>1, <1>2, <2>1, <2>2 DEF SceneInv, Faithful, Populated, EgoKnown, Base
  <2>6. owned' \subseteq alive' /\ Base' \subseteq owned' /\ Applied'
    BY <1>1, <1>2, <2>1, <2>2 DEF SceneInv, Faithful, Applied, Base
  <2> QED BY <2>3, <2>4, <2>5, <2>6 DEF SceneInv, Faithful
<1>3. CASE Abort(FALSE) /\ UNCHANGED <<config, dynamics>>
  BY <1>1, <1>3, RefusedStep DEF SetDynamics, scene, simulator
<1>4. CASE Abort(TRUE) /\ dynamics' \in {dynamics, wish.dynamics} /\ UNCHANGED config
  <2>1. alive' = alive \ {} /\ {} \in SUBSET owned /\ dynamics' \in Dynamics /\ factor' \in Factors
    BY <1>1, <1>4 DEF SetDynamics
  <2> QED BY <1>1, <1>4, <2>1, UnconfirmedStep DEF SetDynamics
<1> QED BY <1>2, <1>3, <1>4 DEF SetDynamics

LEMMA FactorStep ==
  ASSUME ConstantsAssumption, SceneInv, SetFactor
  PROVE  SceneInv'
<1>1. /\ at = "factor" /\ status = "prepared" /\ ~uncertain /\ config \in Configs
      /\ wish.factor \in Factors /\ dynamics \in Dynamics /\ factor \in Factors
  BY DEF SetFactor, SceneInv, Places, HandlerTyped, Configs, SettingsTyped
<1>2. UNCHANGED <<status, ego, cameras, wish, before, dynamics, strays>>
  BY DEF SetFactor
<1>3. StaleWalkers = listed["walker"] /\ StaleWalkers \subseteq owned /\ Applied
  BY <1>1 DEF StaleWalkers, SceneInv, Faithful, Populated, Base, OfKind, Populations
<1>4. CASE /\ wish.factor = config.factor /\ at' = "traffic"
           /\ UNCHANGED <<config, owned, listed, uncertain, alive, factor>>
  <2>1. HandlerTyped' /\ CamerasTyped' /\ Places' /\ before' \subseteq Actors
    BY <1>1, <1>2, <1>4 DEF SceneInv, HandlerTyped, CamerasTyped, RecordsTyped, Places, cameras
  <2> QED BY <1>1, <1>2, <1>4, <2>1, QuietStep DEF scene, simulator
<1>5. CASE /\ factor' = wish.factor /\ Removed(StaleWalkers)
           /\ listed' = [listed EXCEPT !["walker"] = {}]
           /\ config' = [config EXCEPT !.factor = wish.factor, !.walker = 0]
           /\ at' = "traffic" /\ UNCHANGED uncertain
  <2>1. /\ config' \in Configs
        /\ config'.ego = config.ego /\ config'.dynamics = config.dynamics
        /\ config'.factor = wish.factor
        /\ \A j \in Populations : config'[j] = IF j = "walker" THEN 0 ELSE config[j]
    BY <1>1, <1>5, ConfigFactor
  <2>2. listed["walker"] \ StaleWalkers = {} /\ Cardinality({}) = 0
    BY <1>3, FS_EmptySet
  <2>3. listed' = [listed EXCEPT !["walker"] = @ \ StaleWalkers]
    BY <1>5, <2>2
  <2>4. "walker" \in Populations /\ dynamics' = config'.dynamics /\ StaleWalkers \in SUBSET listed["walker"]
    BY <1>2, <1>3, <2>1 DEF Applied, Populations
  <2>5. /\ config'["walker"] = Cardinality(listed["walker"] \ StaleWalkers)
        /\ \A j \in Populations : j # "walker" => config'[j] = config[j]
        /\ factor' = config'.factor
    BY <1>5, <2>1, <2>2, <2>4
  <2> QED BY <1>1, <1>2, <1>5, <2>1, <2>3, <2>4, <2>5, ShrunkStep
<1>6. CASE /\ RemovalFails(StaleWalkers)
           /\ Abort(TRUE) /\ factor' \in {factor, wish.factor} /\ UNCHANGED <<config, listed>>
  <2>1. PICK gone \in SUBSET StaleWalkers : alive' = alive \ gone
    BY <1>6 DEF RemovalFails
  <2>2. gone \in SUBSET owned /\ dynamics' \in Dynamics /\ factor' \in Factors /\ UNCHANGED owned
    BY <1>1, <1>2, <1>3, <1>6 DEF RemovalFails
  <2> QED BY <1>1, <1>2, <1>6, <2>1, <2>2, UnconfirmedStep
<1>7. CASE Abort(FALSE) /\ UNCHANGED <<factor, config, owned, listed, alive>>
  BY <1>1, <1>2, <1>7, RefusedStep DEF scene, simulator
<1>8. CASE /\ Abort(TRUE) /\ factor' \in {factor, wish.factor}
           /\ UNCHANGED <<config, owned, listed, alive>>
  <2>1. alive' = alive \ {} /\ {} \in SUBSET owned /\ dynamics' \in Dynamics /\ factor' \in Factors
    BY <1>1, <1>2, <1>8
  <2> QED BY <1>1, <1>2, <1>8, <2>1, UnconfirmedStep
<1> QED BY <1>4, <1>5, <1>6, <1>7, <1>8 DEF SetFactor

LEMMA ReduceStep ==
  ASSUME ConstantsAssumption, SceneInv, NEW k \in {"traffic", "walker"}, Reduce(k)
  PROVE  SceneInv'
<1>1. /\ at = k /\ status = "prepared" /\ ~uncertain /\ config \in Configs /\ wish \in Configs
      /\ k \in Populations /\ dynamics \in Dynamics /\ factor \in Factors
  BY DEF Reduce, SceneInv, Places, HandlerTyped, Populations, SettingsTyped
<1>2. UNCHANGED <<status, ego, cameras, wish, before, dynamics, factor, strays>>
  BY DEF Reduce
<1>3. /\ OfKind(owned, k) = listed[k] /\ listed[k] \subseteq owned /\ Applied
      /\ IsFiniteSet(listed[k])
  <2>1. OfKind(owned, k) = listed[k] /\ Applied
    BY <1>1 DEF SceneInv, Faithful, Populated, Base
  <2>2. listed[k] \in SUBSET owned /\ IsFiniteSet(owned)
    BY <2>1 DEF OfKind, SceneInv, Accounts
  <2> QED BY <2>1, <2>2, FS_Subset
<1>4. wish[k] \in 0..MaxPopulation[k] /\ MaxPopulation[k] \in Nat /\ Cardinality(listed[k]) \in Nat
  BY <1>1, <1>3, ConfigPopulation, Sizes, FS_CardinalityType
<1>5. /\ Surplus(k) \in SUBSET listed[k] /\ IsFiniteSet(Surplus(k))
      /\ Cardinality(Surplus(k)) = Cardinality(listed[k]) - wish[k]
  <2> DEFINE n == Cardinality(listed[k]) - wish[k]
  <2>1. n \in Nat /\ n <= Cardinality(listed[k])
    BY <1>4 DEF Reduce
  <2>2. Surplus(k) = CHOOSE s \in SUBSET listed[k] : Cardinality(s) = n
    BY DEF Surplus
  <2> HIDE DEF n
  <2>3. Surplus(k) \in SUBSET listed[k] /\ IsFiniteSet(Surplus(k)) /\ Cardinality(Surplus(k)) = n
    BY <1>3, <2>1, <2>2, SubsetOfSize
  <2> QED BY <2>3 DEF n
<1>6. CASE /\ Removed(Surplus(k))
           /\ listed' = [listed EXCEPT ![k] = @ \ Surplus(k)]
           /\ config' = [config EXCEPT ![k] = wish[k]]
           /\ at' = After[k] /\ UNCHANGED uncertain
  <2>1. /\ config' \in Configs
        /\ config'.ego = config.ego /\ config'.dynamics = config.dynamics
        /\ config'.factor = config.factor
        /\ \A j \in Populations : config'[j] = IF j = k THEN wish[k] ELSE config[j]
    BY <1>1, <1>4, <1>6, ConfigResized
  <2>2. Cardinality(listed[k] \ Surplus(k)) = wish[k]
    <3>1. listed[k] \cap Surplus(k) = Surplus(k)
      BY <1>5
    <3>2. Cardinality(listed[k] \ Surplus(k))
            = Cardinality(listed[k]) - Cardinality(listed[k] \cap Surplus(k))
      BY <1>3, FS_Difference
    <3>3. Cardinality(listed[k] \cap Surplus(k)) = Cardinality(listed[k]) - wish[k]
      BY <1>5, <3>1
    <3> QED BY <1>4, <3>2, <3>3
  <2>3. at' \in {"walker", "prop"}
    BY <1>6 DEF After
  <2>4. dynamics' = config'.dynamics /\ factor' = config'.factor
    BY <1>2, <1>3, <2>1 DEF Applied
  <2> QED BY <1>1, <1>2, <1>5, <1>6, <2>1, <2>2, <2>3, <2>4, ShrunkStep
<1>7. CASE RemovalFails(Surplus(k)) /\ Abort(TRUE) /\ UNCHANGED <<listed, config>>
  <2>1. PICK gone \in SUBSET Surplus(k) : alive' = alive \ gone
    BY <1>7 DEF RemovalFails
  <2>2. gone \in SUBSET owned /\ dynamics' \in Dynamics /\ factor' \in Factors /\ UNCHANGED owned
    BY <1>1, <1>2, <1>3, <1>5, <1>7 DEF RemovalFails
  <2> QED BY <1>1, <1>2, <1>7, <2>1, <2>2, UnconfirmedStep
<1> QED BY <1>6, <1>7 DEF Reduce

-----------------------------------------------------------------------------
(* Actors of one kind are added, or some of them.                          *)
LEMMA Addition ==
  ASSUME ConstantsAssumption, SceneInv, status = "prepared", NEW k \in Populations, at = k \/ at = "newProp",
         NEW n \in 0..MaxPopulation[k], Cardinality(listed[k]) <= n
  PROVE  LET new == New(k, Tag(k), n - Cardinality(listed[k]))
         IN  /\ new \subseteq Actors /\ IsFiniteSet(new) /\ new \cap (alive \cup owned) = {}
             /\ Cardinality(new) = n - Cardinality(listed[k]) /\ \A a \in new : a[1] = k
             /\ ~uncertain /\ owned \subseteq alive /\ Populated /\ EgoKnown /\ Applied /\ Base = owned
             /\ IsFiniteSet(listed[k]) /\ Cardinality(listed[k]) \in Nat /\ listed[k] \subseteq owned
<1>1. /\ ~uncertain /\ owned \subseteq alive /\ Populated /\ EgoKnown /\ Applied /\ Base = owned
      /\ factor \in Factors /\ OfKind(owned, k) = listed[k]
  BY DEF SceneInv, Places, Faithful, Populations, Base, SettingsTyped, Populated
<1>2. /\ IsFiniteSet(listed[k]) /\ Cardinality(listed[k]) \in Nat /\ listed[k] \subseteq owned
  <2>1. listed[k] \in SUBSET owned /\ IsFiniteSet(owned)
    BY <1>1 DEF OfKind, SceneInv, Accounts
  <2> QED BY <2>1, FS_Subset, FS_CardinalityType
<1> DEFINE m == n - Cardinality(listed[k])
           new == New(k, Tag(k), m)
<1>3. m \in Nat /\ Cardinality(listed[k]) + m <= Size(k)
  BY <1>2, Sizes DEF Size, Populations
<1>4. {a \in OfKind(owned, k) : a[3] = Tag(k)} \subseteq listed[k]
  BY <1>1
<1>5. /\ new \subseteq {<<k, i, Tag(k)>> : i \in Slots(k)}
      /\ new \cap (alive \cup owned) = {} /\ IsFiniteSet(new) /\ Cardinality(new) = m
  <2> HIDE DEF m
  <2> QED BY <1>2, <1>3, <1>4, NewActors DEF SceneInv
<1>6. {<<k, i, Tag(k)>> : i \in Slots(k)} \subseteq Actors
  BY <1>1, NewTyped DEF Tag, Populations
<1>7. \A a \in new : a[1] = k
  BY <1>5
<1> HIDE DEF new
<1> QED BY <1>1, <1>2, <1>5, <1>6, <1>7 DEF new

LEMMA GrownStep ==
  ASSUME ConstantsAssumption, SceneInv, status = "prepared", NEW k \in Populations, at = k \/ at = "newProp",
         NEW n \in 0..MaxPopulation[k], Cardinality(listed[k]) <= n, NEW new,
         new = New(k, Tag(k), n - Cardinality(listed[k])), Spawned(new, new),
         listed' = [listed EXCEPT ![k] = @ \cup new], config' = [config EXCEPT ![k] = n],
         at' \in {"walker", "prop", "finish"}, before' = owned,
         UNCHANGED <<status, ego, cameras, wish, uncertain, dynamics, factor>>
  PROVE  SceneInv'
<1>1. /\ new \subseteq Actors /\ IsFiniteSet(new) /\ new \cap (alive \cup owned) = {}
      /\ Cardinality(new) = n - Cardinality(listed[k]) /\ \A a \in new : a[1] = k
      /\ ~uncertain /\ owned \subseteq alive /\ Populated /\ EgoKnown /\ Applied /\ Base = owned
      /\ IsFiniteSet(listed[k]) /\ Cardinality(listed[k]) \in Nat /\ listed[k] \subseteq owned
  BY Addition
<1>2. alive' = alive \cup new /\ owned' = owned \cup new /\ strays' = strays
  BY DEF Spawned
<1>3. Accounts'
  <2>1. strays' = strays \cup (new \ new) /\ Cardinality(strays') <= MaxStrays
    BY <1>2 DEF SceneInv, Accounts
  <2> QED BY <1>1, <1>2, <2>1, MadeAccounts DEF SceneInv
<1>4. config \in Configs
  BY DEF SceneInv, HandlerTyped
<1>5. /\ config' \in Configs /\ config'.ego = config.ego
      /\ config'.dynamics = config.dynamics /\ config'.factor = config.factor
      /\ \A j \in Populations : config'[j] = IF j = k THEN n ELSE config[j]
  BY <1>4, ConfigResized
<1>6. /\ listed' \in [Populations -> SUBSET Actors]
      /\ \A j \in Populations : listed'[j] = IF j = k THEN listed[j] \cup new ELSE listed[j]
  BY <1>1 DEF SceneInv, RecordsTyped
<1>7. HandlerTyped' /\ CamerasTyped' /\ Places' /\ RecordsTyped' /\ SettingsTyped'
  BY <1>1, <1>2, <1>5, <1>6 DEF SceneInv, HandlerTyped, CamerasTyped, Places, RecordsTyped, SettingsTyped, cameras
<1>8. /\ OfKind(owned', k) = OfKind(owned, k) \cup new
      /\ \A j \in Populations \cup {"ego"} : j # k => OfKind(owned', j) = OfKind(owned, j)
      /\ "ego" # k
  BY <1>1, <1>2 DEF OfKind, Populations
<1>9. Cardinality(listed[k] \cup new) = n
  <2>1. listed[k] \cap new = {}
    BY <1>1
  <2>2. Cardinality(listed[k] \cup new) = Cardinality(listed[k]) + Cardinality(new)
    BY <1>1, <2>1, Apart
  <2>3. n \in Int
    OBVIOUS
  <2> QED BY <1>1, <2>2, <2>3
<1>10. Base' = owned'
  BY DEF Base
<1>11. Populated'
  BY <1>1, <1>5, <1>6, <1>8, <1>9, <1>10 DEF Populated
<1>12. EgoKnown'
  <2>1. at \notin {"newEgo", "oldEgo"} /\ at' \notin {"newEgo", "oldEgo"}
    BY DEF Populations
  <2> QED BY <1>1, <1>5, <1>8, <1>10, <2>1 DEF EgoKnown
<1>13. owned' \subseteq alive' /\ Base' \subseteq owned' /\ Applied'
  BY <1>1, <1>2, <1>5, <1>10 DEF Applied
<1> QED BY <1>3, <1>7, <1>11, <1>12, <1>13 DEF SceneInv, Faithful

LEMMA HalfGrownStep ==
  ASSUME ConstantsAssumption, SceneInv, status = "prepared", NEW k \in Populations, at = k \/ at = "newProp",
         NEW n \in 0..MaxPopulation[k], Cardinality(listed[k]) <= n, NEW new,
         new = New(k, Tag(k), n - Cardinality(listed[k])), SpawnFails(new), at' = "rollback",
         before' = owned,
         UNCHANGED <<status, config, listed, ego, cameras, wish, uncertain, dynamics, factor>>
  PROVE  SceneInv'
<1>1. /\ new \subseteq Actors /\ IsFiniteSet(new) /\ new \cap (alive \cup owned) = {}
      /\ ~uncertain /\ owned \subseteq alive /\ Populated /\ EgoKnown /\ Applied /\ Base = owned
  BY Addition
<1>2. PICK spawned \in SUBSET new : \E known \in SUBSET spawned :
           Cardinality(strays \cup (spawned \ known)) <= MaxStrays /\ Spawned(spawned, known)
  BY DEF SpawnFails
<1>3. PICK known \in SUBSET spawned :
           Cardinality(strays \cup (spawned \ known)) <= MaxStrays /\ Spawned(spawned, known)
  BY <1>2
<1>4. Accounts'
  <2>1. IsFiniteSet(spawned) /\ spawned \cap (alive \cup owned) = {}
    BY <1>1, FS_Subset
  <2> QED BY <1>3, <2>1, MadeAccounts DEF SceneInv, Spawned
<1>5. HandlerTyped' /\ CamerasTyped' /\ Places' /\ RecordsTyped' /\ SettingsTyped'
  BY <1>1, <1>3 DEF SceneInv, HandlerTyped, CamerasTyped, Places, RecordsTyped, SettingsTyped, Spawned, cameras
<1>6. Base' = owned
  BY DEF Base
<1>7. Populated' /\ EgoKnown'
  <2>1. at \notin {"newEgo", "oldEgo"}
    BY DEF Populations
  <2> QED BY <1>1, <1>6, <2>1 DEF Populated, EgoKnown
<1>8. owned' \subseteq alive' /\ Base' \subseteq owned' /\ Applied'
  BY <1>1, <1>3, <1>6 DEF Applied, Spawned
<1> QED BY <1>4, <1>5, <1>7, <1>8 DEF SceneInv, Faithful

LEMMA ExtendStep ==
  ASSUME ConstantsAssumption, SceneInv, NEW k \in {"traffic", "walker"}, Extend(k)
  PROVE  SceneInv'
<1>1. at = k /\ status = "prepared" /\ wish \in Configs /\ k \in Populations
  BY DEF Extend, SceneInv, Places, HandlerTyped, Populations
<1>2. wish[k] \in 0..MaxPopulation[k]
  BY <1>1, ConfigPopulation
<1>3. Cardinality(listed[k]) <= wish[k]
  <2>1. Cardinality(listed[k]) \in Nat
    <3>1. OfKind(owned, k) = listed[k]
      BY <1>1 DEF SceneInv, Faithful, Places, Populated, Base
    <3>2. listed[k] \in SUBSET owned /\ IsFiniteSet(owned)
      BY <3>1 DEF OfKind, SceneInv, Accounts
    <3> QED BY <3>2, FS_Subset, FS_CardinalityType
  <2>2. wish[k] \in Nat /\ wish[k] > Cardinality(listed[k])
    BY <1>2 DEF Extend
  <2> QED BY <2>1, <2>2
<1> DEFINE new == New(k, Tag(k), wish[k] - Cardinality(listed[k]))
<1>4. /\ before' = owned
      /\ UNCHANGED <<status, ego, cameras, wish, uncertain, dynamics, factor>>
  BY DEF Extend
<1>5. CASE /\ Spawned(new, new)
           /\ listed' = [listed EXCEPT ![k] = @ \cup new]
           /\ config' = [config EXCEPT ![k] = wish[k]]
           /\ at' = After[k]
  <2>1. at' \in {"walker", "prop", "finish"}
    BY <1>5 DEF After
  <2> QED BY <1>1, <1>2, <1>3, <1>4, <1>5, <2>1, GrownStep
<1>6. CASE SpawnFails(new) /\ at' = "rollback" /\ UNCHANGED <<listed, config>>
  BY <1>1, <1>2, <1>3, <1>4, <1>6, HalfGrownStep
<1> QED BY <1>5, <1>6 DEF Extend

LEMMA SpawnPropsStep ==
  ASSUME ConstantsAssumption, SceneInv, SpawnProps
  PROVE  SceneInv'
<1>1. /\ at = "newProp" /\ status = "prepared" /\ wish \in Configs /\ "prop" \in Populations
      /\ listed["prop"] = {} /\ Cardinality(listed["prop"]) = 0
  BY FS_EmptySet DEF SpawnProps, SceneInv, Places, HandlerTyped, Populations
<1>2. wish["prop"] \in 0..MaxPopulation["prop"] /\ wish["prop"] = wish.prop
  BY <1>1, ConfigPopulation
<1>3. Cardinality(listed["prop"]) <= wish["prop"] /\ wish["prop"] - Cardinality(listed["prop"]) = wish["prop"]
  BY <1>1, <1>2
<1> DEFINE new == New("prop", Plain, wish.prop)
<1>4. /\ before' = owned
      /\ UNCHANGED <<status, ego, cameras, wish, uncertain, dynamics, factor>>
  BY DEF SpawnProps
<1>5. new = New("prop", Tag("prop"), wish["prop"] - Cardinality(listed["prop"]))
  BY <1>3 DEF Tag
<1>6. CASE /\ Spawned(new, new)
           /\ listed' = [listed EXCEPT !["prop"] = new]
           /\ config' = [config EXCEPT !.prop = wish.prop]
           /\ at' = "finish"
  <2>1. listed' = [listed EXCEPT !["prop"] = @ \cup new]
    BY <1>1, <1>6
  <2> HIDE DEF new
  <2> QED BY <1>1, <1>2, <1>3, <1>4, <1>5, <1>6, <2>1, GrownStep
<1>7. CASE SpawnFails(new) /\ at' = "rollback" /\ UNCHANGED <<listed, config>>
  <2> HIDE DEF new
  <2> QED BY <1>1, <1>2, <1>3, <1>4, <1>5, <1>7, HalfGrownStep
<1> QED BY <1>6, <1>7 DEF SpawnProps

LEMMA RemovePropsStep ==
  ASSUME ConstantsAssumption, SceneInv, RemoveProps
  PROVE  SceneInv'
<1>1. /\ at = "prop" /\ status = "prepared" /\ ~uncertain /\ config \in Configs
      /\ dynamics \in Dynamics /\ factor \in Factors /\ "prop" \in Populations
  BY DEF RemoveProps, SceneInv, Places, HandlerTyped, Populations, SettingsTyped
<1>2. UNCHANGED <<status, ego, cameras, wish, before, dynamics, factor, strays>>
  BY DEF RemoveProps
<1>3. OfKind(owned, "prop") = listed["prop"] /\ listed["prop"] \subseteq owned /\ Applied
  BY <1>1 DEF SceneInv, Faithful, Populated, Base, OfKind
<1>4. CASE at' = "finish" /\ UNCHANGED <<owned, alive, listed, config, uncertain>>
  <2>1. HandlerTyped' /\ CamerasTyped' /\ Places' /\ before' \subseteq Actors
    BY <1>1, <1>2, <1>4 DEF SceneInv, HandlerTyped, CamerasTyped, RecordsTyped, Places, cameras
  <2> QED BY <1>1, <1>2, <1>4, <2>1, QuietStep DEF scene, simulator
<1>5. CASE /\ Removed(OfKind(owned, "prop"))
           /\ listed' = [listed EXCEPT !["prop"] = {}] /\ config' = [config EXCEPT !.prop = 0]
           /\ at' = "newProp" /\ UNCHANGED uncertain
  <2>1. 0 \in 0..MaxPopulation["prop"]
    BY <1>1, Sizes
  <2>2. /\ config' \in Configs /\ config'.ego = config.ego
        /\ config'.dynamics = config.dynamics /\ config'.factor = config.factor
        /\ \A j \in Populations : config'[j] = IF j = "prop" THEN 0 ELSE config[j]
    BY <1>1, <1>5, <2>1, ConfigResized
  <2>3. listed["prop"] \ listed["prop"] = {} /\ Cardinality({}) = 0
    BY FS_EmptySet
  <2>4. listed' = [listed EXCEPT !["prop"] = @ \ listed["prop"]]
    BY <1>5, <2>3
  <2>5. /\ config'["prop"] = Cardinality(listed["prop"] \ listed["prop"])
        /\ \A j \in Populations : j # "prop" => config'[j] = config[j]
        /\ dynamics' = config'.dynamics /\ factor' = config'.factor
    BY <1>1, <1>2, <1>3, <2>2, <2>3 DEF Applied
  <2>6. Removed(listed["prop"])
    BY <1>3, <1>5
  <2> QED BY <1>1, <1>2, <1>5, <2>2, <2>4, <2>5, <2>6, ShrunkStep
<1>6. CASE RemovalFails(OfKind(owned, "prop")) /\ Abort(TRUE) /\ UNCHANGED <<listed, config>>
  <2>1. PICK gone \in SUBSET OfKind(owned, "prop") : alive' = alive \ gone
    BY <1>6 DEF RemovalFails
  <2>2. gone \in SUBSET owned /\ dynamics' \in Dynamics /\ factor' \in Factors /\ UNCHANGED owned
    BY <1>1, <1>2, <1>3, <1>6 DEF RemovalFails
  <2> QED BY <1>1, <1>2, <1>6, <2>1, <2>2, UnconfirmedStep
<1> QED BY <1>4, <1>5, <1>6 DEF RemoveProps

LEMMA RollbackStep ==
  ASSUME SceneInv, Rollback
  PROVE  SceneInv'
<1>1. /\ at = "rollback" /\ status = "prepared" /\ ~uncertain
      /\ UNCHANGED <<status, config, listed, ego, cameras, wish, before, dynamics, factor, strays>>
      /\ dynamics \in Dynamics /\ factor \in Factors
  BY DEF Rollback, SceneInv, Places, HandlerTyped, SettingsTyped
<1>2. /\ owned \subseteq alive /\ before \subseteq owned /\ Populated /\ EgoKnown /\ Applied
      /\ Base = before
  BY <1>1 DEF SceneInv, Faithful, Base
<1>3. CASE Removed(Additions) /\ Abort(FALSE)
  <2>1. owned' = before /\ at' = "abort" /\ uncertain' = uncertain
    BY <1>2, <1>3 DEF Removed, Additions, Abort, SceneInv, HandlerTyped
  <2>2. Accounts'
    <3>1. Additions \in SUBSET owned
      BY DEF Additions
    <3> QED BY <1>1, <1>3, <3>1, RemovedAccounts DEF SceneInv, Removed
  <2>3. HandlerTyped' /\ CamerasTyped' /\ Places' /\ RecordsTyped' /\ SettingsTyped'
    BY <1>1, <1>3, <2>1 DEF SceneInv, HandlerTyped, CamerasTyped, Places, RecordsTyped, SettingsTyped,
           Removed, cameras
  <2>4. Base' = before
    BY <2>1 DEF Base
  <2>5. Populated' /\ EgoKnown'
    BY <1>1, <1>2, <2>1, <2>4 DEF Populated, EgoKnown
  <2>6. owned' \subseteq alive' /\ Base' \subseteq owned' /\ Applied'
    BY <1>1, <1>2, <1>3, <2>1, <2>4 DEF Applied, Removed, Additions
  <2> QED BY <2>2, <2>3, <2>5, <2>6 DEF SceneInv, Faithful
<1>4. CASE RemovalFails(Additions) /\ Abort(TRUE)
  <2>1. PICK gone \in SUBSET Additions : alive' = alive \ gone
    BY <1>4 DEF RemovalFails
  <2>2. gone \in SUBSET owned /\ UNCHANGED owned
    BY <1>4 DEF RemovalFails, Additions
  <2> QED BY <1>1, <1>4, <2>1, <2>2, UnconfirmedStep
<1> QED BY <1>3, <1>4 DEF Rollback

-----------------------------------------------------------------------------
LEMMA SceneStep ==
  ASSUME ConstantsAssumption, SceneInv, [SceneNext]_sceneVars
  PROVE  SceneInv'
<1>1. CASE \E c \in Configs : BeginConfigure(c)
  BY <1>1, BeginConfigureStep
<1>2. CASE RemoveEgo \/ SpawnEgo \/ RestoreEgo
  BY <1>2, RemoveEgoStep, SpawnEgoStep, RestoreEgoStep
<1>3. CASE SetDynamics \/ SetFactor
  BY <1>3, DynamicsStep, FactorStep
<1>4. CASE \E k \in {"traffic", "walker"} : Reduce(k) \/ KeepPopulation(k) \/ Extend(k)
  BY <1>4, ReduceStep, KeepStep, ExtendStep
<1>5. CASE RemoveProps \/ SpawnProps \/ Rollback
  BY <1>5, RemovePropsStep, SpawnPropsStep, RollbackStep
<1>6. CASE Finish \/ AbortConfigure
  BY <1>6, FinishStep, AbortStep
<1>7. CASE AttachRig \/ \E kind \in {"garage", "attached"} : AttachCamera(kind)
  BY <1>7, CameraStep
<1>8. CASE Stop
  BY <1>8, StopStep
<1>9. CASE UNCHANGED sceneVars
  BY <1>9 DEF sceneVars, scene, cameras, handler, simulator, SceneInv, HandlerTyped, CamerasTyped,
         RecordsTyped, SettingsTyped, Accounts, NothingForgotten, Places, Faithful, Base, Populated,
         EgoKnown, Applied
<1> QED
  BY <1>1, <1>2, <1>3, <1>4, <1>5, <1>6, <1>7, <1>8, <1>9 DEF SceneNext, Deltas

(* The invariant of the reconfiguration, whatever each call does.          *)
THEOREM SceneInvariant == SceneSpec => []SceneInv
<1>1. SceneInit => SceneInv
  BY ConstantsAssumption, SceneStarts
<1>2. SceneInv /\ [SceneNext]_sceneVars => SceneInv'
  BY ConstantsAssumption, SceneStep
<1> QED BY <1>1, <1>2, PTL DEF SceneSpec

(* The scene, its handler and the simulator keep their types.              *)
THEOREM SceneTypes == SceneSpec => []SceneTypeOK
<1>1. SceneInv => SceneTypeOK
  BY DEF SceneInv, HandlerTyped, CamerasTyped, RecordsTyped, SettingsTyped, SceneTypeOK
<1> QED BY <1>1, SceneInvariant, PTL

(* A prepared scene advertises what the simulator has.                     *)
THEOREM SceneIsAsAdvertised == SceneSpec => []AdvertisedIsReal
<1>1. SceneInv => AdvertisedIsReal
  <2> SUFFICES ASSUME SceneInv, status = "prepared", Settled
               PROVE  /\ Real("ego") = {ego} /\ ego[3] = config.ego
                      /\ dynamics = config.dynamics /\ factor = config.factor
                      /\ \A k \in Populations :
                           Real(k) = listed[k] /\ Cardinality(listed[k]) = config[k]
    BY DEF AdvertisedIsReal
  <2>1. /\ ~uncertain /\ at \notin {"rollback", "newEgo", "oldEgo"}
    BY DEF Settled, SceneInv, Places
  <2>2. owned \subseteq alive /\ Populated /\ EgoKnown /\ Applied /\ Base = owned
    BY <2>1 DEF SceneInv, Faithful, Base
  <2>3. \A k : Real(k) = OfKind(owned, k)
    BY <2>2 DEF Real, OfKind, SceneInv, Accounts, NothingForgotten
  <2> QED BY <2>1, <2>2, <2>3 DEF Populated, EgoKnown, Applied
<1> QED BY <1>1, SceneInvariant, PTL

(* No actor is forgotten, except with the answer that named it.            *)
THEOREM EveryActorIsRecorded == SceneSpec => []NothingForgotten
<1>1. SceneInv => NothingForgotten
  BY DEF SceneInv, Accounts
<1> QED BY <1>1, SceneInvariant, PTL
=============================================================================
