------------------------- MODULE IdleMonitorProofs -------------------------
(***************************************************************************)
(* Proofs about IdleMonitor, for every number of channels that get the     *)
(* address one after the other, of reads and writes and of calls of        *)
(* reset_channel_timer.                                                    *)
(*                                                                         *)
(* What makes the monitor safe is that the address has one owner at a      *)
(* time: while a channel is connected, the ones before it are destroyed    *)
(* and the ones after it have not begun.  What keeps a timer that is off   *)
(* quiet is that nothing is left of its waits.                             *)
(***************************************************************************)
EXTENDS IdleMonitor, SequenceTheorems, TLAPS

Handlers == {"on", "off", "expired", "aborted", "event"}
ChanStates == {"none", "connected", "erased", "destroyed"}
Queues == [Channels -> Seq(Handlers)]

\* The address goes from one channel to the next when the first is destroyed.
OneAtATime(c) == \A j, k \in Channels : c[k] # "none" /\ j < k => c[j] = "destroyed"

\* A handler of an expired wait is queued.
Expired(q) == \E j \in Channels : \E n \in DOMAIN q[j] : q[j][n] = "expired"

\* Nothing is left of the waits of a timer that was turned off and not touched.
Quiet == monitor # NoMonitor /\ ~monitor.on /\ ~touched => ~monitor.armed /\ ~Expired(queue)

\* The resetter holds the context of a channel.
Holds == resetter # Nobody => resetter.ch \in Channels

IInv == TypeOK /\ OneAtATime(chan) /\ MonitorOfConnected /\ Quiet /\ Holds
-----------------------------------------------------------------------------
(* Queues of handlers.                                                      *)

\* A handler put on a strand.
LEMMA PushFacts ==
  ASSUME NEW q \in Queues, NEW k \in Channels, NEW h \in Handlers
  PROVE  /\ [q EXCEPT ![k] = Append(@, h)] \in Queues
         /\ h # "expired" /\ ~Expired(q) => ~Expired([q EXCEPT ![k] = Append(@, h)])
<1> DEFINE r == [q EXCEPT ![k] = Append(@, h)]
<1>1. q[k] \in Seq(Handlers) /\ Append(q[k], h) \in Seq(Handlers)
  BY DEF Queues
<1>2. r \in Queues
  BY <1>1 DEF Queues
<1>3. ASSUME h # "expired", Expired(r) PROVE Expired(q)
  <2>1. PICK j \in Channels : \E n \in DOMAIN r[j] : r[j][n] = "expired"
    BY <1>3 DEF Expired
  <2>2. CASE j # k
    BY <2>1, <2>2 DEF Expired, Queues
  <2>3. CASE j = k
    <3>1. r[j] = Append(q[k], h)
      BY <2>3 DEF Queues
    <3>2. PICK n \in DOMAIN Append(q[k], h) : Append(q[k], h)[n] = "expired"
      BY <2>1, <3>1
    <3>3. n \in 1 .. Len(q[k]) + 1 /\ n # Len(q[k]) + 1
      BY <1>1, <1>3, <3>2
    <3>4. n \in DOMAIN q[k] /\ q[k][n] = "expired"
      BY <1>1, <3>2, <3>3
    <3> QED
      BY <3>4 DEF Expired
  <2> QED
    BY <2>2, <2>3
<1> QED
  BY <1>2, <1>3

\* A handler taken from a strand.
LEMMA RestFacts ==
  ASSUME queue \in Queues, NEW k \in Channels, queue[k] # <<>>
  PROVE  /\ Rest(k) \in Queues
         /\ ~Expired(queue) => ~Expired(Rest(k))
         /\ Head(queue[k]) = "expired" => Expired(queue)
<1>1. queue[k] \in Seq(Handlers) /\ Len(queue[k]) \in Nat /\ Len(queue[k]) >= 1
  BY EmptySeq DEF Queues
<1>2. /\ Tail(queue[k]) \in Seq(Handlers) /\ Len(Tail(queue[k])) = Len(queue[k]) - 1
      /\ \A i \in 1 .. Len(Tail(queue[k])) : Tail(queue[k])[i] = queue[k][i + 1]
  BY <1>1, HeadTailProperties
<1>3. Rest(k) \in Queues
  BY <1>2 DEF Rest, Queues
<1>4. ASSUME Expired(Rest(k)) PROVE Expired(queue)
  <2>1. PICK j \in Channels : \E n \in DOMAIN Rest(k)[j] : Rest(k)[j][n] = "expired"
    BY <1>4 DEF Expired
  <2>2. CASE j # k
    BY <2>1, <2>2 DEF Expired, Queues, Rest
  <2>3. CASE j = k
    <3>1. Rest(k)[j] = Tail(queue[k])
      BY <2>3 DEF Queues, Rest
    <3>2. PICK n \in DOMAIN Tail(queue[k]) : Tail(queue[k])[n] = "expired"
      BY <2>1, <3>1
    <3>3. n \in 1 .. Len(Tail(queue[k])) /\ n + 1 \in 1 .. Len(queue[k])
      BY <1>1, <1>2, <3>2
    <3>4. queue[k][n + 1] = "expired" /\ n + 1 \in DOMAIN queue[k]
      BY <1>1, <1>2, <3>2, <3>3
    <3> QED
      BY <3>4 DEF Expired
  <2> QED
    BY <2>2, <2>3
<1>5. Head(queue[k]) = queue[k][1] /\ 1 \in DOMAIN queue[k]
  BY <1>1
<1> QED
  BY <1>3, <1>4, <1>5 DEF Expired

\* cancel() of the timer.
LEMMA CancelledFacts ==
  ASSUME TypeOK, NEW q \in Queues
  PROVE  Cancelled(q) \in Queues /\ (~Expired(q) => ~Expired(Cancelled(q)))
<1>1. monitor.armed => monitor.strand \in Channels
  BY DEF TypeOK
<1>2. "aborted" \in Handlers /\ "aborted" # "expired"
  BY DEF Handlers
<1> QED
  BY <1>1, <1>2, PushFacts DEF Cancelled

-----------------------------------------------------------------------------
(* The channel that has the address.                                        *)

\* ContextOf for the states c of the channels.
Context(c) == IF \E k \in Channels : c[k] = "connected"
              THEN CHOOSE k \in Channels : c[k] = "connected" ELSE 0

\* What a lookup by address finds: the connected channel, if there is one.
LEMMA ContextFacts ==
  ASSUME NEW c, OneAtATime(c)
  PROVE  /\ Context(c) # 0 => Context(c) \in Channels /\ c[Context(c)] = "connected"
         /\ \A k \in Channels : c[k] = "connected" => Context(c) = k
         /\ Context(c) \in Channels \cup {0}
<1>1. \A k \in Channels : k \in Nat /\ k # 0
  BY BoundsAssumption DEF Channels
<1>2. \A j, k \in Channels : c[j] = "connected" /\ c[k] = "connected" => j = k
  <2> SUFFICES ASSUME NEW j \in Channels, NEW k \in Channels,
                      c[j] = "connected", c[k] = "connected", j # k
               PROVE  FALSE
    OBVIOUS
  <2>1. j < k \/ k < j
    BY <1>1
  <2> QED
    BY <2>1 DEF OneAtATime
<1>3. CASE \E k \in Channels : c[k] = "connected"
  <2>1. Context(c) \in Channels /\ c[Context(c)] = "connected"
    BY <1>3 DEF Context
  <2> QED
    BY <1>1, <1>2, <2>1
<1>4. CASE ~\E k \in Channels : c[k] = "connected"
  BY <1>1, <1>4 DEF Context
<1> QED
  BY <1>3, <1>4

\* channel_context_of is a lookup in the channels as they are.
LEMMA ContextIs ==
  ContextOf = Context(chan) /\ ContextOf' = Context(chan')
BY DEF ContextOf, Context

\* No channel is connected while the address is with one that is not, or waits for one.
LEMMA NotConnected ==
  ASSUME NEW c, OneAtATime(c), NEW k \in Channels,
         \/ c[k] = "erased"
         \/ c[k] = "none" /\ \A j \in 1 .. k - 1 : c[j] = "destroyed"
  PROVE  Context(c) = 0
<1> SUFFICES ASSUME Context(c) # 0 PROVE FALSE
  OBVIOUS
<1>1. PICK j \in Channels : c[j] = "connected"
  BY ContextFacts
<1>2. j \in Nat /\ k \in Nat /\ j >= 1 /\ k >= 1 /\ j # k
  BY <1>1, BoundsAssumption DEF Channels
<1>3. CASE j < k
  <2>1. j \in 1 .. k - 1
    BY <1>2, <1>3
  <2> QED
    BY <1>1, <1>3, <2>1 DEF OneAtATime
<1>4. CASE k < j
  BY <1>1, <1>4 DEF OneAtATime
<1> QED
  BY <1>2, <1>3, <1>4
-----------------------------------------------------------------------------
(* The steps.                                                               *)

Monitors == [strand : {0} \cup Channels, on : BOOLEAN, armed : BOOLEAN]

\* TypeOK in the terms of this module.
LEMMA TypeFacts ==
  ASSUME TypeOK
  PROVE  /\ chan \in [Channels -> ChanStates] /\ queue \in Queues /\ monitor \in Monitors
         /\ monitor.on \in BOOLEAN /\ monitor.armed \in BOOLEAN
         /\ monitor.strand \in {0} \cup Channels
         /\ monitor.armed => monitor.strand \in Channels
BY DEF TypeOK, ChanStates, Queues, Monitors, Handlers

\* TypeOK from the types of the variables.
LEMMA TypeBack ==
  ASSUME /\ chan' \in [Channels -> ChanStates] /\ queue' \in Queues /\ monitor' \in Monitors
         /\ monitor'.armed => monitor'.strand # 0
         /\ resetter' \in [ch : {0} \cup Channels, on : BOOLEAN]
         /\ skipped' \in BOOLEAN /\ touched' \in BOOLEAN
         /\ count' \in [touch : 0 .. MaxTouches, reset : 0 .. MaxResets]
  PROVE  TypeOK'
BY DEF TypeOK, ChanStates, Queues, Monitors, Handlers

\* 0 stands for no channel.
LEMMA NoChannelZero == 0 \notin Channels
BY BoundsAssumption DEF Channels

\* channel_connected: no channel had the address, so there is no monitor either,
\* unless channel_disconnected was kept from it.
LEMMA ConnectedStep ==
  ASSUME IInv, NEW k \in Channels, NEW skip \in BOOLEAN, ChannelConnected(k, skip)
  PROVE  IInv'
<1>1. /\ chan \in [Channels -> ChanStates] /\ queue \in Queues /\ monitor \in Monitors
      /\ OneAtATime(chan) /\ MonitorOfConnected /\ Quiet /\ TypeOK
  BY TypeFacts DEF IInv
<1>2. /\ chan[k] = "none" /\ \A j \in 1 .. k - 1 : chan[j] = "destroyed"
      /\ chan' = [chan EXCEPT ![k] = "connected"]
      /\ UNCHANGED <<resetter, crash, skipped, touched, count>>
      /\ \/ monitor' = monitor /\ queue' = queue
         \/ monitor = NoMonitor /\ monitor' = [strand |-> k, on |-> TRUE, armed |-> TRUE] /\ queue' = queue
         \/ monitor' = monitor /\ queue' = [queue EXCEPT ![k] = Append(@, "aborted")]
  <2>1. CASE skip
    BY <2>1, Zenon DEF ChannelConnected
  <2>2. CASE ~skip /\ monitor = NoMonitor
    BY <2>2, Zenon DEF ChannelConnected
  <2>3. CASE ~skip /\ monitor # NoMonitor
    BY <2>3, Zenon DEF ChannelConnected
  <2> QED
    BY <2>1, <2>2, <2>3
<1>3. ContextOf = 0
  <2>1. OneAtATime(chan) /\ chan[k] = "none" /\ \A j \in 1 .. k - 1 : chan[j] = "destroyed"
    BY <1>1, <1>2
  <2>2. Context(chan) = 0
    BY <2>1, NotConnected, Zenon
  <2> QED
    BY <2>2, ContextIs
<1>4. OneAtATime(chan')
  <2> SUFFICES ASSUME NEW j \in Channels, NEW l \in Channels, chan'[l] # "none", j < l
               PROVE  chan'[j] = "destroyed"
    BY DEF OneAtATime
  <2>1. chan[j] = "destroyed"
    <3>1. CASE l = k
      <4>1. j \in 1 .. k - 1
        BY <3>1, BoundsAssumption DEF Channels
      <4> QED
        BY <1>2, <4>1
    <3>2. CASE l # k
      BY <1>1, <1>2, <3>2 DEF OneAtATime
    <3> QED
      BY <3>1, <3>2
  <2>2. j # k
    BY <1>2, <2>1
  <2> QED
    BY <1>1, <1>2, <2>1, <2>2
<1>5. chan'[k] = "connected" /\ chan' \in [Channels -> ChanStates]
  BY <1>1, <1>2 DEF ChanStates
<1>6. ContextOf' = k /\ k # 0
  BY <1>4, <1>5, ContextFacts, ContextIs, NoChannelZero
<1>7. queue' \in Queues /\ (~Expired(queue) => ~Expired(queue'))
  <2>1. "aborted" \in Handlers /\ "aborted" # "expired"
    BY DEF Handlers
  <2> QED
    BY <1>1, <1>2, <2>1, PushFacts
<1>8. monitor' \in Monitors /\ (monitor'.armed => monitor'.strand # 0)
  <2>1. CASE monitor' = monitor
    BY <1>1, <2>1 DEF TypeOK
  <2>2. CASE monitor' = [strand |-> k, on |-> TRUE, armed |-> TRUE]
    BY <1>6, <2>2 DEF Monitors
  <2> QED
    BY <1>2, <2>1, <2>2
<1>9. TypeOK'
  BY <1>1, <1>2, <1>5, <1>7, <1>8, TypeBack DEF TypeOK
<1>10. MonitorOfConnected'
  <2>1. ~skipped => monitor = NoMonitor /\ crash \notin {"null in timeout", "null in lambda"}
    BY <1>1, <1>3 DEF MonitorOfConnected
  <2>2. ~skipped => monitor' = NoMonitor \/ monitor' = [strand |-> k, on |-> TRUE, armed |-> TRUE]
    BY <1>2, <2>1
  <2>3. ~skipped => (monitor' # NoMonitor => monitor'.strand = k)
    BY <2>2
  <2> QED
    BY <1>2, <1>6, <2>1, <2>3 DEF MonitorOfConnected
<1>11. Quiet'
  <2>1. CASE monitor' = monitor
    BY <1>1, <1>2, <1>7, <2>1 DEF Quiet, Expired
  <2>2. CASE monitor' = [strand |-> k, on |-> TRUE, armed |-> TRUE]
    BY <2>2 DEF Quiet
  <2> QED
    BY <1>2, <2>1, <2>2
<1>12. Holds' /\ OneAtATime(chan)'
  BY <1>2, <1>4 DEF IInv, Holds, OneAtATime
<1> QED
  BY <1>9, <1>10, <1>11, <1>12 DEF IInv

\* channel_disconnected: the monitor goes first, and then the channel.
LEMMA DisconnectedStep ==
  ASSUME IInv, NEW k \in Channels, NEW skip \in BOOLEAN, ChannelDisconnected(k, skip)
  PROVE  IInv'
<1>1. /\ chan \in [Channels -> ChanStates] /\ queue \in Queues /\ monitor \in Monitors
      /\ OneAtATime(chan) /\ MonitorOfConnected /\ Quiet /\ TypeOK
  BY TypeFacts DEF IInv
<1>2. /\ chan[k] = "connected" /\ chan' = [chan EXCEPT ![k] = "erased"]
      /\ UNCHANGED <<resetter, crash, touched, count>>
      /\ skipped' = (skipped \/ (skip /\ monitor # NoMonitor))
      /\ \/ skip /\ monitor' = monitor /\ queue' = queue
         \/ monitor' = NoMonitor /\ queue' = Cancelled(queue)
  BY DEF ChannelDisconnected, EraseMonitor
<1>3. chan' \in [Channels -> ChanStates]
  BY <1>1, <1>2 DEF ChanStates
<1>4. OneAtATime(chan)'
  BY <1>1, <1>2 DEF OneAtATime
<1>5. queue' \in Queues /\ (~Expired(queue) => ~Expired(queue'))
  BY <1>1, <1>2, CancelledFacts
<1>6. NoMonitor \in Monitors /\ ~NoMonitor.armed
  BY DEF NoMonitor, Monitors
<1>7. monitor' \in Monitors /\ (monitor'.armed => monitor'.strand # 0)
  BY <1>1, <1>2, <1>6 DEF TypeOK
<1>8. TypeOK'
  BY <1>1, <1>2, <1>3, <1>5, <1>7, TypeBack DEF TypeOK
<1>9. MonitorOfConnected'
  <2>1. ~skipped' => monitor' = NoMonitor
    BY <1>2
  <2> QED
    BY <1>1, <1>2, <2>1 DEF MonitorOfConnected
<1>10. Quiet'
  BY <1>1, <1>2, <1>5 DEF Quiet, Expired
<1>11. Holds'
  BY <1>2 DEF IInv, Holds
<1> QED
  BY <1>4, <1>8, <1>9, <1>10, <1>11 DEF IInv

\* The destructor of a channel keeps the invariant.
LEMMA DestroyStep ==
  ASSUME IInv, NEW k \in Channels, Destroy(k)
  PROVE  IInv'
<1>1. /\ chan \in [Channels -> ChanStates] /\ queue \in Queues /\ monitor \in Monitors
      /\ OneAtATime(chan) /\ MonitorOfConnected /\ Quiet /\ TypeOK
  BY TypeFacts DEF IInv
<1>2. /\ chan[k] = "erased" /\ chan' = [chan EXCEPT ![k] = "destroyed"]
      /\ UNCHANGED <<monitor, queue, resetter, crash, skipped, touched, count>>
  BY DEF Destroy
<1>3. chan' \in [Channels -> ChanStates]
  BY <1>1, <1>2 DEF ChanStates
<1>4. OneAtATime(chan)' /\ OneAtATime(chan')
  BY <1>1, <1>2 DEF OneAtATime
<1>5. ContextOf = 0
  BY <1>1, <1>2, NotConnected, ContextIs
<1>6. TypeOK'
  BY <1>1, <1>2, <1>3 DEF TypeOK, ChanStates
<1>7. MonitorOfConnected'
  <2>1. ~skipped => monitor = NoMonitor /\ crash \notin {"null in timeout", "null in lambda"}
    BY <1>1, <1>5 DEF MonitorOfConnected
  <2> QED
    BY <1>2, <2>1 DEF MonitorOfConnected
<1>8. Quiet' /\ Holds'
  BY <1>1, <1>2 DEF IInv, Quiet, Holds, Expired
<1> QED
  BY <1>4, <1>6, <1>7, <1>8 DEF IInv

\* A read or a write starts the timer again, on the strand of its channel.
LEMMA TouchStep ==
  ASSUME IInv, NEW k \in Channels, Touch(k)
  PROVE  IInv'
<1>1. /\ chan \in [Channels -> ChanStates] /\ queue \in Queues /\ monitor \in Monitors
      /\ OneAtATime(chan) /\ MonitorOfConnected /\ Quiet /\ TypeOK
      /\ monitor.on \in BOOLEAN
  BY TypeFacts DEF IInv
<1>2. /\ chan[k] \in {"connected", "erased"} /\ UNCHANGED <<chan, resetter, crash, skipped>>
      /\ touched' = (touched \/ ~monitor.on)
      /\ \/ monitor = NoMonitor /\ monitor' = monitor /\ queue' = queue
         \/ monitor' = [monitor EXCEPT !.armed = TRUE, !.strand = k] /\ queue' = Cancelled(queue)
  BY DEF Touch, ResetTimer
<1>3. count' \in [touch : 0 .. MaxTouches, reset : 0 .. MaxResets]
  BY <1>1, BoundsAssumption DEF Touch, Use, TypeOK
<1>4. queue' \in Queues
  BY <1>1, <1>2, CancelledFacts
<1>5. /\ monitor' \in Monitors /\ (monitor'.armed => monitor'.strand # 0)
      /\ monitor'.on = monitor.on
      /\ monitor' = monitor \/ monitor'.strand = k
  BY <1>1, <1>2, NoChannelZero DEF Monitors, TypeOK
<1>6. TypeOK'
  BY <1>1, <1>2, <1>3, <1>4, <1>5, TypeBack DEF TypeOK
<1>7. MonitorOfConnected'
  <2>1. ContextOf' = ContextOf
    BY <1>2 DEF ContextOf
  <2>2. ~skipped /\ monitor # NoMonitor => ContextOf = k
    <3> SUFFICES ASSUME ~skipped, monitor # NoMonitor PROVE ContextOf = k
      OBVIOUS
    <3>1. ContextOf # 0
      BY <1>1 DEF MonitorOfConnected
    <3>2. chan[k] = "connected"
      BY <1>1, <1>2, <3>1, NotConnected, ContextIs
    <3> QED
      BY <1>1, <3>2, ContextFacts, ContextIs
  <2>3. ~skipped /\ monitor' # NoMonitor => monitor # NoMonitor /\ ContextOf = k
    <3>1. CASE monitor = NoMonitor /\ monitor' = monitor
      BY <3>1
    <3>2. CASE monitor # NoMonitor
      BY <2>2, <3>2
    <3>3. CASE monitor = NoMonitor /\ monitor' = [monitor EXCEPT !.armed = TRUE, !.strand = k]
      BY <3>3 DEF Touch, ResetTimer, NoMonitor
    <3> QED
      BY <1>2, <3>1, <3>2, <3>3
  <2> QED
    BY <1>1, <1>2, <1>5, <2>1, <2>3, NoChannelZero DEF MonitorOfConnected
<1>8. Quiet'
  BY <1>1, <1>2, <1>5 DEF Quiet, Expired
<1>9. OneAtATime(chan)' /\ Holds'
  BY <1>1, <1>2 DEF IInv, OneAtATime, Holds
<1> QED
  BY <1>6, <1>7, <1>8, <1>9 DEF IInv

\* What the callbacks keep when the channels and the resetter stay as they are.
LEMMA QuietChannels ==
  ASSUME IInv, chan' = chan, resetter' = resetter \/ resetter' = Nobody
  PROVE  OneAtATime(chan)' /\ Holds' /\ ContextOf' = ContextOf
BY DEF IInv, OneAtATime, Holds, ContextOf

\* reset_channel_timer looks for the context ...
LEMMA LookupStep ==
  ASSUME IInv, NEW on \in BOOLEAN, ResetLookup(on)
  PROVE  IInv'
<1>1. /\ OneAtATime(chan) /\ MonitorOfConnected /\ Quiet /\ TypeOK
  BY DEF IInv
<1>2. /\ UNCHANGED <<chan, monitor, queue, skipped, touched>>
      /\ \/ crash' = "null in reset_channel_timer" /\ resetter' = resetter
         \/ ContextOf # 0 /\ resetter' = [ch |-> ContextOf, on |-> on] /\ crash' = crash
  BY DEF ResetLookup
<1>3. count' \in [touch : 0 .. MaxTouches, reset : 0 .. MaxResets]
  <2>1. /\ count \in [touch : 0 .. MaxTouches, reset : 0 .. MaxResets]
        /\ count["reset"] < MaxResets /\ count' = [count EXCEPT !["reset"] = @ + 1]
    BY <1>1 DEF ResetLookup, Use, TypeOK
  <2> QED
    BY <2>1, BoundsAssumption
<1>4. ContextOf # 0 => ContextOf \in Channels
  BY <1>1, ContextFacts, ContextIs
<1>5. /\ resetter' \in [ch : {0} \cup Channels, on : BOOLEAN]
      /\ resetter' = resetter \/ resetter'.ch \in Channels
  <2>1. CASE resetter' = resetter
    BY <1>1, <2>1 DEF TypeOK
  <2>2. CASE ContextOf # 0 /\ resetter' = [ch |-> ContextOf, on |-> on]
    BY <1>4, <2>2
  <2> QED
    BY <1>2, <2>1, <2>2
<1>6. TypeOK'
  BY <1>1, <1>2, <1>3, <1>5 DEF TypeOK
<1>7. MonitorOfConnected'
  BY <1>1, <1>2 DEF MonitorOfConnected, ContextOf
<1>8. Quiet' /\ OneAtATime(chan)'
  BY <1>1, <1>2 DEF Quiet, OneAtATime, Expired
<1>9. Holds'
  BY <1>5 DEF IInv, Holds
<1> QED
  BY <1>6, <1>7, <1>8, <1>9 DEF IInv

\* ... and posts to its strand.
LEMMA PostStep ==
  ASSUME IInv, ResetPost
  PROVE  IInv'
<1> DEFINE h == IF resetter.on THEN "on" ELSE "off"
           k == resetter.ch
<1>1. /\ OneAtATime(chan) /\ MonitorOfConnected /\ Quiet /\ TypeOK /\ queue \in Queues
  BY TypeFacts DEF IInv
<1>2. k \in Channels /\ h \in Handlers /\ h # "expired"
  BY DEF IInv, Holds, ResetPost, Handlers
<1>3. /\ UNCHANGED <<chan, monitor, skipped, touched, count>> /\ resetter' = Nobody
      /\ \/ crash' = "dangling in reset_channel_timer" /\ queue' = queue
         \/ queue' = [queue EXCEPT ![k] = Append(@, h)] /\ crash' = crash
  BY DEF ResetPost
<1>4. queue' \in Queues /\ (~Expired(queue) => ~Expired(queue'))
  <2> HIDE DEF h, k
  <2> QED
    BY <1>1, <1>2, <1>3, PushFacts
<1>5. Nobody \in [ch : {0} \cup Channels, on : BOOLEAN]
  BY DEF Nobody
<1>6. TypeOK'
  BY <1>1, <1>3, <1>4, <1>5 DEF TypeOK, Queues, Handlers
<1>7. OneAtATime(chan)' /\ Holds' /\ ContextOf' = ContextOf
  BY <1>3, QuietChannels
<1>8. MonitorOfConnected'
  BY <1>1, <1>3, <1>7 DEF MonitorOfConnected
<1>9. Quiet'
  BY <1>1, <1>3, <1>4 DEF Quiet, Expired
<1> QED
  BY <1>6, <1>7, <1>8, <1>9 DEF IInv

\* The posted lambda turns the timer on or off.
LEMMA RunResetStep ==
  ASSUME IInv, NEW k \in Channels, NEW h \in {"on", "off"}, RunReset(k, h)
  PROVE  IInv'
<1> DEFINE on == [strand |-> ContextOf, on |-> TRUE, armed |-> TRUE]
           off == [monitor EXCEPT !.on = FALSE, !.armed = FALSE]
<1>1. /\ OneAtATime(chan) /\ MonitorOfConnected /\ Quiet /\ TypeOK
      /\ queue \in Queues /\ monitor \in Monitors
  BY TypeFacts DEF IInv
<1>2. queue[k] # <<>> /\ UNCHANGED <<chan, resetter, skipped, count>>
  BY DEF RunReset, Running
<1>3. Rest(k) \in Queues /\ (~Expired(queue) => ~Expired(Rest(k)))
  BY <1>1, <1>2, RestFacts
<1>4. Cancelled(Rest(k)) \in Queues /\ (~Expired(Rest(k)) => ~Expired(Cancelled(Rest(k))))
  BY <1>1, <1>3, CancelledFacts
<1>5. \/ /\ monitor = NoMonitor \/ ContextOf = 0
         /\ queue' = Rest(k) /\ monitor' = monitor /\ touched' = touched
         /\ crash' = crash \/ (monitor # NoMonitor /\ ContextOf = 0)
      \/ /\ monitor # NoMonitor /\ ContextOf # 0 /\ queue' = Cancelled(Rest(k)) /\ crash' = crash
         /\ \/ monitor' = on /\ touched' = FALSE
            \/ monitor' = off /\ touched' = Expired(Rest(k))
  <2>1. CASE monitor = NoMonitor
    BY <2>1 DEF RunReset
  <2>2. CASE monitor # NoMonitor /\ ContextOf = 0
    BY <2>2 DEF RunReset
  <2>3. CASE monitor # NoMonitor /\ ContextOf # 0 /\ h = "on"
    BY <2>3 DEF RunReset
  <2>4. CASE monitor # NoMonitor /\ ContextOf # 0 /\ h = "off"
    BY <2>4 DEF RunReset, TurnOff, Expired
  <2> QED
    BY <2>1, <2>2, <2>3, <2>4
<1>6. ContextOf \in Channels \cup {0}
  BY <1>1, ContextFacts, ContextIs
<1>7. /\ on.strand = ContextOf /\ on.on /\ on.armed /\ ~off.on /\ ~off.armed /\ off \in Monitors
      /\ ContextOf # 0 => on \in Monitors
  BY <1>1, <1>6 DEF Monitors
<1> HIDE DEF on, off
<1>8. /\ queue' \in Queues /\ monitor' \in Monitors /\ touched' \in BOOLEAN
      /\ monitor'.armed => monitor'.strand # 0
  <2>1. CASE queue' = Rest(k) /\ monitor' = monitor /\ touched' = touched
    BY <1>1, <1>3, <2>1 DEF TypeOK
  <2>2. CASE ContextOf # 0 /\ queue' = Cancelled(Rest(k)) /\ monitor' = on /\ touched' = FALSE
    BY <1>4, <1>7, <2>2
  <2>3. CASE queue' = Cancelled(Rest(k)) /\ monitor' = off /\ touched' = Expired(Rest(k))
    <3>1. Expired(Rest(k)) \in BOOLEAN
      BY DEF Expired
    <3> QED
      BY <1>4, <1>7, <2>3, <3>1
  <2> QED
    BY <1>5, <2>1, <2>2, <2>3
<1>9. TypeOK'
  BY <1>1, <1>2, <1>8 DEF TypeOK, Queues, Handlers, Monitors
<1>10. OneAtATime(chan)' /\ Holds' /\ ContextOf' = ContextOf
  BY <1>2, QuietChannels
<1>11. MonitorOfConnected'
  BY <1>1, <1>2, <1>5, <1>7, <1>10 DEF MonitorOfConnected
<1>12. Quiet'
  <2>1. CASE monitor' = monitor /\ queue' = Rest(k) /\ touched' = touched
    BY <1>1, <1>3, <2>1 DEF Quiet, Expired
  <2>2. CASE monitor' = on
    BY <1>7, <2>2 DEF Quiet
  <2>3. CASE monitor' = off /\ touched' = Expired(Rest(k)) /\ queue' = Cancelled(Rest(k))
    BY <1>4, <1>7, <2>3 DEF Quiet, Expired
  <2> QED
    BY <1>5, <2>1, <2>2, <2>3
<1> QED
  BY <1>9, <1>10, <1>11, <1>12 DEF IInv

\* The wait is over.
LEMMA ExpireStep ==
  ASSUME IInv, Expire
  PROVE  IInv'
<1>1. /\ OneAtATime(chan) /\ MonitorOfConnected /\ Quiet /\ TypeOK
      /\ queue \in Queues /\ monitor \in Monitors /\ monitor.strand \in Channels
  BY TypeFacts DEF IInv, Expire
<1>2. /\ monitor.armed /\ monitor' = [monitor EXCEPT !.armed = FALSE]
      /\ queue' = [queue EXCEPT ![monitor.strand] = Append(@, "expired")]
      /\ UNCHANGED <<chan, resetter, crash, skipped, touched, count>>
  BY DEF Expire
<1>3. queue' \in Queues
  <2>1. "expired" \in Handlers
    BY DEF Handlers
  <2> QED
    BY <1>1, <1>2, <2>1, PushFacts
<1>4. /\ monitor' \in Monitors /\ ~monitor'.armed /\ monitor'.on = monitor.on
      /\ monitor # NoMonitor
  <2>1. monitor' \in Monitors /\ ~monitor'.armed /\ monitor'.on = monitor.on
    BY <1>1, <1>2 DEF Monitors
  <2>2. ~NoMonitor.armed
    BY DEF NoMonitor
  <2> QED
    BY <1>2, <2>1, <2>2
<1>5. TypeOK'
  BY <1>1, <1>2, <1>3, <1>4 DEF TypeOK, Queues, Handlers, Monitors
<1>6. OneAtATime(chan)' /\ Holds' /\ ContextOf' = ContextOf
  BY <1>2, QuietChannels
<1>7. MonitorOfConnected'
  BY <1>1, <1>2, <1>4, <1>6 DEF MonitorOfConnected
<1>8. Quiet'
  BY <1>1, <1>2, <1>4 DEF Quiet
<1> QED
  BY <1>5, <1>6, <1>7, <1>8 DEF IInv

\* timeout, for the channel that has the address.
LEMMA TimeoutStep ==
  ASSUME IInv, NEW k \in Channels, NEW h \in {"expired", "aborted"}, Timeout(k, h)
  PROVE  IInv'
<1> DEFINE fired == [Rest(k) EXCEPT ![ContextOf] = Append(@, "event")]
           again == [monitor EXCEPT !.armed = TRUE, !.strand = ContextOf]
<1>1. /\ OneAtATime(chan) /\ MonitorOfConnected /\ Quiet /\ TypeOK
      /\ queue \in Queues /\ monitor \in Monitors
  BY TypeFacts DEF IInv
<1>2. queue[k] # <<>> /\ Head(queue[k]) = h /\ UNCHANGED <<chan, resetter, skipped, touched, count>>
  BY DEF Timeout, Running
<1>3. /\ Rest(k) \in Queues /\ (~Expired(queue) => ~Expired(Rest(k)))
      /\ h = "expired" => Expired(queue)
  BY <1>1, <1>2, RestFacts
<1>4. \/ queue' = Rest(k) /\ monitor' = monitor /\ crash' = crash
      \/ queue' = Rest(k) /\ monitor' = monitor /\ monitor # NoMonitor /\ ContextOf = 0
      \/ /\ h = "expired" /\ monitor # NoMonitor /\ ContextOf # 0
         /\ monitor' = again /\ queue' = Cancelled(fired) /\ crash' = crash
  BY DEF Timeout, Ignored, ResetTimer
<1>5. ContextOf # 0 => ContextOf \in Channels
  BY <1>1, ContextFacts, ContextIs
<1>6. ContextOf # 0 => Cancelled(fired) \in Queues
  <2>1. "event" \in Handlers
    BY DEF Handlers
  <2>2. ContextOf # 0 => fired \in Queues
    BY <1>3, <1>5, <2>1, PushFacts
  <2> QED
    BY <1>1, <2>2, CancelledFacts
<1>7. ContextOf # 0 => again \in Monitors /\ again.strand = ContextOf /\ again.on = monitor.on
  BY <1>1, <1>5 DEF Monitors
<1> HIDE DEF fired, again
<1>8. queue' \in Queues /\ monitor' \in Monitors /\ (monitor'.armed => monitor'.strand # 0)
  BY <1>1, <1>3, <1>4, <1>6, <1>7 DEF TypeOK
<1>9. TypeOK'
  BY <1>1, <1>2, <1>8 DEF TypeOK, Queues, Handlers, Monitors
<1>10. OneAtATime(chan)' /\ Holds' /\ ContextOf' = ContextOf
  BY <1>2, QuietChannels
<1>11. MonitorOfConnected'
  BY <1>1, <1>2, <1>4, <1>7, <1>10 DEF MonitorOfConnected
<1>12. Quiet'
  <2>1. CASE monitor' = monitor /\ queue' = Rest(k)
    BY <1>1, <1>2, <1>3, <2>1 DEF Quiet, Expired
  <2>2. CASE h = "expired" /\ monitor # NoMonitor /\ ContextOf # 0 /\ monitor' = again
    <3>1. monitor.on \/ touched
      BY <1>1, <1>3, <2>2 DEF Quiet
    <3> QED
      BY <1>2, <1>7, <2>2, <3>1 DEF Quiet
  <2> QED
    BY <1>4, <2>1, <2>2
<1> QED
  BY <1>9, <1>10, <1>11, <1>12 DEF IInv

\* The user_event callback keeps the invariant.
LEMMA EventStep ==
  ASSUME IInv, NEW k \in Channels, RunEvent(k)
  PROVE  IInv'
<1>1. /\ OneAtATime(chan) /\ MonitorOfConnected /\ Quiet /\ TypeOK /\ queue \in Queues
  BY TypeFacts DEF IInv
<1>2. /\ queue[k] # <<>> /\ queue' = Rest(k)
      /\ crash' = crash \/ crash' = "dangling in fire_user_event"
      /\ UNCHANGED <<chan, monitor, resetter, skipped, touched, count>>
  BY DEF RunEvent, Running
<1>3. queue' \in Queues /\ (~Expired(queue) => ~Expired(queue'))
  BY <1>1, <1>2, RestFacts
<1>4. TypeOK'
  BY <1>1, <1>2, <1>3 DEF TypeOK, Queues, Handlers
<1>5. OneAtATime(chan)' /\ Holds' /\ ContextOf' = ContextOf
  BY <1>2, QuietChannels
<1>6. MonitorOfConnected'
  BY <1>1, <1>2, <1>5 DEF MonitorOfConnected
<1>7. Quiet'
  BY <1>1, <1>2, <1>3 DEF Quiet, Expired
<1> QED
  BY <1>4, <1>5, <1>6, <1>7 DEF IInv

-----------------------------------------------------------------------------
(* The theorems.                                                            *)

\* The invariant holds at the start.
LEMMA InitInv == Init => IInv
<1> SUFFICES ASSUME Init PROVE IInv
  OBVIOUS
<1>1. TypeOK
  <2>1. queue \in Queues /\ monitor \in Monitors
    BY DEF Init, Queues, NoMonitor, Monitors
  <2>2. chan \in [Channels -> ChanStates] /\ skipped \in BOOLEAN /\ touched \in BOOLEAN
    BY DEF Init, ChanStates
  <2>3. ~monitor.armed
    BY DEF Init, NoMonitor
  <2>4. resetter \in [ch : {0} \cup Channels, on : BOOLEAN]
    BY DEF Init, Nobody
  <2>5. count \in [touch : 0 .. MaxTouches, reset : 0 .. MaxResets]
    BY BoundsAssumption DEF Init
  <2> QED
    BY <2>1, <2>2, <2>3, <2>4, <2>5 DEF TypeOK, Queues, Handlers, Monitors, ChanStates
<1>2. OneAtATime(chan) /\ Quiet /\ Holds
  BY DEF Init, OneAtATime, Quiet, Holds
<1>3. MonitorOfConnected
  BY DEF Init, MonitorOfConnected
<1> QED
  BY <1>1, <1>2, <1>3 DEF IInv

\* Every step keeps the invariant.
LEMMA NextInv == IInv /\ [Next]_vars => IInv'
<1> SUFFICES ASSUME IInv, [Next]_vars PROVE IInv'
  OBVIOUS
<1>1. ASSUME NEW k \in Channels, Run(k) PROVE IInv'
  BY <1>1, RunResetStep, TimeoutStep, EventStep DEF Run
<1>2. CASE UNCHANGED vars
  <2>1. TypeOK' /\ Quiet'
    BY <1>2 DEF vars, IInv, TypeOK, Quiet, Expired
  <2>2. OneAtATime(chan)' /\ Holds' /\ ContextOf' = ContextOf
    BY <1>2, QuietChannels DEF vars
  <2>3. MonitorOfConnected'
    BY <1>2, <2>2 DEF vars, IInv, MonitorOfConnected
  <2> QED
    BY <2>1, <2>2, <2>3 DEF IInv
<1> QED
  BY <1>1, <1>2, ConnectedStep, DisconnectedStep, DestroyStep, TouchStep,
     LookupStep, PostStep, ExpireStep DEF Next

\* tcp_idle_monitor.h: whatever waits, resets and reads are under way when the channel
\* goes and its address is used again, a monitor belongs to the channel that is
\* connected, unless channel_disconnected was kept from it.
THEOREM MonitorIsSafe == Spec => []IdleSafe
<1>1. IInv => IdleSafe
  BY DEF IInv, IdleSafe
<1> QED
  BY <1>1, InitInv, NextInv, PTL DEF Spec

\* tcp_idle_monitor.h: a timer that reset_channel_timer turned off fires no event,
\* unless the channel was read or written since, or its wait had expired already.
THEOREM TimerOffIsQuiet == Spec => OffIsQuiet
<1>1. IInv => [\A k \in Channels :
                 Timeout(k, "expired") /\ monitor # NoMonitor /\ ~monitor.on => touched]_vars
  <2> SUFFICES ASSUME IInv, NEW k \in Channels, Timeout(k, "expired"), monitor # NoMonitor, ~monitor.on
               PROVE  touched
    OBVIOUS
  <2>1. queue \in Queues /\ queue[k] # <<>> /\ Head(queue[k]) = "expired"
    BY TypeFacts DEF IInv, Timeout, Running
  <2>2. Expired(queue)
    BY <2>1, RestFacts
  <2> QED
    BY <2>2 DEF IInv, Quiet
<1> QED
  BY <1>1, InitInv, NextInv, PTL DEF Spec, OffIsQuiet
=============================================================================
