---------------------------- MODULE IdleMonitor ----------------------------
(***************************************************************************)
(* tcp_idle_monitor, a handler of the pipeline that gives each connected   *)
(* channel a timer and fires a user event when the channel was idle.       *)
(*                                                                         *)
(* The monitor finds channels by id, and an id is the address of the       *)
(* channel's object: when the object is gone, the address may be given to  *)
(* a later one.  The module follows one address.  The channels that have   *)
(* it one after the other are numbered; each has a strand of its own,      *)
(* whose handlers may run after the channel is gone.  asio's timer is      *)
(* external: cancelling it completes a pending wait with an error, and     *)
(* does not recall a handler that is queued already.                       *)
(***************************************************************************)
EXTENDS Naturals, Sequences

CONSTANTS MaxChannels, \* bound: channels that get the address
          MaxTouches,  \* bound: reads and writes
          MaxResets    \* bound: calls of reset_channel_timer

ASSUME BoundsAssumption == MaxChannels \in Nat \ {0} /\ MaxTouches \in Nat /\ MaxResets \in Nat

Channels == 1 .. MaxChannels
NoMonitor == [strand |-> 0, on |-> FALSE, armed |-> FALSE]
Nobody == [ch |-> 0, on |-> FALSE]

VARIABLES
  chan,     \* chan[k]: none, connected (in the service's map), erased or destroyed
  monitor,  \* _monitors at the address: whether its timer is on and a wait is
            \* pending, and the strand that will run the handler of the wait
  queue,    \* queue[k]: handlers on the strand of channel k
  resetter, \* reset_channel_timer in another thread: the context it looked up
  crash,    \* "none", or the use of a context that does not exist
  skipped,  \* history: an earlier handler kept channel_disconnected from the monitor
  touched,  \* history: traffic, or a wait that had expired, since the timer was off
  count     \* how much of each bound is used

vars == <<chan, monitor, queue, resetter, crash, skipped, touched, count>>

Init ==
  /\ chan = [k \in Channels |-> "none"]
  /\ monitor = NoMonitor
  /\ queue = [k \in Channels |-> <<>>]
  /\ resetter = Nobody
  /\ crash = "none" /\ skipped = FALSE /\ touched = FALSE
  /\ count = [touch |-> 0, reset |-> 0]

Alive == crash = "none"
Use(b, max) == count[b] < max /\ count' = [count EXCEPT ![b] = @ + 1]

\* channel_context_of: the channel in the map, 0 for nullptr
ContextOf == IF \E k \in Channels : chan[k] = "connected"
             THEN CHOOSE k \in Channels : chan[k] = "connected" ELSE 0

\* asio: a cancelled wait has its handler queued with an error.
Cancelled(q) ==
  IF monitor.armed THEN [q EXCEPT ![monitor.strand] = Append(@, "aborted")] ELSE q

\* Fault: the timer is not started again.
M_ResetTimer(k, q) == monitor' = [monitor EXCEPT !.armed = FALSE] /\ queue' = Cancelled(q)

\* _monitor::reset_timer(handler): the wait of before is cancelled and a new one
\* begins, with whatever _expire_time is: 0 when the timer was turned off
ResetTimer(k, q) ==
  /\ monitor' = [monitor EXCEPT !.armed = TRUE, !.strand = k]
  /\ queue' = Cancelled(q)

\* Fault: the wait goes on.
M_TurnOff(q) == monitor' = [monitor EXCEPT !.on = FALSE] /\ queue' = q

\* _monitor::reset_timer(id, 0, ...)
TurnOff(q) == monitor' = [monitor EXCEPT !.on = FALSE, !.armed = FALSE] /\ queue' = Cancelled(q)

-----------------------------------------------------------------------------
(* Callbacks of the pipeline.  skip: a handler before the monitor throws or *)
(* calls done(true), and the monitor is not called.                         *)

\* channel_connected of a new channel.  emplace keeps a monitor that is there
\* already; the new one is destroyed, and its wait cancelled.
ChannelConnected(k, skip) ==
  /\ Alive /\ chan[k] = "none"
  /\ \A j \in 1 .. k - 1 : chan[j] = "destroyed"
  /\ chan' = [chan EXCEPT ![k] = "connected"]
  /\ IF skip THEN UNCHANGED <<monitor, queue>>
     ELSE IF monitor = NoMonitor
     THEN monitor' = [strand |-> k, on |-> TRUE, armed |-> TRUE] /\ UNCHANGED queue
     ELSE queue' = [queue EXCEPT ![k] = Append(@, "aborted")] /\ UNCHANGED monitor
  /\ UNCHANGED <<resetter, crash, skipped, touched, count>>

\* channel_read, or channel_write, which may come after the disconnect
Touch(k) ==
  /\ Alive /\ chan[k] \in {"connected", "erased"}
  /\ Use("touch", MaxTouches)
  /\ IF monitor # NoMonitor THEN ResetTimer(k, queue) ELSE UNCHANGED <<monitor, queue>>
  /\ touched' = (touched \/ ~monitor.on)
  /\ UNCHANGED <<chan, resetter, crash, skipped>>

\* Fault: the monitor stays.
M_EraseMonitor == UNCHANGED <<monitor, queue>>

\* _monitors.erase: the destructor of the monitor cancels its timer
EraseMonitor == monitor' = NoMonitor /\ queue' = Cancelled(queue)

\* channel_disconnected, and then the service erases the channel
ChannelDisconnected(k, skip) ==
  /\ Alive /\ chan[k] = "connected"
  /\ chan' = [chan EXCEPT ![k] = "erased"]
  /\ IF skip THEN UNCHANGED <<monitor, queue>> ELSE EraseMonitor
  /\ skipped' = (skipped \/ (skip /\ monitor # NoMonitor))
  /\ UNCHANGED <<resetter, crash, touched, count>>

\* The last completion handler that held the context is done with.
Destroy(k) ==
  /\ Alive /\ chan[k] = "erased"
  /\ chan' = [chan EXCEPT ![k] = "destroyed"]
  /\ UNCHANGED <<monitor, queue, resetter, crash, skipped, touched, count>>

-----------------------------------------------------------------------------
(* reset_channel_timer, called by any thread.                               *)

\* It takes a raw pointer to the context, nullptr if there is none ...
ResetLookup(on) ==
  /\ Alive /\ resetter = Nobody
  /\ Use("reset", MaxResets)
  /\ IF ContextOf = 0 THEN crash' = "null in reset_channel_timer" /\ UNCHANGED resetter
                      ELSE resetter' = [ch |-> ContextOf, on |-> on] /\ UNCHANGED crash
  /\ UNCHANGED <<chan, monitor, queue, skipped, touched>>

\* ... and posts to its strand.
ResetPost ==
  /\ Alive /\ resetter # Nobody
  /\ IF chan[resetter.ch] = "destroyed"
     THEN crash' = "dangling in reset_channel_timer" /\ UNCHANGED queue
     ELSE /\ queue' = [queue EXCEPT ![resetter.ch] = Append(@, IF resetter.on THEN "on" ELSE "off")]
          /\ UNCHANGED crash
  /\ resetter' = Nobody
  /\ UNCHANGED <<chan, monitor, skipped, touched, count>>

-----------------------------------------------------------------------------
(* Handlers on the strands.                                                 *)

Rest(k) == [queue EXCEPT ![k] = Tail(@)]
Running(k, h) == Alive /\ queue[k] # <<>> /\ Head(queue[k]) = h

\* The posted lambda: nothing if the channel has no monitor.
RunReset(k, h) ==
  /\ Running(k, h)
  /\ IF monitor = NoMonitor
     THEN queue' = Rest(k) /\ UNCHANGED <<monitor, crash, touched>>
     ELSE IF ContextOf = 0
     THEN crash' = "null in lambda" /\ queue' = Rest(k) /\ UNCHANGED <<monitor, touched>>
     ELSE /\ IF h = "on"
             THEN /\ monitor' = [strand |-> ContextOf, on |-> TRUE, armed |-> TRUE]
                  /\ queue' = Cancelled(Rest(k))
             ELSE TurnOff(Rest(k))
          /\ touched' = (h = "off" /\ \E j \in Channels : \E n \in DOMAIN Rest(k)[j] : Rest(k)[j][n] = "expired")
          /\ UNCHANGED crash
  /\ UNCHANGED <<chan, resetter, skipped, count>>

\* asio: the wait is over, and its handler queued without an error
Expire ==
  /\ Alive /\ monitor.armed
  /\ monitor' = [monitor EXCEPT !.armed = FALSE]
  /\ queue' = [queue EXCEPT ![monitor.strand] = Append(@, "expired")]
  /\ UNCHANGED <<chan, resetter, crash, skipped, touched, count>>

\* timeout returns from a wait that was cancelled, and when at() finds no monitor
Ignored(h) == h = "aborted" \/ monitor = NoMonitor

\* timeout: fire_user_event_channel, which does nothing for a channel that is not
\* in the map, and then the timer again on the strand of the channel
Timeout(k, h) ==
  /\ Running(k, h)
  /\ IF Ignored(h)
     THEN queue' = Rest(k) /\ UNCHANGED <<monitor, crash>>
     ELSE IF ContextOf = 0
     THEN crash' = "null in timeout" /\ queue' = Rest(k) /\ UNCHANGED monitor
     ELSE ResetTimer(ContextOf, [Rest(k) EXCEPT ![ContextOf] = Append(@, "event")]) /\ UNCHANGED crash
  /\ UNCHANGED <<chan, resetter, skipped, touched, count>>

\* the lambda of fire_user_event, which does not hold the context it uses
RunEvent(k) ==
  /\ Running(k, "event")
  /\ queue' = Rest(k)
  /\ crash' = IF chan[k] = "destroyed" THEN "dangling in fire_user_event" ELSE crash
  /\ UNCHANGED <<chan, monitor, resetter, skipped, touched, count>>

Run(k) ==
  \/ \E h \in {"on", "off"} : RunReset(k, h)
  \/ \E h \in {"expired", "aborted"} : Timeout(k, h)
  \/ RunEvent(k)

Next ==
  \/ \E k \in Channels : \/ Touch(k) \/ Destroy(k) \/ Run(k)
                         \/ \E skip \in BOOLEAN : ChannelConnected(k, skip) \/ ChannelDisconnected(k, skip)
  \/ \E on \in BOOLEAN : ResetLookup(on)
  \/ ResetPost \/ Expire

\* Time passes and strands run.
Fairness == WF_vars(Expire) /\ \A k \in Channels : WF_vars(Run(k))

Spec == Init /\ [][Next]_vars /\ Fairness
-----------------------------------------------------------------------------
(* Properties.                                                              *)

\* Every variable has its type, and a pending wait a strand to run on.
TypeOK ==
  /\ chan \in [Channels -> {"none", "connected", "erased", "destroyed"}]
  /\ monitor \in [strand : {0} \cup Channels, on : BOOLEAN, armed : BOOLEAN]
  /\ monitor.armed => monitor.strand # 0
  /\ queue \in [Channels -> Seq({"on", "off", "expired", "aborted", "event"})]
  /\ resetter \in [ch : {0} \cup Channels, on : BOOLEAN]
  /\ skipped \in BOOLEAN /\ touched \in BOOLEAN
  /\ count \in [touch : 0 .. MaxTouches, reset : 0 .. MaxResets]

\* A monitor does not outlive its channel, whatever waits, resets and reads are
\* under way when the channel is disconnected, and its timer waits on the strand of
\* the channel that is connected; so timeout and the lambda of reset_channel_timer,
\* which look for the monitor first, do not use a context that is gone.  Unless the
\* pipeline kept channel_disconnected from the monitor.
MonitorOfConnected ==
  ~skipped => /\ monitor # NoMonitor => /\ ContextOf # 0
                                        /\ monitor.armed => monitor.strand = ContextOf
              /\ crash \notin {"null in timeout", "null in lambda"}

\* The invariant of the monitor: its types, and that it belongs to a connected channel.
IdleSafe == TypeOK /\ MonitorOfConnected

\* A timer that was turned off fires no event, unless the channel was read or
\* written since, which starts it again with a time of 0, or unless its wait had
\* expired already.
OffIsQuiet ==
  [][\A k \in Channels :
       Timeout(k, "expired") /\ monitor # NoMonitor /\ ~monitor.on => touched]_vars

\* A timer that was turned off fires no event.
OffFiresNothing ==
  [][\A k \in Channels : Timeout(k, "expired") /\ monitor # NoMonitor => monitor.on]_vars

\* A connected channel whose monitor is on and that stays idle has its event fired.
IdleIsNoticed ==
  \A k \in Channels :
    chan[k] = "connected" /\ monitor.on ~>
      \/ \E n \in DOMAIN queue[k] : queue[k][n] = "event"
      \/ chan[k] # "connected" \/ ~monitor.on \/ ~Alive
=============================================================================
