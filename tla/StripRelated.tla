---------------------------- MODULE StripRelated ----------------------------
(***************************************************************************)
(* Related control: another device makes the server ask this strip to take *)
(* a state, at once or "after" some seconds, and to go back to the states  *)
(* it had before once a "delay" (holdTime) is over.                        *)
(*                                                                         *)
(* One record, RelatedCtrl, is shared without a lock by the UDP thread,    *)
(* which takes the requests, and by the application thread, which carries  *)
(* them out once a second in SysTime_GetTime.  Both write SwOnOffData      *)
(* directly and leave PortInfor[].OnOffStatus to the next status report.   *)
(* The module composes with StripPorts: all its actors go on.              *)
(***************************************************************************)
EXTENDS StripPorts

CONSTANTS
  Requests,     \* [states, delay, hold] of the requests: a state for each port
                \* (0 off, 1 on, 2 keep), delayTime and holdTime in seconds
  MaxAge,       \* bound: age stops there
  MaxAsks       \* bound: requests

ASSUME RelatedAssumption ==
  /\ Requests \subseteq [states : [Ports -> 0 .. 2], delay : Nat, hold : Nat]
  /\ MaxAge \in Nat /\ MaxAsks \in Nat
  /\ \A req \in Requests : req.delay + req.hold <= MaxAge

VARIABLES
  rel,      \* RelatedCtrl, without ctlTime
  age,      \* CurTimeSec - ctlTime: MaxAge when ctlTime is 0
  udp,      \* the UDP thread: "idle", or "send" in Switch_RelatedCtl
  sys,      \* the application thread: "idle", or sending the states of a
            \* request ("apply") or the previous ones ("restore")
  asks,     \* bound: requests still allowed
  owed      \* history: a delayed request was accepted and not yet carried out

relVars == <<rel, age, udp, sys, asks, owed>>
allVars == <<vars, relVars>>

RelatedType ==
  /\ rel \in [delay : Nat, hold : Nat, pre : SUBSET MaskBits,
              ctr : SUBSET MaskBits, mark : BOOLEAN, after : BOOLEAN]
  /\ age \in 0 .. MaxAge
  /\ udp \in {"idle", "send"} /\ sys \in {"idle", "apply", "restore"}
  /\ asks \in 0 .. MaxAsks /\ owed \in BOOLEAN

NoRequest == [delay |-> 0, hold |-> 0, pre |-> {}, ctr |-> {},
              mark |-> FALSE, after |-> FALSE]

RelatedInit ==
  /\ Init
  /\ rel = NoRequest /\ age = MaxAge /\ udp = "idle" /\ sys = "idle"
  /\ asks \in 0 .. MaxAsks /\ owed = FALSE
-----------------------------------------------------------------------------
\* SwOnOffData = m: an order the new byte agrees with stands.
SetByte(m) ==
  /\ mask' = m
  /\ order' = [p \in Ports |-> IF order[p] = (IF p \in m THEN 1 ELSE 0)
                                 THEN order[p] ELSE NoOrder]
  /\ UNCHANGED <<onoff, cur0>>

\* SwOnOffData packed from the status by the loop of Switch_RelatedCtl.
Repacked == Pack(mask, onoff)

\* A delay that counts the second under way.
RequestedShort(req) ==
  [rel EXCEPT !.delay = req.delay - 1, !.hold = req.hold, !.pre = Repacked,
              !.ctr = RequestMask(req.states, onoff)]

\* The fields Switch_RelatedCtl fills in before it may send.
Requested(req) ==
  [rel EXCEPT !.delay = req.delay, !.hold = req.hold, !.pre = Repacked,
              !.ctr = RequestMask(req.states, onoff)]

\* ctlTime, ctlMark and afterMark: the end of Switch_RelatedCtl.
Marked(r) == [r EXCEPT !.mark = TRUE, !.after = FALSE]

Comes ==
  /\ udp = "idle" /\ Udp \notin sending
  /\ asks > 0 /\ asks' = asks - 1
  /\ UNCHANGED <<sys, sending, appVars, timerVars, records, world, link, left>>

\* Switch_RelatedCtl, a request that changes the byte at once, up to its send.
RelatedNow(req) ==
  /\ Comes
  /\ req.delay = 0 /\ RequestMask(req.states, onoff) # Repacked
  /\ rel' = Requested(req)
  /\ SetByte(RequestMask(req.states, onoff))
  /\ udp' = "send"
  /\ UNCHANGED <<age, owed>>

RelatedSend ==
  /\ udp = "send"
  /\ UsartControlPortOnOff
  /\ rel' = Marked(rel) /\ age' = 0 /\ owed' = FALSE
  /\ udp' = "idle"
  /\ UNCHANGED <<belief, sending, appVars, timerVars, records, world, left,
                 sys, asks>>

\* Switch_RelatedCtl, any other request: all of it, without a send.
RelatedLater(req) ==
  /\ Comes
  /\ req.delay > 0 \/ RequestMask(req.states, onoff) = Repacked
  /\ rel' = Marked(Requested(req))
  /\ SetByte(Repacked)
  /\ age' = 0 /\ owed' = (req.delay > 0)
  /\ UNCHANGED udp
-----------------------------------------------------------------------------
(* The application thread, in SysTime_GetTime *)

Tick ==
  /\ app = "idle"
  /\ UNCHANGED <<sending, appVars, timerVars, records, world, left, udp, asks>>

\* A hold that ends in its very second or never.
HoldOverOnlyThen == rel.hold > 0 /\ age = rel.hold + rel.delay

HoldOver == rel.hold > 0 /\ age >= rel.hold + rel.delay

\* A request carried out in its very second or never.
ApplyOnlyThen ==
  /\ Tick /\ sys = "idle" /\ rel.mark
  /\ age = rel.delay /\ ~rel.after
  /\ SetByte(rel.ctr)
  /\ sys' = "apply" /\ owed' = FALSE
  /\ UNCHANGED <<link, rel, age>>

\* Switch_delayCtl(ctrStates) up to its send.
RelatedApply ==
  /\ Tick /\ sys = "idle" /\ rel.mark
  /\ age >= rel.delay /\ ~rel.after
  /\ SetByte(rel.ctr)
  /\ sys' = "apply" /\ owed' = FALSE
  /\ UNCHANGED <<link, rel, age>>

\* A send of the states of the request, whatever the byte is by then.
AppliedSendsStored ==
  /\ Tick /\ sys = "apply"
  /\ Send(Switch(rel.ctr)) /\ sent' = rel.ctr /\ UNCHANGED toModule
  /\ rel' = [rel EXCEPT !.after = TRUE]
  /\ IF HoldOver THEN sys' = "restore" /\ SetByte(rel.pre)
                 ELSE sys' = "idle" /\ UNCHANGED belief
  /\ UNCHANGED <<age, owed>>

\* The send and afterMark; the hold is looked at in the same call.
RelatedApplied ==
  /\ Tick /\ sys = "apply"
  /\ UsartControlPortOnOff
  /\ rel' = [rel EXCEPT !.after = TRUE]
  /\ IF HoldOver THEN sys' = "restore" /\ SetByte(rel.pre)
                 ELSE sys' = "idle" /\ UNCHANGED belief
  /\ UNCHANGED <<age, owed>>

\* Switch_delayCtl(preStates) up to its send.
RelatedRestore ==
  /\ Tick /\ sys = "idle" /\ rel.mark
  /\ age < rel.delay \/ rel.after
  /\ HoldOver
  /\ SetByte(rel.pre)
  /\ sys' = "restore"
  /\ UNCHANGED <<link, rel, age, owed>>

RelatedRestored ==
  /\ Tick /\ sys = "restore"
  /\ UsartControlPortOnOff
  /\ rel' = [rel EXCEPT !.mark = FALSE] /\ age' = MaxAge
  /\ sys' = "idle"
  /\ UNCHANGED <<belief, owed>>
-----------------------------------------------------------------------------
\* The application thread reads the clock chip into DevTimeObj.CurTimeSec, the
\* first thing SysTime_GetTime does: the time stands still while it sends.
Second ==
  /\ app = "idle" /\ sys = "idle"
  /\ age < MaxAge /\ age' = age + 1
  /\ UNCHANGED <<vars, rel, udp, sys, asks, owed>>

RelatedRestart ==
  /\ Restart
  /\ rel' = NoRequest /\ age' = MaxAge /\ udp' = "idle" /\ sys' = "idle"
  /\ owed' = FALSE
  /\ UNCHANGED asks

\* The actors of StripPorts: the UDP thread does one command at a time, and the
\* application thread is in Reboot_Control or in SysTime_GetTime.
Strip ==
  \/ \E t \in Clients : (t = Udp => udp = "idle") /\ Serve(t)
  \/ App /\ sys = "idle"
  \/ Uart \/ TimerWork \/ Slave \/ People

RelatedTick == \/ RelatedApply \/ RelatedApplied
               \/ RelatedRestore \/ RelatedRestored

RelatedOthers ==
  \/ Strip /\ UNCHANGED relVars
  \/ \E req \in Requests : RelatedNow(req) \/ RelatedLater(req)
  \/ RelatedSend \/ RelatedTick \/ Second \/ RelatedRestart

RelatedNext == (app_timer_callback1 /\ UNCHANGED relVars) \/ RelatedOthers
RelatedPacedNext == (PacedTick /\ UNCHANGED relVars) \/ RelatedOthers

RelatedSpec == RelatedInit /\ [][RelatedNext]_allVars

RelatedFairness ==
  /\ Fairness
  /\ WF_allVars(Second) /\ SF_allVars(RelatedSend) /\ SF_allVars(RelatedTick)

RelatedFairSpec ==
  RelatedInit /\ [][RelatedPacedNext]_allVars /\ RelatedFairness
-----------------------------------------------------------------------------
(* Properties *)

\* A hold that runs while the application thread is not sending ends with a
\* restore, whatever else comes in, unless a request without a hold takes its
\* place.
HoldIsRestored ==
  (rel.mark /\ rel.hold > 0 /\ sys = "idle")
    ~> (sys = "restore" \/ rel.hold = 0)

\* A delayed request that was accepted while the application thread was not
\* sending is carried out, unless another takes its place.
QuietRequestIsApplied ==
  (owed /\ rel.mark /\ ~rel.after /\ sys = "idle") ~> ~owed

\* A delayed request that was accepted is carried out, unless another takes
\* its place (afterMark, "the delayed control was carried out"), also one that
\* is accepted while the application thread sends.
RequestIsApplied == owed ~> ~owed
=============================================================================
