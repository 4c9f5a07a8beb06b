---------------------------- MODULE SessionExpiry ----------------------------
(***************************************************************************)
(* Sessions with an end: the table of PolicyEngine                          *)
(* (crates/server/src/policy.rs), its monitor task, and the part of the     *)
(* connection handlers (crates/server/src/network/connection.rs) that       *)
(* registers sessions and detaches the devices of expired ones.             *)
(*                                                                          *)
(* Two observers look for expired sessions.  The monitor reports them to a  *)
(* channel that nobody reads and forgets them.  A handler does so when its  *)
(* 30-second timer fires; the timer is created anew in every turn of the    *)
(* handler's loop, so it fires only after 30 seconds without anything else. *)
(*                                                                          *)
(* The clock counts ticks, MinuteTicks to a minute (60 seconds in the code, *)
(* which is finer than all it waits for); "quiet", "idle" and durations are *)
(* in ticks, with the two periods as constants.  The windows of the policy  *)
(* are in minutes.  The USB thread appears by its answers: it attaches or   *)
(* refuses, and may answer a detach too late.                               *)
(***************************************************************************)
EXTENDS AccessPolicy, FiniteSets

CONSTANTS
  Peer,        \* clients (EndpointId)
  Session,     \* device handles, each given out once
  Thing,       \* devices: records with vid, pid and class
  NoPeer, NoSession, NoThing, \* none of them
  Policies,    \* the configured policies, in order
  MinuteTicks, \* ticks of the clock in a minute
  TimerPeriod, \* the 30 seconds of the handler's timer
  IdleLimit,   \* the 180 seconds after which a silent connection is closed
  MaxNow       \* bound of the runs: the last tick

ASSUME SessionAssumption ==
  /\ NoPeer \notin Peer /\ NoSession \notin Session /\ NoThing \notin Thing
  /\ TimerPeriod \in Nat \ {0}
  /\ IdleLimit \in Nat /\ TimerPeriod <= IdleLimit
  /\ MinuteTicks \in Nat \ {0}
  /\ MaxNow \in Nat

\* What the configuration's parser lets through.
ASSUME PoliciesAssumption ==
  /\ DOMAIN Policies = 1 .. Len(Policies)
  /\ \A i \in DOMAIN Policies :
       /\ Policies[i].maxDuration \in Nat \cup {Unlimited}
       /\ Policies[i].windows \in Seq(Window \cup {BadWindow})

VARIABLES
  now,       \* ticks since midnight of the first day
  sessions,  \* active_sessions: a function on the registered handles
  monitor,   \* the expired sessions the monitor has still to forget
  loop,      \* client -> its handler
  held,      \* the attached handles of the USB side: handle -> client
  late,      \* handles whose detach the USB thread executes after the timeout
  ends       \* history: when the session of each handle has to end

sessionVars == <<now, sessions, monitor, loop, held, late, ends>>

NotBegun == -2

\* pc: "off"; "ready" in select!; "attach" between the policy check and the
\* answer of the USB thread; "register", "unregister": about to tell the
\* policy engine; "expire" inside handle_expired_sessions; "detach" waiting
\* for the answer to a forced detach; "cleanup".
NoLoop == [pc |-> "off", tracked |-> {}, thing |-> NoThing, handle |-> NoSession,
           expired |-> {}, quiet |-> 0, idle |-> 0]

SessionInit ==
  /\ now \in 0 .. MaxNow
  /\ sessions = <<>>
  /\ monitor = {}
  /\ loop = [c \in Peer |-> NoLoop]
  /\ held = [h \in Session |-> NoPeer]
  /\ late = {}
  /\ ends = [h \in Session |-> NotBegun]

Registered == DOMAIN sessions

\* get_current_time_with_offset: the minute of the day; what has passed of that
\* minute is dropped.
MinuteOfDay(t) == (t \div MinuteTicks) % Day
TimeOfDay == MinuteOfDay(now)

\* check_expired_sessions: started_at.elapsed() >= max_duration, or
\* now >= window_expires_at.
IsExpired(s) ==
  \/ s.maxDuration # Unlimited /\ now - s.startedAt >= s.maxDuration
  \/ s.windowExpiresAt # Unlimited /\ now >= s.windowExpiresAt

ExpiredSessions == {h \in Registered : IsExpired(sessions[h])}

\* When a session that satisfies neither limit earlier comes to its end.
EndOf(s) ==
  LET byDuration == IF s.maxDuration = Unlimited THEN {} ELSE {s.startedAt + s.maxDuration}
      byWindow == IF s.windowExpiresAt = Unlimited THEN {} ELSE {s.windowExpiresAt}
      all == byDuration \cup byWindow
  IN IF all = {} THEN Unlimited ELSE CHOOSE e \in all : \A f \in all : e <= f

Without(f, h) == [x \in DOMAIN f \ {h} |-> f[x]]

-----------------------------------------------------------------------------
(* The handler's loop.  Every turn starts new timers. *)

NextTurn(c, changes) == loop' = [loop EXCEPT ![c] = [changes EXCEPT !.pc = "ready", !.quiet = 0]]

PeerConnects(c) ==
  /\ loop[c].pc = "off"
  /\ loop' = [loop EXCEPT ![c] = [NoLoop EXCEPT !.pc = "ready"]]
  /\ UNCHANGED <<now, sessions, monitor, held, late, ends>>

\* A heartbeat, or any request that does not concern sessions.
OtherRequest(c) ==
  /\ loop[c].pc = "ready"
  /\ loop[c].quiet > 0 \/ loop[c].idle > 0
  /\ NextTurn(c, [loop[c] EXCEPT !.idle = 0])
  /\ UNCHANGED <<now, sessions, monitor, held, late, ends>>

\* handle_attach_device up to the policy decision.
CheckPolicy(c, dev) ==
  /\ loop[c].pc = "ready"
  /\ CheckAccess(Policies, c, dev, TimeOfDay)
  /\ loop' = [loop EXCEPT ![c].pc = "attach", ![c].thing = dev, ![c].idle = 0]
  /\ UNCHANGED <<now, sessions, monitor, held, late, ends>>

\* The USB thread attaches the device and the handler tracks the handle.
AttachSucceeds(c, h) ==
  /\ loop[c].pc = "attach"
  /\ ends[h] = NotBegun
  /\ \A d \in Peer : loop[d].handle # h
  /\ held' = [held EXCEPT ![h] = c]
  /\ loop' = [loop EXCEPT ![c].pc = "register", ![c].handle = h,
                          ![c].tracked = @ \cup {h}]
  /\ UNCHANGED <<now, sessions, monitor, late, ends>>

AttachFails(c) ==
  /\ loop[c].pc = "attach"
  /\ NextTurn(c, [loop[c] EXCEPT !.thing = NoThing])
  /\ UNCHANGED <<now, sessions, monitor, held, late, ends>>

\* Mutant: the minute that has begun is counted once more.
RegisterSessionLoosely(c) ==
  LET dev == loop[c].thing
      limit == WindowLimit(Policies, dev, TimeOfDay)
      s == [client |-> c, thing |-> dev, startedAt |-> now,
            maxDuration |-> DurationLimit(Policies, dev),
            windowExpiresAt |-> IF limit = Unlimited THEN Unlimited
                                ELSE now + (limit + 1) * MinuteTicks]
  IN /\ loop[c].pc = "register"
     /\ sessions' = [h \in Registered \cup {loop[c].handle} |->
                       IF h = loop[c].handle THEN s ELSE sessions[h]]
     /\ ends' = [ends EXCEPT ![loop[c].handle] = EndOf(s)]
     /\ NextTurn(c, [loop[c] EXCEPT !.thing = NoThing, !.handle = NoSession])
     /\ UNCHANGED <<now, monitor, held, late>>

\* register_session: the limits are computed now, not when the policy was
\* checked.  The minutes left are counted from the present tick, though part of
\* the present minute is over: the session ends that much after its window.
RegisterSession(c) ==
  LET dev == loop[c].thing
      limit == WindowLimit(Policies, dev, TimeOfDay)
      s == [client |-> c, thing |-> dev, startedAt |-> now,
            maxDuration |-> DurationLimit(Policies, dev),
            windowExpiresAt |-> IF limit = Unlimited THEN Unlimited
                                ELSE now + limit * MinuteTicks]
  IN /\ loop[c].pc = "register"
     /\ sessions' = [h \in Registered \cup {loop[c].handle} |->
                       IF h = loop[c].handle THEN s ELSE sessions[h]]
     /\ ends' = [ends EXCEPT ![loop[c].handle] = EndOf(s)]
     /\ NextTurn(c, [loop[c] EXCEPT !.thing = NoThing, !.handle = NoSession])
     /\ UNCHANGED <<now, monitor, held, late>>

\* handle_detach_device: the USB thread detaches the handle, whoever attached
\* it, or does not know it (any more), in which case nothing else changes.
RequestDetach(c, h) ==
  /\ loop[c].pc = "ready"
  /\ IF held[h] # NoPeer
     THEN /\ held' = [held EXCEPT ![h] = NoPeer]
          /\ loop' = [loop EXCEPT ![c].pc = "unregister", ![c].handle = h, ![c].idle = 0,
                                  ![c].tracked = @ \ {h}]
     ELSE /\ NextTurn(c, [loop[c] EXCEPT !.idle = 0])
          /\ UNCHANGED held
  /\ UNCHANGED <<now, sessions, monitor, late, ends>>

\* unregister_session after a detach.
UnregisterSession(c) ==
  /\ loop[c].pc = "unregister"
  /\ sessions' = Without(sessions, loop[c].handle)
  /\ NextTurn(c, [loop[c] EXCEPT !.handle = NoSession])
  /\ UNCHANGED <<now, monitor, held, late, ends>>

\* DeviceLeft: the handler forgets the handle, the policy engine does not.
DeviceIsGone(c, h) ==
  /\ loop[c].pc = "ready"
  /\ h \in loop[c].tracked
  /\ held[h] = NoPeer
  /\ NextTurn(c, [loop[c] EXCEPT !.tracked = @ \ {h}])
  /\ UNCHANGED <<now, sessions, monitor, held, late, ends>>

-----------------------------------------------------------------------------
(* The handler's timer: handle_expired_sessions *)

TimerFires(c) ==
  /\ loop[c].pc = "ready"
  /\ loop[c].quiet >= TimerPeriod
  /\ loop' = [loop EXCEPT
       ![c].pc = IF loop[c].idle > IdleLimit THEN "cleanup" ELSE "expire",
       ![c].expired = IF loop[c].idle > IdleLimit THEN {} ELSE ExpiredSessions]
  /\ UNCHANGED <<now, sessions, monitor, held, late, ends>>

\* Mutant: the sessions of other clients are not passed over.
ForceDetachAny(c, h) ==
  /\ loop[c].pc = "expire"
  /\ h \in loop[c].expired
  /\ loop' = [loop EXCEPT ![c].pc = "detach", ![c].handle = h,
                          ![c].tracked = @ \ {h}, ![c].expired = @ \ {h}]
  /\ UNCHANGED <<now, sessions, monitor, held, late, ends>>

\* The next expired session of this client whose handle is still tracked; all
\* others are passed over.  The handle is forgotten before the USB thread is
\* asked to detach it.
ForceDetach(c, h) ==
  /\ loop[c].pc = "expire"
  /\ h \in loop[c].expired \cap loop[c].tracked
  /\ loop' = [loop EXCEPT ![c].pc = "detach", ![c].handle = h,
                          ![c].tracked = @ \ {h}, ![c].expired = @ \ {h}]
  /\ UNCHANGED <<now, sessions, monitor, held, late, ends>>

\* The answer of the USB thread, or the five-second timeout; in both cases
\* the session is unregistered and the client told.
ForcedDetachEnds(c, inTime) ==
  /\ loop[c].pc = "detach"
  /\ IF inTime
     THEN held' = [held EXCEPT ![loop[c].handle] = NoPeer] /\ UNCHANGED late
     ELSE late' = late \cup {loop[c].handle} /\ UNCHANGED held
  /\ sessions' = Without(sessions, loop[c].handle)
  /\ loop' = [loop EXCEPT ![c].pc = "expire", ![c].handle = NoSession]
  /\ UNCHANGED <<now, monitor, ends>>

ExpiryDone(c) ==
  /\ loop[c].pc = "expire"
  /\ loop[c].expired \cap loop[c].tracked = {}
  /\ NextTurn(c, [loop[c] EXCEPT !.expired = {}])
  /\ UNCHANGED <<now, sessions, monitor, held, late, ends>>

-----------------------------------------------------------------------------
(* The connection ends *)

PeerLost(c) ==
  /\ loop[c].pc = "ready"
  /\ loop' = [loop EXCEPT ![c].pc = "cleanup"]
  /\ UNCHANGED <<now, sessions, monitor, held, late, ends>>

\* cleanup detaches one handle after the other and unregisters no session.
CleanupDetach(c, h) ==
  /\ loop[c].pc = "cleanup"
  /\ h \in loop[c].tracked
  /\ held' = [held EXCEPT ![h] = NoPeer]
  /\ loop' = [loop EXCEPT ![c].tracked = @ \ {h}]
  /\ UNCHANGED <<now, sessions, monitor, late, ends>>

CleanupDone(c) ==
  /\ loop[c].pc = "cleanup"
  /\ loop[c].tracked = {}
  /\ loop' = [loop EXCEPT ![c] = NoLoop]
  /\ UNCHANGED <<now, sessions, monitor, held, late, ends>>

-----------------------------------------------------------------------------
(* The monitor, the USB thread and time *)

MonitorScans ==
  /\ monitor = {}
  /\ ExpiredSessions # {}
  /\ monitor' = ExpiredSessions
  /\ UNCHANGED <<now, sessions, loop, held, late, ends>>

\* The event goes to session_expired_tx, whose receiver is never read; then
\* the session is removed.
MonitorForgets(h) ==
  /\ h \in monitor
  /\ monitor' = monitor \ {h}
  /\ sessions' = Without(sessions, h)
  /\ UNCHANGED <<now, loop, held, late, ends>>

LateDetach(h) ==
  /\ h \in late
  /\ late' = late \ {h}
  /\ held' = [held EXCEPT ![h] = NoPeer]
  /\ UNCHANGED <<now, sessions, monitor, loop, ends>>

Unplugged(h) ==
  /\ held[h] # NoPeer
  /\ held' = [held EXCEPT ![h] = NoPeer]
  /\ UNCHANGED <<now, sessions, monitor, loop, late, ends>>

\* A counter that only has to tell whether it has passed its limit.
Capped(n, limit) == IF n < limit THEN n + 1 ELSE n

TimePasses ==
  /\ now < MaxNow
  /\ now' = now + 1
  /\ loop' = [c \in Peer |->
       IF loop[c].pc = "off" THEN loop[c]
       ELSE [loop[c] EXCEPT !.idle = Capped(@, IdleLimit + 1),
                            !.quiet = IF loop[c].pc = "ready" THEN Capped(@, TimerPeriod) ELSE @]]
  /\ UNCHANGED <<sessions, monitor, held, late, ends>>

-----------------------------------------------------------------------------
HandlerStep(c) ==
  \/ RegisterSession(c)
  \/ UnregisterSession(c)
  \/ \E h \in Session : ForceDetach(c, h) \/ CleanupDetach(c, h)
  \/ \E inTime \in BOOLEAN : ForcedDetachEnds(c, inTime)
  \/ ExpiryDone(c)
  \/ CleanupDone(c)

AttachEnds(c) == AttachFails(c) \/ \E h \in Session : AttachSucceeds(c, h)

SessionNext ==
  \/ \E c \in Peer :
       \/ PeerConnects(c) \/ OtherRequest(c) \/ PeerLost(c) \/ TimerFires(c)
       \/ \E dev \in Thing : CheckPolicy(c, dev)
       \/ \E h \in Session : RequestDetach(c, h) \/ DeviceIsGone(c, h)
       \/ AttachEnds(c)
       \/ HandlerStep(c)
  \/ MonitorScans
  \/ \E h \in Session : MonitorForgets(h) \/ LateDetach(h) \/ Unplugged(h)
  \/ TimePasses

\* The timer is not fair by itself: select! may always find something else
\* that restarts it, but a quiet handler's timer does fire.
SessionFairness ==
  /\ \A c \in Peer : /\ WF_sessionVars(HandlerStep(c))
                      /\ WF_sessionVars(AttachEnds(c))
                      /\ WF_sessionVars(TimerFires(c))
  /\ WF_sessionVars(MonitorScans)
  /\ \A h \in Session : WF_sessionVars(MonitorForgets(h)) /\ WF_sessionVars(LateDetach(h))
  /\ WF_sessionVars(TimePasses)

SessionSpec == SessionInit /\ [][SessionNext]_sessionVars /\ SessionFairness


-----------------------------------------------------------------------------
(* Properties *)

\* The type invariant.
SessionTypeOK ==
  /\ now \in 0 .. MaxNow
  /\ Registered \subseteq Session
  /\ \A h \in Registered :
       sessions[h] \in [client : Peer, thing : Thing, startedAt : Nat,
                        maxDuration : Nat \cup {Unlimited},
                        windowExpiresAt : Nat \cup {Unlimited}]
  /\ monitor \subseteq Session
  /\ loop \in [Peer -> [pc : {"off", "ready", "attach", "register", "unregister",
                              "expire", "detach", "cleanup"},
                        tracked : SUBSET Session, thing : Thing \cup {NoThing},
                        handle : Session \cup {NoSession}, expired : SUBSET Session,
                        quiet : 0 .. TimerPeriod, idle : 0 .. (IdleLimit + 1)]]
  /\ held \in [Session -> Peer \cup {NoPeer}]
  /\ late \subseteq Session
  /\ ends \in [Session -> Nat \cup {Unlimited, NotBegun}]

HasEnded(h) == ends[h] \in Nat /\ ends[h] <= now

\* The policy engine forgets a session early only when it has come to its end:
\* a device the USB side holds for a client has its session, or the session's time
\* is over (unregister_session, the monitor and the handlers remove by handle, and
\* a handler may unregister the session of another client).
SessionKept ==
  \A h \in Session :
    held[h] # NoPeer /\ ends[h] # NotBegun => h \in Registered \/ HasEnded(h)

\* Whatever a handler has forgotten on the way to a forced detach, and
\* whatever answer it did not wait for: a handle the USB side holds for a
\* client is tracked, being detached, or about to be.
HeldIsAccountedFor ==
  \A c \in Peer, h \in Session :
    held[h] = c => h \in loop[c].tracked \cup {loop[c].handle} \cup late

\* A session that began inside a window of its policy outlives the windows by less
\* than a minute: each of its ticks is inside one, until less than a minute is left
\* (calculate_window_expiry drops the seconds of the time of day and adds whole
\* minutes to the present instant).
WindowRespected ==
  \A h \in Registered :
    LET s == sessions[h]
        i == PolicyFor(Policies, s.thing)
    IN i # 0 /\ WindowsAt(MinuteOfDay(s.startedAt), Policies[i].windows) # {} =>
         /\ s.windowExpiresAt # Unlimited
         /\ \A t \in s.startedAt .. (s.windowExpiresAt - MinuteTicks) :
              WindowsAt(MinuteOfDay(t), Policies[i].windows) # {}

\* While a device is attached and allowed its session is not forgotten, a session
\* outlives its time windows by less than a minute, and a handle the USB side holds
\* is tracked by its handler or on its way to be detached (policy.rs,
\* handle_attach_device, handle_expired_sessions).
SessionsAreAllowed == SessionKept /\ WindowRespected /\ HeldIsAccountedFor

\* A handler takes a device from a client only when the session of that handle
\* has come to its end, and only from its own client, though the list it works
\* through holds the sessions of all clients and grows old while it waits.
ForcedOnlyWhenDue ==
  [][\A c \in Peer :
       loop[c].pc = "expire" /\ loop'[c].pc = "detach" =>
         HasEnded(loop'[c].handle) /\ held[loop'[c].handle] \in {c, NoPeer}]_sessionVars

\* "Session duration limits with automatic force-detach on expiration"
\* (docs/ARCHITECTURE.md:115): a device whose session has come to its end is
\* taken from the client.
ExpiredIsDetached ==
  \A h \in Session : HasEnded(h) /\ held[h] # NoPeer ~> held[h] = NoPeer

===============================================================================
