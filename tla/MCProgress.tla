------------------------------- MODULE MCProgress -------------------------------
(***************************************************************************)
(* One instance of each part of the client whose progress matters: a server *)
(* connection, the pool of connections, and the terminal interface. They    *)
(* share no state; "focus" says which of them a behaviour is about.         *)
(***************************************************************************)
EXTENDS ClientLink, ClientPool, ClientApp

VARIABLE focus

MCConfigured == <<>>

Init ==
  /\ focus \in {"link", "pool", "app"}
  /\ LinkInit /\ PoolInit /\ AppInit

Next ==
  \/ /\ focus = "link" /\ LinkNext
     /\ UNCHANGED <<focus, poolVars, appVars>>
  \/ /\ focus = "pool" /\ PoolNext
     /\ UNCHANGED <<focus, linkVars, appVars>>
  \/ /\ focus = "app" /\ AppNext
     /\ UNCHANGED <<focus, linkVars, poolVars>>

\* The connection: its tasks go on when they can, now and then a server answers the
\* dial, and iroh notices a silent connection in the end.
LinkFairness ==
  /\ WF_linkVars(focus = "link" /\ BeatTask)
  /\ SF_linkVars(focus = "link" /\ DialSucceeds)
  /\ WF_linkVars(focus = "link" /\ CloseTask)
  /\ WF_linkVars(focus = "link" /\ UserReturns)
  /\ WF_linkVars(focus = "link" /\ IdleTimeout)

\* The pool: its mutex is fair, so that whoever waits for it gets it; requests and
\* closes end; now and then a server can be reached.
PoolFairness ==
  /\ \A k \in Caller : SF_poolVars(focus = "pool" /\ CallSteps(k))
  /\ SF_poolVars(focus = "pool" /\ MonitorSteps)
  /\ \A s \in Host : /\ SF_poolVars(focus = "pool" /\ MonitorLook(s))
                     /\ SF_poolVars(focus = "pool" /\ MonitorReaches(s))

\* The interface: every task runs to its end, however many others are spawned, and
\* the loop takes what is sent to it.
AppFairness ==
  /\ \A s \in Servers, d \in Gear : WF_appVars(focus = "app" /\ AttachTaskRuns(s, d))
  /\ WF_appVars(focus = "app" /\ TakesMessage)

Spec ==
  /\ Init /\ [][Next]_<<focus, linkVars, poolVars, appVars>>
  /\ LinkFairness /\ PoolFairness /\ AppFairness

\* Every variable of the three parts has values of its type, and the lists of
\* the interface agree with themselves (App in tui/app.rs).
StateIsConsistent ==
  LinkTypeOK /\ PoolTypeOK /\ AppTypeOK /\ ListsAreConsistent
===============================================================================
