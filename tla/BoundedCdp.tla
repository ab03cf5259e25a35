------------------------------ MODULE BoundedCdp ------------------------------
(***************************************************************************)
(* The bounded debugger adapter of the extension (extension/src/cdp) on    *)
(* one tab, with its session marker (service-worker/bounded-cdp-runtime)   *)
(* and the authorization of the action runtime around it.                  *)
(*                                                                         *)
(* Every await is a point where other handlers run: actions of successive  *)
(* runs of the tab, Stop, page changes, a detach by the browser, a restart *)
(* of the worker.  A command goes to the tab, whoever attached.  The       *)
(* commands that look the target up are one step, so are the commands that *)
(* complete a press.                                                       *)
(***************************************************************************)
EXTENDS Naturals, FiniteSets

CONSTANTS
  Actions, None,  \* actions, each of a run of its own, on the tab
  MaxRestarts     \* bound: restarts of the worker

ASSUME NoneFresh == None \notin Actions
ASSUME RestartsAreNatural == MaxRestarts \in Nat

VARIABLES
  current,     \* the run of the tab that is not terminal
  permitted,   \* cdpAuthorizedRuns
  act,         \* the progress of each execute()
  active, attached, aborted, quarantined,  \* whether the sets of the adapter hold the tab
  cleaning,    \* cleanupOwned() of the tab
  recovery,    \* recoverCdpSessions() of this worker
  session,     \* the action that attached the debugger
  marker,      \* the marker of the tab in session storage
  restarts,
  effect,      \* history: actions with an input that reached the page
  stopped      \* history: actions whose tab was aborted while they were active

vars == <<current, permitted, act, active, attached, aborted, quarantined, cleaning,
          recovery, session, marker, restarts, effect, stopped>>
adapter == <<active, attached, aborted, quarantined>>
environment == <<current, permitted, recovery, restarts>>

Running == {"mark", "attach", "markAttached", "probe", "focus", "press", "release",
            "clear", "join", "leave", "unmark"}
Places == {"idle", "recovery", "prepare", "done", "lost"} \cup Running
Results == {"none", "DISPATCHED", "UNKNOWN", "FAILED", "DENIED"}
Fresh == [at |-> "idle", owns |-> FALSE, dispatched |-> FALSE, result |-> "none"]

TypeOK ==
  /\ current \in Actions \cup {None}
  /\ permitted \in SUBSET Actions
  /\ act \in [Actions -> [at : Places, owns : BOOLEAN, dispatched : BOOLEAN, result : Results]]
  /\ {active, attached, aborted, quarantined} \subseteq BOOLEAN
  /\ cleaning \in {"no", "disable", "detach", "clear"}
  /\ recovery \in {"no", "probe", "detach", "clear", "rejected"}
  /\ session \in Actions \cup {None}
  /\ marker \in {"none", "attaching", "attached"}
  /\ restarts \in 0 .. MaxRestarts
  /\ effect \in SUBSET Actions /\ stopped \in SUBSET Actions

At(a, place) == act[a].at = place
Goto(a, place) == act' = [act EXCEPT ![a].at = place]
\* The finally of execute(): the target is released, then the session.
End(a, result) == act' = [act EXCEPT ![a].at = "clear", ![a].result = result]

\* Mutant of Granted: the permission of a run outlives it.
GrantedOnce(a) == a \in permitted
\* isGranted(): the run is authorized, and has not ended.
Granted(a) == a \in permitted /\ current = a

\* A write of the marker, refused or not.
Write(value) == marker' \in {value, marker}

-----------------------------------------------------------------------------
(* execute()                                                               *)

\* A run of the tab comes this far: it took the tab over from the run before.
Start(a) ==
  /\ At(a, "idle") /\ Goto(a, "recovery")
  /\ current' = a /\ permitted' = permitted \cup {a}
  /\ UNCHANGED <<adapter, cleaning, recovery, session, marker, restarts, effect, stopped>>

\* The end of the action runtime: the run is terminal and no longer permitted.
Left(a, result) ==
  /\ act' = [act EXCEPT ![a].at = "done", ![a].result = result]
  /\ permitted' = permitted \ {a}
  /\ current' = IF current = a THEN None ELSE current

Admitted(a) == recovery = "no" /\ ~quarantined /\ Granted(a)

\* After the recovery the action is checked, and its target prepared.
Prepare(a) ==
  /\ At(a, "recovery")
  /\ \/ Admitted(a) /\ Goto(a, "prepare") /\ UNCHANGED <<permitted, current>>
     \/ recovery \in {"no", "rejected"} /\ ~Admitted(a) /\ Left(a, "DENIED")
  /\ UNCHANGED <<adapter, cleaning, recovery, session, marker, restarts, effect, stopped>>

Activate(a) ==
  /\ At(a, "prepare")
  /\ \/ /\ Granted(a) /\ Goto(a, "mark") /\ active' = TRUE
        /\ UNCHANGED <<permitted, current>>
     \/ Left(a, "DENIED") /\ UNCHANGED active
  /\ UNCHANGED <<attached, aborted, quarantined, cleaning, recovery, session, marker,
                 restarts, effect, stopped>>

MarkAttaching(a) ==
  /\ At(a, "mark")
  /\ \/ marker' = "attaching" /\ Goto(a, "attach")
     \/ UNCHANGED marker /\ End(a, "FAILED")
  /\ UNCHANGED <<adapter, environment, cleaning, session, effect, stopped>>

\* The browser refuses a second debugger of a tab, and may refuse the first.
Attach(a) ==
  /\ At(a, "attach")
  /\ \/ /\ session = None /\ session' = a /\ attached' = TRUE
        /\ act' = [act EXCEPT ![a].at = "markAttached", ![a].owns = TRUE]
     \/ End(a, "DENIED") /\ UNCHANGED <<session, attached>>
  /\ UNCHANGED <<environment, active, aborted, quarantined, cleaning, marker, effect, stopped>>

MarkAttached(a) ==
  /\ At(a, "markAttached")
  /\ \/ marker' = "attached" /\ Goto(a, "probe")
     \/ UNCHANGED marker /\ End(a, "FAILED")
  /\ UNCHANGED <<adapter, environment, cleaning, session, effect, stopped>>

\* The check in the turn that sends the first input.
Allowed(a) == ~aborted /\ Granted(a)

\* The target is looked up; a key or a text has it focused first.
Probe(a) ==
  /\ act[a].at \in {"probe", "focus"}
  /\ \/ session # None /\ Allowed(a)
        /\ \/ At(a, "probe") /\ Goto(a, "focus") /\ UNCHANGED effect
           \/ Goto(a, "press") /\ effect' \in {effect, effect \cup {a}}
     \/ session = None /\ End(a, "FAILED") /\ UNCHANGED effect
     \/ End(a, "DENIED") /\ UNCHANGED effect
  /\ UNCHANGED <<adapter, environment, cleaning, session, marker, stopped>>

\* What a rejected command is reported as.
Failed(a) == IF act[a].dispatched THEN "UNKNOWN" ELSE "FAILED"

\* The first input resolves, and the next is sent in the same turn; a command is
\* rejected when its session goes, and may be rejected anyway.
Pressed(a) ==
  /\ At(a, "press")
  /\ \/ /\ session = a /\ effect' = effect \cup {a}
        /\ act' = [act EXCEPT ![a].at = "release", ![a].dispatched = TRUE]
     \/ End(a, Failed(a)) /\ effect' \in {effect, IF session = a THEN effect \cup {a} ELSE effect}
  /\ UNCHANGED <<adapter, environment, cleaning, session, marker, stopped>>

Released(a) ==
  /\ At(a, "release")
  /\ \/ session = a /\ End(a, "DISPATCHED")
     \/ End(a, Failed(a))
  /\ UNCHANGED <<adapter, environment, cleaning, session, marker, effect, stopped>>

\* cleanupOwned(): joins the cleanup that runs, or starts one of an owned session.
Cleanup ==
  cleaning' = IF cleaning = "no" /\ attached THEN "disable" ELSE cleaning

\* The target is cleared; an owner gives the session up, another only the marker.
Clear(a) ==
  /\ At(a, "clear")
  /\ IF act[a].owns
     THEN Cleanup /\ Goto(a, IF cleaning' = "no" THEN "leave" ELSE "join")
     ELSE UNCHANGED cleaning /\ Goto(a, "unmark")
  /\ UNCHANGED <<adapter, environment, session, marker, effect, stopped>>

Leave(a) ==
  /\ \/ At(a, "leave") /\ UNCHANGED marker
     \/ At(a, "unmark") /\ Write("none")
  /\ active' = FALSE /\ aborted' = FALSE
  /\ Left(a, act[a].result)
  /\ UNCHANGED <<attached, quarantined, cleaning, recovery, session, restarts, effect, stopped>>

Execute(a) ==
  \/ Prepare(a) \/ Activate(a) \/ MarkAttaching(a) \/ Attach(a) \/ MarkAttached(a)
  \/ Probe(a) \/ Pressed(a) \/ Released(a) \/ Clear(a) \/ Leave(a)

-----------------------------------------------------------------------------
(* cleanupOwned(), abortTab(), onDetach() and recoverCdpSessions().        *)

\* Mutant of Quarantine: a failed cleanup is forgotten.
QuarantineNot == quarantined' = quarantined
Quarantine == quarantined' = TRUE

\* Mutant of CleanupEnds: who joined the cleanup is not woken.
CleanupEndsAlone == cleaning' = "no" /\ act' = act
\* Who awaits the cleanup goes on when it ends.
CleanupEnds ==
  /\ cleaning' = "no"
  /\ act' = [a \in Actions |-> IF At(a, "join") THEN [act[a] EXCEPT !.at = "leave"] ELSE act[a]]

CleanupStep ==
  /\ \/ /\ cleaning = "disable" /\ cleaning' = "detach" /\ UNCHANGED act
        /\ UNCHANGED <<attached, quarantined, session, marker>>
     \/ /\ cleaning = "detach" /\ session # None /\ session' = None
        /\ attached' = FALSE /\ cleaning' = "clear" /\ UNCHANGED <<act, quarantined, marker>>
     \/ /\ cleaning = "clear" /\ marker' = "none" /\ CleanupEnds
        /\ UNCHANGED <<attached, quarantined, session>>
     \/ /\ cleaning \in {"detach", "clear"} /\ CleanupEnds /\ Quarantine
        /\ UNCHANGED <<attached, session, marker>>
  /\ UNCHANGED <<environment, active, aborted, effect, stopped>>

\* Stop, a page change, a closed tab: only an active action is aborted.
AbortTab ==
  /\ active /\ aborted' = TRUE /\ Cleanup
  /\ stopped' = stopped \cup {a \in Actions : act[a].at \in Running}
  /\ UNCHANGED <<environment, act, active, attached, quarantined, session, marker, effect>>

\* The run is cancelled, with or without an abort of the tab before it.
Cancel ==
  /\ current # None /\ current' = None
  /\ UNCHANGED <<permitted, act, adapter, cleaning, recovery, session, marker, restarts,
                 effect, stopped>>

\* The browser ends the session.
OnDetach ==
  /\ session # None /\ session' = None
  /\ attached' = FALSE /\ quarantined' = FALSE /\ Write("none")
  /\ aborted' = (aborted \/ active)
  /\ stopped' = IF active THEN stopped \cup {a \in Actions : act[a].at \in Running} ELSE stopped
  /\ UNCHANGED <<environment, act, active, cleaning, effect>>

\* The worker is restarted: the session and the marker outlive it.
Restart ==
  /\ restarts < MaxRestarts /\ restarts' = restarts + 1
  /\ current' = None /\ permitted' = {}
  /\ act' = [a \in Actions |->
               IF act[a].at \in {"idle", "done"} THEN act[a] ELSE [act[a] EXCEPT !.at = "lost"]]
  /\ active' = FALSE /\ attached' = FALSE /\ aborted' = FALSE /\ quarantined' = FALSE
  /\ cleaning' = "no"
  /\ recovery' = IF marker = "none" THEN "no" ELSE "probe"
  /\ UNCHANGED <<session, marker, effect, stopped>>

\* A marked tab is probed without input, detached and unmarked; else quarantined.  When
\* the marker of a tab without session stays, the recovery is rejected.
Recover ==
  /\ \/ /\ recovery = "probe" /\ session = None
        /\ \/ marker' = "none" /\ recovery' = "no"
           \/ UNCHANGED marker /\ recovery' = "rejected"
        /\ UNCHANGED <<session, quarantined>>
     \/ /\ recovery = "probe" /\ session # None /\ recovery' = "detach"
        /\ UNCHANGED <<session, quarantined, marker>>
     \/ /\ recovery = "detach" /\ session # None /\ session' = None /\ recovery' = "clear"
        /\ UNCHANGED <<quarantined, marker>>
     \/ /\ recovery = "clear" /\ marker' = "none" /\ recovery' = "no"
        /\ UNCHANGED <<session, quarantined>>
     \/ /\ recovery \in {"probe", "detach", "clear"} /\ recovery' = "no" /\ Quarantine
        /\ UNCHANGED <<session, marker>>
  /\ UNCHANGED <<current, permitted, act, active, attached, aborted, cleaning, restarts,
                 effect, stopped>>

-----------------------------------------------------------------------------

Init ==
  /\ current = None /\ permitted = {}
  /\ act = [a \in Actions |-> Fresh]
  /\ active = FALSE /\ attached = FALSE /\ aborted = FALSE /\ quarantined = FALSE
  /\ cleaning = "no" /\ recovery = "no"
  /\ session = None /\ marker = "none" /\ restarts = 0
  /\ effect = {} /\ stopped = {}

Next ==
  \/ \E a \in Actions : Start(a) \/ Execute(a)
  \/ CleanupStep \/ AbortTab \/ Cancel \/ OnDetach \/ Restart \/ Recover

Spec == Init /\ [][Next]_vars

\* What the browser itself is asked settles: its storage, attach and detach; and a command
\* whose session went is rejected. A page may never answer, and nothing bounds the wait for
\* it: not a command while its session stands, DOM.disable, or the message that clears the
\* target.
Settles(a) ==
  \/ MarkAttaching(a) \/ Attach(a) \/ MarkAttached(a) \/ Leave(a)
  \/ session # a /\ (Probe(a) \/ Pressed(a) \/ Released(a))
Detaches == cleaning # "disable" /\ CleanupStep
FairSpec ==
  /\ Spec
  /\ \A a \in Actions : WF_vars(Settles(a))
  /\ WF_vars(Detaches)

\* The page has not answered what the end of an action waits for.
PageSilent(a) == cleaning = "disable" \/ At(a, "clear")

-----------------------------------------------------------------------------
(* Properties.                                                             *)

\* At rest no debugger session of the extension is left on the tab, unless the tab is
\* quarantined: after an action, Stop, a page change or a restart.
NoSessionLeak ==
  (\A a \in Actions : act[a].at \in {"idle", "done", "lost"})
     /\ cleaning = "no" /\ recovery \in {"no", "rejected"} =>
  session = None \/ quarantined

\* A restart at any moment finds the marker of a session.
SessionIsMarked == session # None => marker # "none"

\* An action starts its input only while its run is the run of the tab: neither ended
\* nor replaced while the action waited for the recovery, the target or the browser.
InputIsCurrent ==
  [][\A a \in Actions : act'[a].at = "press" /\ act[a].at # "press" => current = a]_vars

\* No action starts its input after the tab was aborted under it.
NoInputAfterAbort ==
  [][\A a \in stopped : act'[a].at = "press" => act[a].at = "press"]_vars

\* A failure after input is UNKNOWN: an action with an effect is not reported as failed.
HonestReceipt ==
  \A a \in effect : act[a].result \notin {"FAILED", "DENIED"}

\* Once the page acknowledged an input, a failure is UNKNOWN.
AcknowledgedIsHonest ==
  \A a \in Actions : act[a].dispatched => act[a].result \notin {"FAILED", "DENIED"}
=============================================================================
