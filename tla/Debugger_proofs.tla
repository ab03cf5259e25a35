-------------------------- MODULE Debugger_proofs --------------------------
(***************************************************************************)
(* Theorems about the two debugger adapters: the session broker            *)
(* (CdpSession) and the bounded adapter (BoundedCdp), composed in          *)
(* MCDebugger. For every number of sessions, actions and restarts.         *)
(*                                                                         *)
(* The broker runs one session at a time (OneSession). A session past its  *)
(* mark owns the row of the tab (RowOwned), and gives it back only when    *)
(* it met a denial or detached itself: no attach is on its way then, and   *)
(* nobody is attached (GivenBack).                                         *)
(*                                                                         *)
(* The bounded adapter with one action: nothing happened to the tab before *)
(* it attached (Untouched), the worker that attached knows of the session  *)
(* (SessionKnown), and whoever stops cleaning up or recovering found the   *)
(* session gone or quarantines the tab (LeftClean).                        *)
(***************************************************************************)
EXTENDS MCDebugger, TLAPS

-----------------------------------------------------------------------------
(* The invariant of the broker.                                            *)

\* The places of a session that holds the tab, and of one that marked it.
Marked == {"attach", "denied", "markOwned", "use", "close", "clear", "markLost",
           "markFailed", "stuck"}
Holding == {"available", "mark"} \cup Marked

OneSession ==
  \A s, t \in Sessions : at[s] \in Holding /\ at[t] \in Holding => s = t

\* What holds of the tab while session s is at a place.
RowOwned(s, place) ==
  /\ place \in Holding => busy = TRUE
  /\ place = "mark" => row = None
  /\ place \in Marked => row = s

\* No attach is on its way that the session does not answer for.
NoneLate(place) ==
  /\ place \in {"attach", "denied", "markOwned", "use"} => late = {} /\ barred = FALSE
  /\ place \in {"close", "clear"} => late = {} \/ barred = TRUE
  /\ place = "markLost" => barred = TRUE

\* Who is attached while the session answers for the tab.
GivenBack(s, place) ==
  /\ place \in {"attach", "denied"} => debugger = None
  /\ place \in {"markOwned", "use"} => debugger \in {s, None}
  /\ place \in {"use", "close", "clear"} /\ s \in detached => debugger = None /\ late = {}
  /\ place = "clear" /\ barred = FALSE => debugger = None
  /\ s \in detached => place \in {"use", "close", "clear", "markFailed", "done", "stuck"}

Answers(s, place) == RowOwned(s, place) /\ NoneLate(place) /\ GivenBack(s, place)

BrokerInv ==
  /\ Broker!TypeOK /\ Broker!SessionIsMarked /\ Broker!QuarantineOutlives
  /\ OneSession /\ \A s \in Sessions : Answers(s, at[s])

-----------------------------------------------------------------------------
(* The invariant of the bounded adapter.                                   *)

\* Nothing was acknowledged or reported before the first input resolved.
Unsent == {"idle", "recovery", "prepare", "mark", "attach", "markAttached", "probe",
           "focus", "press"}

UnsentIsUntold ==
  \A a \in Actions :
    act[a].at \in Unsent => act[a].dispatched = FALSE /\ act[a].result = "none"

\* Everything below is about an action that runs alone.
OthersRest == \A a \in Actions \ {a1} : act[a].at = "idle"

\* Nothing happened to the tab before the action attached.
Before == {"idle", "recovery", "prepare", "mark"}

Untouched ==
  act[a1].at \in Before \cup {"attach"} =>
    /\ session = None /\ attached = FALSE /\ cleaning = "no" /\ recovery = "no"
    /\ marker = IF act[a1].at = "attach" THEN "attaching" ELSE "none"

\* The worker that attached knows of the session it owns.
SessionKnown ==
  /\ session # None => act[a1].owns = TRUE
  /\ act[a1].at \in Running /\ session # None => attached = TRUE
  /\ act[a1].at = "unmark" => act[a1].owns = FALSE

\* A cleanup or a recovery that is about to unmark the tab has seen the session go.
SeenGone ==
  /\ cleaning = "clear" => session = None
  /\ recovery = "clear" => session = None
  /\ recovery # "no" => act[a1].at \in {"done", "lost"}
  /\ act[a1].at = "join" => cleaning # "no"

LeftClean ==
  act[a1].at \in {"leave", "done", "lost"} /\ cleaning = "no"
     /\ recovery \in {"no", "rejected"} =>
  session = None \/ quarantined = TRUE

\* An action that was stopped stays stopped to its end.
StoppedIsAborted ==
  \A a \in stopped : act[a].at \in {"done", "lost"} \/ (act[a].at \in Running /\ aborted = TRUE)

AloneInv ==
  OthersRest /\ Untouched /\ SessionKnown /\ SeenGone /\ LeftClean /\ SessionIsMarked
    /\ StoppedIsAborted

AdapterInv == TypeOK /\ UnsentIsUntold /\ AcknowledgedIsHonest /\ (driven = "alone" => AloneInv)

-----------------------------------------------------------------------------
(* The broker, action by action.                                           *)

BrokerTypes ==
  /\ at \in [Sessions -> Broker!Places]
  /\ owned \in SUBSET Sessions /\ detached \in SUBSET Sessions /\ late \in SUBSET Sessions
  /\ busy \in BOOLEAN /\ barred \in BOOLEAN /\ held \in BOOLEAN
  /\ row \in Sessions \cup {None} /\ debugger \in Sessions \cup {None}
  /\ deaths \in 0 .. MaxRestarts

LEMMA BrokerTyped == Broker!TypeOK <=> BrokerTypes
BY DEF Broker!TypeOK, BrokerTypes

\* A session that holds the tab, or takes the free tab, goes on to a place.
LEMMA SessionMoves ==
  ASSUME BrokerInv, NEW s \in Sessions, NEW place \in Broker!Places,
         \A t \in Sessions : at[t] \in Holding => t = s,
         at' = [at EXCEPT ![s] = place], detached' = detached,
         BrokerTypes', Broker!SessionIsMarked', Broker!QuarantineOutlives', Answers(s, place)'
  PROVE  BrokerInv'
<1>1. at'[s] = place /\ \A t \in Sessions \ {s} : at'[t] = at[t] /\ at[t] \notin Holding
  BY BrokerTyped DEF BrokerInv, BrokerTypes
<1>2. OneSession'
  BY <1>1 DEF OneSession
<1>3. \A t \in Sessions \ {s} : Answers(t, at[t])'
  BY <1>1 DEF BrokerInv, Answers, RowOwned, NoneLate, GivenBack, Holding, Marked
<1>4. Broker!TypeOK'
  BY BrokerTyped, PTL
<1> QED BY <1>1, <1>2, <1>3, <1>4 DEF BrokerInv

\* The only session that holds the tab.
LEMMA Only ==
  ASSUME BrokerInv, NEW s \in Sessions, at[s] \in Holding
  PROVE  \A t \in Sessions : at[t] \in Holding => t = s
BY DEF BrokerInv, OneSession

LEMMA SessionOpenStep == ASSUME BrokerInv, NEW s \in Sessions, Broker!Open(s) PROVE BrokerInv'
<1>1. BrokerTypes /\ Broker!SessionIsMarked /\ Broker!QuarantineOutlives /\ Answers(s, at[s])
  BY BrokerTyped DEF BrokerInv
<1>2. /\ at[s] = "idle" /\ UNCHANGED <<owned, detached, late, barred, held, row, debugger, deaths>>
      /\ \/ at' = [at EXCEPT ![s] = "done"] /\ busy' = busy /\ (busy = TRUE \/ barred = TRUE)
         \/ busy = FALSE /\ busy' = TRUE /\ at' = [at EXCEPT ![s] = "available"]
  BY <1>1 DEF Broker!Open, Broker!Goto, BrokerTypes
<1>3. CASE at' = [at EXCEPT ![s] = "done"] /\ busy' = busy /\ (busy = TRUE \/ barred = TRUE)
  <2>1. BrokerTypes'
    BY <1>1, <1>2, <1>3 DEF BrokerTypes, Broker!Places
  <2>2. OneSession' /\ \A t \in Sessions : Answers(t, at[t])'
    BY <1>1, <1>2, <1>3
       DEF BrokerInv, BrokerTypes, OneSession, Answers, RowOwned, NoneLate, GivenBack, Holding, Marked
  <2>3. Broker!TypeOK'
    BY <2>1, BrokerTyped, PTL
  <2> QED BY <1>1, <1>2, <2>2, <2>3
       DEF BrokerInv, Broker!SessionIsMarked, Broker!QuarantineOutlives
<1>4. CASE busy = FALSE /\ busy' = TRUE /\ at' = [at EXCEPT ![s] = "available"]
  <2>1. \A t \in Sessions : at[t] \notin Holding
    BY <1>4 DEF BrokerInv, Answers, RowOwned
  <2>2. BrokerTypes' /\ Broker!SessionIsMarked' /\ Broker!QuarantineOutlives'
    BY <1>1, <1>2, <1>4 DEF BrokerTypes, Broker!SessionIsMarked, Broker!QuarantineOutlives, Broker!Places
  <2>3. Answers(s, "available")'
    BY <1>1, <1>2, <1>4 DEF Answers, RowOwned, NoneLate, GivenBack, Holding, Marked
  <2> QED BY <1>2, <1>4, <2>1, <2>2, <2>3, SessionMoves DEF Broker!Places
<1> QED BY <1>2, <1>3, <1>4

LEMMA SessionAvailableStep == ASSUME BrokerInv, NEW s \in Sessions, Broker!Available(s) PROVE BrokerInv'
<1>1. /\ BrokerTypes /\ Broker!SessionIsMarked /\ Broker!QuarantineOutlives
      /\ Answers(s, "available") /\ at[s] = "available"
  BY BrokerTyped DEF BrokerInv, Broker!Available
<1>2. \A t \in Sessions : at[t] \in Holding => t = s
  BY <1>1, Only DEF Holding, Marked
<1>3. /\ UNCHANGED <<owned, detached, late, barred, held, row, debugger, deaths>>
      /\ \/ at' = [at EXCEPT ![s] = "mark"] /\ row = None /\ busy' = busy
         \/ at' = [at EXCEPT ![s] = "done"] /\ busy' = FALSE
  BY <1>1 DEF Broker!Available, Broker!Goto, Broker!Over, Broker!Mark, Broker!Release, Answers, RowOwned, Marked
<1>4. CASE at' = [at EXCEPT ![s] = "mark"] /\ row = None /\ busy' = busy
  <2>1. BrokerTypes' /\ Broker!SessionIsMarked' /\ Broker!QuarantineOutlives'
    BY <1>1, <1>3, <1>4, NoneIsNoSession
       DEF BrokerTypes, Broker!SessionIsMarked, Broker!QuarantineOutlives, Broker!Places, Answers,
           RowOwned, NoneLate, GivenBack, Marked
  <2>2. Answers(s, "mark")'
    BY <1>1, <1>3, <1>4 DEF BrokerTypes, Answers, RowOwned, NoneLate, GivenBack, Holding, Marked
  <2> QED BY <1>2, <1>3, <1>4, <2>1, <2>2, SessionMoves DEF Broker!Places
<1>5. CASE at' = [at EXCEPT ![s] = "done"] /\ busy' = FALSE
  <2>1. BrokerTypes' /\ Broker!SessionIsMarked' /\ Broker!QuarantineOutlives'
    BY <1>1, <1>3, <1>5, NoneIsNoSession
       DEF BrokerTypes, Broker!SessionIsMarked, Broker!QuarantineOutlives, Broker!Places, Answers,
           RowOwned, NoneLate, GivenBack, Marked
  <2>2. Answers(s, "done")'
    BY <1>1, <1>3, <1>5 DEF BrokerTypes, Answers, RowOwned, NoneLate, GivenBack, Holding, Marked
  <2> QED BY <1>2, <1>3, <1>5, <2>1, <2>2, SessionMoves DEF Broker!Places
<1> QED BY <1>3, <1>4, <1>5

LEMMA SessionMarkAttachingStep == ASSUME BrokerInv, NEW s \in Sessions, Broker!MarkAttaching(s) PROVE BrokerInv'
<1>1. /\ BrokerTypes /\ Broker!SessionIsMarked /\ Broker!QuarantineOutlives
      /\ Answers(s, "mark") /\ at[s] = "mark"
  BY BrokerTyped DEF BrokerInv, Broker!MarkAttaching
<1>2. \A t \in Sessions : at[t] \in Holding => t = s
  BY <1>1, Only DEF Holding, Marked
<1>3. /\ UNCHANGED <<owned, detached, late, barred, held, debugger, deaths>>
      /\ \/ at' = [at EXCEPT ![s] = "attach"] /\ row' = s /\ busy' = busy
         \/ at' = [at EXCEPT ![s] = "done"] /\ busy' = FALSE /\ row' = row
  BY <1>1 DEF Broker!MarkAttaching, Broker!Goto, Broker!Over, Broker!Mark, Broker!Release, Answers, RowOwned, Marked
<1>4. CASE at' = [at EXCEPT ![s] = "attach"] /\ row' = s /\ busy' = busy
  <2>1. BrokerTypes' /\ Broker!SessionIsMarked' /\ Broker!QuarantineOutlives'
    BY <1>1, <1>3, <1>4, NoneIsNoSession
       DEF BrokerTypes, Broker!SessionIsMarked, Broker!QuarantineOutlives, Broker!Places, Answers,
           RowOwned, NoneLate, GivenBack, Marked
  <2>2. Answers(s, "attach")'
    BY <1>1, <1>3, <1>4
       DEF BrokerTypes, Answers, RowOwned, NoneLate, GivenBack, Holding, Marked,
           Broker!SessionIsMarked, Broker!QuarantineOutlives
  <2> QED BY <1>2, <1>3, <1>4, <2>1, <2>2, SessionMoves DEF Broker!Places
<1>5. CASE at' = [at EXCEPT ![s] = "done"] /\ busy' = FALSE /\ row' = row
  <2>1. BrokerTypes' /\ Broker!SessionIsMarked' /\ Broker!QuarantineOutlives'
    BY <1>1, <1>3, <1>5, NoneIsNoSession
       DEF BrokerTypes, Broker!SessionIsMarked, Broker!QuarantineOutlives, Broker!Places, Answers,
           RowOwned, NoneLate, GivenBack, Marked
  <2>2. Answers(s, "done")'
    BY <1>1, <1>3, <1>5 DEF BrokerTypes, Answers, RowOwned, NoneLate, GivenBack, Holding, Marked
  <2> QED BY <1>2, <1>3, <1>5, <2>1, <2>2, SessionMoves DEF Broker!Places
<1> QED BY <1>3, <1>4, <1>5

LEMMA SessionAttachStep == ASSUME BrokerInv, NEW s \in Sessions, Broker!Attach(s) PROVE BrokerInv'
<1>1. /\ BrokerTypes /\ Broker!SessionIsMarked /\ Broker!QuarantineOutlives
      /\ Answers(s, "attach") /\ at[s] = "attach"
  BY BrokerTyped DEF BrokerInv, Broker!Attach
<1>2. \A t \in Sessions : at[t] \in Holding => t = s
  BY <1>1, Only DEF Holding, Marked
<1>3. /\ UNCHANGED <<detached, busy, row, deaths>>
      /\ \/ /\ at' = [at EXCEPT ![s] = "markOwned"] /\ debugger' = s /\ held' = TRUE
            /\ owned' = owned \cup {s} /\ late' = late /\ barred' = barred
         \/ at' = [at EXCEPT ![s] = "denied"] /\ UNCHANGED <<owned, late, barred, held, debugger>>
         \/ /\ at' = [at EXCEPT ![s] = "markLost"] /\ debugger' \in {debugger, s} /\ barred' = TRUE
            /\ late' \in {late, late \cup {s}} /\ owned' = owned /\ held' = held
  BY <1>1 DEF Broker!Attach, Broker!Goto, Broker!Over, Broker!Mark, Broker!Release, Answers, RowOwned, Marked
<1>4. CASE /\ at' = [at EXCEPT ![s] = "markOwned"] /\ debugger' = s /\ held' = TRUE
           /\ owned' = owned \cup {s} /\ late' = late /\ barred' = barred
  <2>1. BrokerTypes' /\ Broker!SessionIsMarked' /\ Broker!QuarantineOutlives'
    BY <1>1, <1>3, <1>4, NoneIsNoSession
       DEF BrokerTypes, Broker!SessionIsMarked, Broker!QuarantineOutlives, Broker!Places, Answers,
           RowOwned, NoneLate, GivenBack, Marked
  <2>2. Answers(s, "markOwned")'
    BY <1>1, <1>3, <1>4 DEF BrokerTypes, Answers, RowOwned, NoneLate, GivenBack, Holding, Marked
  <2> QED BY <1>2, <1>3, <1>4, <2>1, <2>2, SessionMoves DEF Broker!Places
<1>5. CASE at' = [at EXCEPT ![s] = "denied"] /\ UNCHANGED <<owned, late, barred, held, debugger>>
  <2>1. BrokerTypes' /\ Broker!SessionIsMarked' /\ Broker!QuarantineOutlives'
    BY <1>1, <1>3, <1>5, NoneIsNoSession
       DEF BrokerTypes, Broker!SessionIsMarked, Broker!QuarantineOutlives, Broker!Places, Answers,
           RowOwned, NoneLate, GivenBack, Marked
  <2>2. Answers(s, "denied")'
    BY <1>1, <1>3, <1>5 DEF BrokerTypes, Answers, RowOwned, NoneLate, GivenBack, Holding, Marked
  <2> QED BY <1>2, <1>3, <1>5, <2>1, <2>2, SessionMoves DEF Broker!Places
<1>6. CASE /\ at' = [at EXCEPT ![s] = "markLost"] /\ debugger' \in {debugger, s} /\ barred' = TRUE
           /\ late' \in {late, late \cup {s}} /\ owned' = owned /\ held' = held
  <2>1. BrokerTypes' /\ Broker!SessionIsMarked' /\ Broker!QuarantineOutlives'
    BY <1>1, <1>3, <1>6, NoneIsNoSession
       DEF BrokerTypes, Broker!SessionIsMarked, Broker!QuarantineOutlives, Broker!Places, Answers,
           RowOwned, NoneLate, GivenBack, Marked
  <2>2. Answers(s, "markLost")'
    BY <1>1, <1>3, <1>6 DEF BrokerTypes, Answers, RowOwned, NoneLate, GivenBack, Holding, Marked
  <2> QED BY <1>2, <1>3, <1>6, <2>1, <2>2, SessionMoves DEF Broker!Places
<1> QED BY <1>3, <1>4, <1>5, <1>6

LEMMA SessionDeniedStep == ASSUME BrokerInv, NEW s \in Sessions, Broker!Denied(s) PROVE BrokerInv'
<1>1. /\ BrokerTypes /\ Broker!SessionIsMarked /\ Broker!QuarantineOutlives
      /\ Answers(s, "denied") /\ at[s] = "denied"
  BY BrokerTyped DEF BrokerInv, Broker!Denied
<1>2. \A t \in Sessions : at[t] \in Holding => t = s
  BY <1>1, Only DEF Holding, Marked
<1>3. /\ UNCHANGED <<owned, detached, late, barred, held, debugger, deaths>>
      /\ at' = [at EXCEPT ![s] = "done"] /\ busy' = FALSE /\ row' \in {row, None}
  BY <1>1 DEF Broker!Denied, Broker!Goto, Broker!Over, Broker!Mark, Broker!Release, Answers, RowOwned, Marked
<1>4. CASE at' = [at EXCEPT ![s] = "done"] /\ busy' = FALSE /\ row' \in {row, None}
  <2>1. BrokerTypes' /\ Broker!SessionIsMarked' /\ Broker!QuarantineOutlives'
    BY <1>1, <1>3, <1>4, NoneIsNoSession
       DEF BrokerTypes, Broker!SessionIsMarked, Broker!QuarantineOutlives, Broker!Places, Answers,
           RowOwned, NoneLate, GivenBack, Marked
  <2>2. Answers(s, "done")'
    BY <1>1, <1>3, <1>4 DEF BrokerTypes, Answers, RowOwned, NoneLate, GivenBack, Holding, Marked
  <2> QED BY <1>2, <1>3, <1>4, <2>1, <2>2, SessionMoves DEF Broker!Places
<1> QED BY <1>3, <1>4

LEMMA SessionMarkLostStep == ASSUME BrokerInv, NEW s \in Sessions, Broker!MarkLost(s) PROVE BrokerInv'
<1>1. /\ BrokerTypes /\ Broker!SessionIsMarked /\ Broker!QuarantineOutlives
      /\ Answers(s, "markLost") /\ at[s] = "markLost"
  BY BrokerTyped DEF BrokerInv, Broker!MarkLost
<1>2. \A t \in Sessions : at[t] \in Holding => t = s
  BY <1>1, Only DEF Holding, Marked
<1>3. /\ UNCHANGED <<owned, detached, late, barred, held, row, debugger, deaths>>
      /\ \/ at' = [at EXCEPT ![s] = "close"] /\ s \in owned /\ busy' = busy
         \/ at' = [at EXCEPT ![s] = "done"] /\ busy' = FALSE
  BY <1>1 DEF Broker!MarkLost, Broker!Goto, Broker!Over, Broker!Mark, Broker!Release, Answers, RowOwned, Marked
<1>4. CASE at' = [at EXCEPT ![s] = "close"] /\ s \in owned /\ busy' = busy
  <2>1. BrokerTypes' /\ Broker!SessionIsMarked' /\ Broker!QuarantineOutlives'
    BY <1>1, <1>3, <1>4, NoneIsNoSession
       DEF BrokerTypes, Broker!SessionIsMarked, Broker!QuarantineOutlives, Broker!Places, Answers,
           RowOwned, NoneLate, GivenBack, Marked
  <2>2. Answers(s, "close")'
    BY <1>1, <1>3, <1>4 DEF BrokerTypes, Answers, RowOwned, NoneLate, GivenBack, Holding, Marked
  <2> QED BY <1>2, <1>3, <1>4, <2>1, <2>2, SessionMoves DEF Broker!Places
<1>5. CASE at' = [at EXCEPT ![s] = "done"] /\ busy' = FALSE
  <2>1. BrokerTypes' /\ Broker!SessionIsMarked' /\ Broker!QuarantineOutlives'
    BY <1>1, <1>3, <1>5, NoneIsNoSession
       DEF BrokerTypes, Broker!SessionIsMarked, Broker!QuarantineOutlives, Broker!Places, Answers,
           RowOwned, NoneLate, GivenBack, Marked
  <2>2. Answers(s, "done")'
    BY <1>1, <1>3, <1>5 DEF BrokerTypes, Answers, RowOwned, NoneLate, GivenBack, Holding, Marked
  <2> QED BY <1>2, <1>3, <1>5, <2>1, <2>2, SessionMoves DEF Broker!Places
<1> QED BY <1>3, <1>4, <1>5

LEMMA SessionMarkOwnedStep == ASSUME BrokerInv, NEW s \in Sessions, Broker!MarkOwned(s) PROVE BrokerInv'
<1>1. /\ BrokerTypes /\ Broker!SessionIsMarked /\ Broker!QuarantineOutlives
      /\ Answers(s, "markOwned") /\ at[s] = "markOwned"
  BY BrokerTyped DEF BrokerInv, Broker!MarkOwned
<1>2. \A t \in Sessions : at[t] \in Holding => t = s
  BY <1>1, Only DEF Holding, Marked
<1>3. /\ UNCHANGED <<owned, detached, late, busy, barred, held, row, debugger, deaths>>
      /\ \/ at' = [at EXCEPT ![s] = "use"]
         \/ at' = [at EXCEPT ![s] = "close"]
  BY <1>1 DEF Broker!MarkOwned, Broker!Goto, Broker!Over, Broker!Mark, Broker!Release, Answers, RowOwned, Marked
<1>4. CASE at' = [at EXCEPT ![s] = "use"]
  <2>1. BrokerTypes' /\ Broker!SessionIsMarked' /\ Broker!QuarantineOutlives'
    BY <1>1, <1>3, <1>4, NoneIsNoSession
       DEF BrokerTypes, Broker!SessionIsMarked, Broker!QuarantineOutlives, Broker!Places, Answers,
           RowOwned, NoneLate, GivenBack, Marked
  <2>2. Answers(s, "use")'
    BY <1>1, <1>3, <1>4 DEF BrokerTypes, Answers, RowOwned, NoneLate, GivenBack, Holding, Marked
  <2> QED BY <1>2, <1>3, <1>4, <2>1, <2>2, SessionMoves DEF Broker!Places
<1>5. CASE at' = [at EXCEPT ![s] = "close"]
  <2>1. BrokerTypes' /\ Broker!SessionIsMarked' /\ Broker!QuarantineOutlives'
    BY <1>1, <1>3, <1>5, NoneIsNoSession
       DEF BrokerTypes, Broker!SessionIsMarked, Broker!QuarantineOutlives, Broker!Places, Answers,
           RowOwned, NoneLate, GivenBack, Marked
  <2>2. Answers(s, "close")'
    BY <1>1, <1>3, <1>5 DEF BrokerTypes, Answers, RowOwned, NoneLate, GivenBack, Holding, Marked
  <2> QED BY <1>2, <1>3, <1>5, <2>1, <2>2, SessionMoves DEF Broker!Places
<1> QED BY <1>3, <1>4, <1>5

LEMMA SessionUsedStep == ASSUME BrokerInv, NEW s \in Sessions, Broker!Used(s) PROVE BrokerInv'
<1>1. /\ BrokerTypes /\ Broker!SessionIsMarked /\ Broker!QuarantineOutlives
      /\ Answers(s, "use") /\ at[s] = "use"
  BY BrokerTyped DEF BrokerInv, Broker!Used
<1>2. \A t \in Sessions : at[t] \in Holding => t = s
  BY <1>1, Only DEF Holding, Marked
<1>3. /\ UNCHANGED <<owned, detached, late, busy, barred, held, row, debugger, deaths>>
      /\ at' = [at EXCEPT ![s] = "close"]
  BY <1>1 DEF Broker!Used, Broker!Goto, Broker!Over, Broker!Mark, Broker!Release, Answers, RowOwned, Marked
<1>4. CASE at' = [at EXCEPT ![s] = "close"]
  <2>1. BrokerTypes' /\ Broker!SessionIsMarked' /\ Broker!QuarantineOutlives'
    BY <1>1, <1>3, <1>4, NoneIsNoSession
       DEF BrokerTypes, Broker!SessionIsMarked, Broker!QuarantineOutlives, Broker!Places, Answers,
           RowOwned, NoneLate, GivenBack, Marked
  <2>2. Answers(s, "close")'
    BY <1>1, <1>3, <1>4 DEF BrokerTypes, Answers, RowOwned, NoneLate, GivenBack, Holding, Marked
  <2> QED BY <1>2, <1>3, <1>4, <2>1, <2>2, SessionMoves DEF Broker!Places
<1> QED BY <1>3, <1>4

LEMMA SessionCloseStep == ASSUME BrokerInv, NEW s \in Sessions, Broker!Close(s) PROVE BrokerInv'
<1>1. /\ BrokerTypes /\ Broker!SessionIsMarked /\ Broker!QuarantineOutlives
      /\ Answers(s, "close") /\ at[s] = "close"
  BY BrokerTyped DEF BrokerInv, Broker!Close
<1>2. \A t \in Sessions : at[t] \in Holding => t = s
  BY <1>1, Only DEF Holding, Marked
<1>3. /\ UNCHANGED <<owned, detached, late, busy, row, deaths>>
      /\ \/ /\ at' = [at EXCEPT ![s] = "clear"] /\ s \in detached /\ barred' = barred
            /\ debugger' = debugger /\ held' = held
         \/ /\ at' = [at EXCEPT ![s] = "clear"] /\ debugger' = None /\ held' = FALSE /\ barred' = barred
         \/ /\ at' = [at EXCEPT ![s] = "markFailed"] /\ debugger' \in {debugger, None} /\ barred' = TRUE
            /\ held' = held
  BY <1>1 DEF Broker!Close, Broker!Goto, Broker!Over, Broker!Mark, Broker!Release, Answers, RowOwned, Marked
<1>4. CASE /\ at' = [at EXCEPT ![s] = "clear"] /\ s \in detached /\ barred' = barred
           /\ debugger' = debugger /\ held' = held
  <2>1. BrokerTypes' /\ Broker!SessionIsMarked' /\ Broker!QuarantineOutlives'
    BY <1>1, <1>3, <1>4, NoneIsNoSession
       DEF BrokerTypes, Broker!SessionIsMarked, Broker!QuarantineOutlives, Broker!Places, Answers,
           RowOwned, NoneLate, GivenBack, Marked
  <2>2. Answers(s, "clear")'
    BY <1>1, <1>3, <1>4 DEF BrokerTypes, Answers, RowOwned, NoneLate, GivenBack, Holding, Marked
  <2> QED BY <1>2, <1>3, <1>4, <2>1, <2>2, SessionMoves DEF Broker!Places
<1>5. CASE /\ at' = [at EXCEPT ![s] = "clear"] /\ debugger' = None /\ held' = FALSE /\ barred' = barred
  <2>1. BrokerTypes' /\ Broker!SessionIsMarked' /\ Broker!QuarantineOutlives'
    BY <1>1, <1>3, <1>5, NoneIsNoSession
       DEF BrokerTypes, Broker!SessionIsMarked, Broker!QuarantineOutlives, Broker!Places, Answers,
           RowOwned, NoneLate, GivenBack, Marked
  <2>2. Answers(s, "clear")'
    BY <1>1, <1>3, <1>5 DEF BrokerTypes, Answers, RowOwned, NoneLate, GivenBack, Holding, Marked
  <2> QED BY <1>2, <1>3, <1>5, <2>1, <2>2, SessionMoves DEF Broker!Places
<1>6. CASE /\ at' = [at EXCEPT ![s] = "markFailed"] /\ debugger' \in {debugger, None} /\ barred' = TRUE
           /\ held' = held
  <2>1. BrokerTypes' /\ Broker!SessionIsMarked' /\ Broker!QuarantineOutlives'
    BY <1>1, <1>3, <1>6, NoneIsNoSession
       DEF BrokerTypes, Broker!SessionIsMarked, Broker!QuarantineOutlives, Broker!Places, Answers,
           RowOwned, NoneLate, GivenBack, Marked
  <2>2. Answers(s, "markFailed")'
    BY <1>1, <1>3, <1>6 DEF BrokerTypes, Answers, RowOwned, NoneLate, GivenBack, Holding, Marked
  <2> QED BY <1>2, <1>3, <1>6, <2>1, <2>2, SessionMoves DEF Broker!Places
<1> QED BY <1>3, <1>4, <1>5, <1>6

LEMMA SessionClearStep == ASSUME BrokerInv, NEW s \in Sessions, Broker!Clear(s) PROVE BrokerInv'
<1>1. /\ BrokerTypes /\ Broker!SessionIsMarked /\ Broker!QuarantineOutlives
      /\ Answers(s, "clear") /\ at[s] = "clear"
  BY BrokerTyped DEF BrokerInv, Broker!Clear
<1>2. \A t \in Sessions : at[t] \in Holding => t = s
  BY <1>1, Only DEF Holding, Marked
<1>3. /\ UNCHANGED <<owned, detached, late, held, debugger, deaths>>
      /\ \/ /\ at' = [at EXCEPT ![s] = "done"] /\ busy' = FALSE /\ row' = row /\ barred' = barred
         \/ /\ at' = [at EXCEPT ![s] = "done"] /\ busy' = FALSE /\ row' = None
            /\ barred = FALSE /\ barred' = barred
         \/ /\ at' = [at EXCEPT ![s] = "markFailed"] /\ busy' = busy /\ row' = row /\ barred' = TRUE
  BY <1>1 DEF Broker!Clear, Broker!Goto, Broker!Over, Broker!Mark, Broker!Release, Answers, RowOwned, Marked
<1>4. CASE /\ at' = [at EXCEPT ![s] = "done"] /\ busy' = FALSE /\ row' = row /\ barred' = barred
  <2>1. BrokerTypes' /\ Broker!SessionIsMarked' /\ Broker!QuarantineOutlives'
    BY <1>1, <1>3, <1>4, NoneIsNoSession
       DEF BrokerTypes, Broker!SessionIsMarked, Broker!QuarantineOutlives, Broker!Places, Answers,
           RowOwned, NoneLate, GivenBack, Marked
  <2>2. Answers(s, "done")'
    BY <1>1, <1>3, <1>4 DEF BrokerTypes, Answers, RowOwned, NoneLate, GivenBack, Holding, Marked
  <2> QED BY <1>2, <1>3, <1>4, <2>1, <2>2, SessionMoves DEF Broker!Places
<1>5. CASE /\ at' = [at EXCEPT ![s] = "done"] /\ busy' = FALSE /\ row' = None
           /\ barred = FALSE /\ barred' = barred
  <2>1. BrokerTypes' /\ Broker!SessionIsMarked' /\ Broker!QuarantineOutlives'
    BY <1>1, <1>3, <1>5, NoneIsNoSession
       DEF BrokerTypes, Broker!SessionIsMarked, Broker!QuarantineOutlives, Broker!Places, Answers,
           RowOwned, NoneLate, GivenBack, Marked
  <2>2. Answers(s, "done")'
    BY <1>1, <1>3, <1>5 DEF BrokerTypes, Answers, RowOwned, NoneLate, GivenBack, Holding, Marked
  <2> QED BY <1>2, <1>3, <1>5, <2>1, <2>2, SessionMoves DEF Broker!Places
<1>6. CASE /\ at' = [at EXCEPT ![s] = "markFailed"] /\ busy' = busy /\ row' = row /\ barred' = TRUE
  <2>1. BrokerTypes' /\ Broker!SessionIsMarked' /\ Broker!QuarantineOutlives'
    BY <1>1, <1>3, <1>6, NoneIsNoSession
       DEF BrokerTypes, Broker!SessionIsMarked, Broker!QuarantineOutlives, Broker!Places, Answers,
           RowOwned, NoneLate, GivenBack, Marked
  <2>2. Answers(s, "markFailed")'
    BY <1>1, <1>3, <1>6 DEF BrokerTypes, Answers, RowOwned, NoneLate, GivenBack, Holding, Marked
  <2> QED BY <1>2, <1>3, <1>6, <2>1, <2>2, SessionMoves DEF Broker!Places
<1> QED BY <1>3, <1>4, <1>5, <1>6

LEMMA SessionMarkFailedStep == ASSUME BrokerInv, NEW s \in Sessions, Broker!MarkFailed(s) PROVE BrokerInv'
<1>1. /\ BrokerTypes /\ Broker!SessionIsMarked /\ Broker!QuarantineOutlives
      /\ Answers(s, "markFailed") /\ at[s] = "markFailed"
  BY BrokerTyped DEF BrokerInv, Broker!MarkFailed
<1>2. \A t \in Sessions : at[t] \in Holding => t = s
  BY <1>1, Only DEF Holding, Marked
<1>3. /\ UNCHANGED <<owned, detached, late, barred, held, row, debugger, deaths>>
      /\ \/ at' = [at EXCEPT ![s] = "done"] /\ busy' = FALSE
         \/ at' = [at EXCEPT ![s] = "stuck"] /\ busy' = busy
  BY <1>1 DEF Broker!MarkFailed, Broker!Goto, Broker!Over, Broker!Mark, Broker!Release, Answers, RowOwned, Marked
<1>4. CASE at' = [at EXCEPT ![s] = "done"] /\ busy' = FALSE
  <2>1. BrokerTypes' /\ Broker!SessionIsMarked' /\ Broker!QuarantineOutlives'
    BY <1>1, <1>3, <1>4, NoneIsNoSession
       DEF BrokerTypes, Broker!SessionIsMarked, Broker!QuarantineOutlives, Broker!Places, Answers,
           RowOwned, NoneLate, GivenBack, Marked
  <2>2. Answers(s, "done")'
    BY <1>1, <1>3, <1>4 DEF BrokerTypes, Answers, RowOwned, NoneLate, GivenBack, Holding, Marked
  <2> QED BY <1>2, <1>3, <1>4, <2>1, <2>2, SessionMoves DEF Broker!Places
<1>5. CASE at' = [at EXCEPT ![s] = "stuck"] /\ busy' = busy
  <2>1. BrokerTypes' /\ Broker!SessionIsMarked' /\ Broker!QuarantineOutlives'
    BY <1>1, <1>3, <1>5, NoneIsNoSession
       DEF BrokerTypes, Broker!SessionIsMarked, Broker!QuarantineOutlives, Broker!Places, Answers,
           RowOwned, NoneLate, GivenBack, Marked
  <2>2. Answers(s, "stuck")'
    BY <1>1, <1>3, <1>5 DEF BrokerTypes, Answers, RowOwned, NoneLate, GivenBack, Holding, Marked
  <2> QED BY <1>2, <1>3, <1>5, <2>1, <2>2, SessionMoves DEF Broker!Places
<1> QED BY <1>3, <1>4, <1>5

\* An attach nobody waits for is met by the session that still marks it as lost, or by
\* nobody, and the tab is marked then.
LEMMA SessionLateAttachStep == ASSUME BrokerInv, NEW s \in Sessions, Broker!LateAttach(s) PROVE BrokerInv'
<1>1. BrokerTypes /\ Broker!SessionIsMarked /\ Broker!QuarantineOutlives
  BY BrokerTyped DEF BrokerInv
<1>2. /\ UNCHANGED <<at, detached, busy, barred, row, deaths>> /\ s \in late
      /\ late' \in SUBSET late /\ owned' \in SUBSET Sessions /\ held' \in BOOLEAN
      /\ debugger' \in {debugger, None, s}
  BY <1>1 DEF Broker!LateAttach, BrokerTypes
<1>3. row # None
  BY <1>1, <1>2 DEF Broker!QuarantineOutlives
<1>4. BrokerTypes' /\ Broker!SessionIsMarked' /\ Broker!QuarantineOutlives'
  BY <1>1, <1>2, <1>3 DEF BrokerTypes, Broker!SessionIsMarked, Broker!QuarantineOutlives
<1>5. ASSUME NEW t \in Sessions PROVE Answers(t, at[t])'
  <2>1. Answers(t, at[t])
    BY DEF BrokerInv
  <2> QED BY <1>2, <1>3, <2>1 DEF Answers, RowOwned, NoneLate, GivenBack
<1>6. Broker!TypeOK'
  BY <1>4, BrokerTyped, PTL
<1> QED BY <1>2, <1>4, <1>5, <1>6 DEF BrokerInv, OneSession

LEMMA SessionBrowserDetachStep == ASSUME BrokerInv, Broker!BrowserDetach PROVE BrokerInv'
<1>1. BrokerTypes
  BY BrokerTyped DEF BrokerInv
<1>2. /\ UNCHANGED <<at, owned, late, busy, barred, row, deaths>> /\ debugger' = None
      /\ detached' = detached \cup {s \in Sessions : at[s] = "use"} /\ held' \in BOOLEAN
  BY <1>1 DEF Broker!BrowserDetach, Broker!Listening, BrokerTypes
<1>3. BrokerTypes'
  BY <1>1, <1>2 DEF BrokerTypes
<1>4. \A t \in Sessions : Answers(t, at[t])'
  BY <1>1, <1>2 DEF BrokerInv, BrokerTypes, Answers, RowOwned, NoneLate, GivenBack
<1>5. Broker!TypeOK'
  BY <1>3, BrokerTyped, PTL
<1> QED BY <1>2, <1>4, <1>5
     DEF BrokerInv, OneSession, Broker!SessionIsMarked, Broker!QuarantineOutlives

LEMMA BrokerRestarts == ASSUME BrokerInv, Broker!Restart PROVE BrokerInv'
<1>1. BrokerTypes /\ MaxRestarts \in Nat
  BY BrokerTyped, RestartsAreNatural DEF BrokerInv
<1>2. /\ at' = [s \in Sessions |-> IF at[s] \in {"idle", "done"} THEN at[s] ELSE "lost"]
      /\ late' = late \cup {s \in Sessions : at[s] = "attach"}
      /\ owned' = {} /\ detached' = {} /\ UNCHANGED <<row, debugger>>
      /\ busy' = FALSE /\ barred' = FALSE /\ held' = FALSE
      /\ deaths < MaxRestarts /\ deaths' = deaths + 1
  BY DEF Broker!Restart
<1>3. BrokerTypes'
  <2>1. at' \in [Sessions -> Broker!Places] /\ deaths' \in 0 .. MaxRestarts
    BY <1>1, <1>2 DEF BrokerTypes, Broker!Places
  <2>2. late' \in SUBSET Sessions /\ owned' \in SUBSET Sessions /\ detached' \in SUBSET Sessions
    BY <1>1, <1>2 DEF BrokerTypes
  <2> QED BY <1>1, <1>2, <2>1, <2>2 DEF BrokerTypes
<1>4. Broker!QuarantineOutlives'
  BY <1>1, <1>2, NoneIsNoSession
     DEF BrokerInv, BrokerTypes, Broker!QuarantineOutlives, Answers, RowOwned, Marked
<1>5. \A t \in Sessions : at'[t] \in {"idle", "done", "lost"}
  BY <1>2
<1>6. OneSession' /\ \A t \in Sessions : Answers(t, at[t])'
  BY <1>2, <1>5 DEF OneSession, Answers, RowOwned, NoneLate, GivenBack, Holding, Marked
<1>7. Broker!TypeOK'
  BY <1>3, BrokerTyped, PTL
<1> QED BY <1>2, <1>4, <1>6, <1>7 DEF BrokerInv, Broker!SessionIsMarked

LEMMA BrokerRests == ASSUME BrokerInv, UNCHANGED brokerVars PROVE BrokerInv'
BY BrokerTyped
   DEF BrokerInv, brokerVars, Broker!TypeOK, Broker!SessionIsMarked, Broker!QuarantineOutlives,
       OneSession, Answers, RowOwned, NoneLate, GivenBack

LEMMA BrokerSteps == ASSUME BrokerInv, Broker!Next PROVE BrokerInv'
<1>1. CASE \E s \in Sessions : Broker!Open(s) \/ Broker!Run(s) \/ Broker!LateAttach(s) \/ Broker!Send(s)
  <2>1. PICK s \in Sessions : Broker!Open(s) \/ Broker!Run(s) \/ Broker!LateAttach(s) \/ Broker!Send(s)
    BY <1>1
  <2>2. CASE Broker!Run(s)
    BY <2>2, SessionAvailableStep, SessionMarkAttachingStep, SessionAttachStep, SessionDeniedStep, SessionMarkLostStep, SessionMarkOwnedStep,
       SessionUsedStep, SessionCloseStep, SessionClearStep, SessionMarkFailedStep DEF Broker!Run
  <2>3. CASE Broker!Send(s)
    BY <2>3, BrokerRests DEF Broker!Send, Broker!vars, brokerVars
  <2> QED BY <2>1, <2>2, <2>3, SessionOpenStep, SessionLateAttachStep
<1> QED BY <1>1, SessionBrowserDetachStep, BrokerRestarts DEF Broker!Next

LEMMA BrokerStarts == ASSUME Broker!Init PROVE BrokerInv
<1>1. \A s \in Sessions : at[s] = "idle"
  BY DEF Broker!Init
<1>2. BrokerTypes
  <2>1. at \in [Sessions -> Broker!Places] /\ deaths \in 0 .. MaxRestarts
    BY RestartsAreNatural DEF Broker!Init, Broker!Places
  <2> QED BY <2>1 DEF Broker!Init, BrokerTypes
<1>3. OneSession /\ \A s \in Sessions : Answers(s, at[s])
  BY <1>1 DEF Broker!Init, OneSession, Answers, RowOwned, NoneLate, GivenBack, Holding, Marked
<1> QED BY <1>2, <1>3, BrokerTyped
     DEF BrokerInv, Broker!Init, Broker!SessionIsMarked, Broker!QuarantineOutlives

LEMMA CommandsAreOwn == ASSUME BrokerInv PROVE Broker!CommandIsOwn
BY DEF BrokerInv, Broker!CommandIsOwn, Broker!MaySend, Answers, GivenBack

-----------------------------------------------------------------------------
(* The bounded adapter, action by action.                                  *)

Progress == [at : Places, owns : BOOLEAN, dispatched : BOOLEAN, result : Results]

AdapterTypes ==
  /\ current \in Actions \cup {None} /\ permitted \in SUBSET Actions
  /\ act \in [Actions -> Progress]
  /\ active \in BOOLEAN /\ attached \in BOOLEAN /\ aborted \in BOOLEAN /\ quarantined \in BOOLEAN
  /\ cleaning \in {"no", "disable", "detach", "clear"}
  /\ recovery \in {"no", "probe", "detach", "clear", "rejected"}
  /\ session \in Actions \cup {None} /\ marker \in {"none", "attaching", "attached"}
  /\ restarts \in 0 .. MaxRestarts
  /\ effect \in SUBSET Actions /\ stopped \in SUBSET Actions

LEMMA AdapterTyped == TypeOK <=> AdapterTypes
BY DEF TypeOK, AdapterTypes, Progress

\* The record of an action after one of its steps.
Becomes(a, place, result) ==
  /\ act' \in [Actions -> Progress] /\ \A b \in Actions \ {a} : act'[b] = act[b]
  /\ act'[a].at = place /\ act'[a].result = result

Kept(a) == act'[a].owns = act[a].owns /\ act'[a].dispatched = act[a].dispatched

LEMMA GotoFacts ==
  ASSUME AdapterTypes, NEW a \in Actions, NEW place \in Places, Goto(a, place)
  PROVE  Becomes(a, place, act[a].result) /\ Kept(a)
BY DEF AdapterTypes, Becomes, Kept, Goto, Progress

LEMMA EndFacts ==
  ASSUME AdapterTypes, NEW a \in Actions, NEW result \in Results, End(a, result)
  PROVE  Becomes(a, "clear", result) /\ Kept(a)
<1>1. act[a] \in Progress /\ "clear" \in Places
  BY DEF AdapterTypes, Places, Running
<1>2. act' = [act EXCEPT ![a] = [act[a] EXCEPT !.at = "clear", !.result = result]]
  BY DEF AdapterTypes, End
<1>3. [act[a] EXCEPT !.at = "clear", !.result = result] \in Progress
  BY <1>1 DEF Progress
<1> QED BY <1>1, <1>2, <1>3 DEF AdapterTypes, Becomes, Kept, Progress

LEMMA LeftFacts ==
  ASSUME AdapterTypes, NEW a \in Actions, NEW result \in Results, Left(a, result)
  PROVE  /\ Becomes(a, "done", result) /\ Kept(a)
         /\ permitted' \in SUBSET Actions /\ current' \in Actions \cup {None}
<1>1. Becomes(a, "done", result) /\ Kept(a)
  BY DEF AdapterTypes, Becomes, Kept, Left, Progress, Places
<1> QED BY <1>1 DEF AdapterTypes, Left

\* Who acts while one action runs alone.
Driven == driven' = driven /\ (driven = "alone" => \A b \in Actions \ {a1} : act'[b] = act[b])

LEMMA StartStep == ASSUME AdapterInv, Driven, NEW a \in Actions, Start(a) PROVE AdapterInv'
<1>1. AdapterTypes
  BY AdapterTyped DEF AdapterInv
<1>2. /\ act[a].at = "idle"
      /\ UNCHANGED <<adapter, cleaning, recovery, session, marker, restarts, effect, stopped>>
      /\ Goto(a, "recovery") /\ current' = a /\ permitted' = permitted \cup {a}
  BY <1>1 DEF Start, At, Write, AdapterTypes, Progress
<1>3. /\ Becomes(a, "recovery", act[a].result) /\ Kept(a)
      /\ permitted' \in SUBSET Actions /\ current' \in Actions
  BY <1>1, <1>2, GotoFacts, EndFacts, LeftFacts
     DEF Places, Running, Results, AdapterTypes, Progress
<1>4. AdapterTypes'
  BY <1>1, <1>2, <1>3 DEF AdapterTypes, Becomes, adapter, environment
<1>5. TypeOK' /\ UnsentIsUntold' /\ AcknowledgedIsHonest'
  <2>1. TypeOK'
    BY <1>4, AdapterTyped, PTL
  <2>2. UnsentIsUntold' /\ AcknowledgedIsHonest'
    BY <1>1, <1>2, <1>3
       DEF AdapterInv, AdapterTypes, Progress, UnsentIsUntold, AcknowledgedIsHonest, Unsent, Becomes, Kept, Failed
  <2> QED BY <2>1, <2>2
<1>6. ASSUME driven = "alone" PROVE AloneInv'
  <2>1. a = a1
    BY <1>2, <1>3, <1>6 DEF Driven, AdapterInv, AloneInv, OthersRest, Becomes
  <2>2. OthersRest' /\ Untouched' /\ SessionKnown'
    BY <1>2, <1>3, <1>6, <2>1, OneActs
       DEF AdapterInv, AloneInv, OthersRest, Untouched, Before, SessionKnown, Becomes, Kept,
           adapter, environment, Running
  <2>3. SeenGone' /\ LeftClean' /\ SessionIsMarked'
    BY <1>2, <1>3, <1>6, <2>1, OneActs
       DEF AdapterInv, AloneInv, Untouched, Before, SessionKnown, SeenGone, LeftClean, SessionIsMarked,
           Becomes, Kept, adapter, environment, Running
  <2>4. StoppedIsAborted'
    BY <1>1, <1>2, <1>3, <1>6, <2>1, OneActs
       DEF AdapterTypes, AdapterInv, AloneInv, StoppedIsAborted, Becomes, adapter, environment, Running
  <2> QED BY <2>2, <2>3, <2>4 DEF AloneInv
<1> QED BY <1>5, <1>6 DEF AdapterInv, Driven

LEMMA PrepareStep == ASSUME AdapterInv, Driven, NEW a \in Actions, Prepare(a) PROVE AdapterInv'
<1>1. AdapterTypes
  BY AdapterTyped DEF AdapterInv
<1>2. /\ act[a].at = "recovery"
      /\ UNCHANGED <<adapter, cleaning, recovery, session, marker, restarts, effect, stopped>>
      /\ \/ Goto(a, "prepare") /\ UNCHANGED <<permitted, current>>
         \/ Left(a, "DENIED")
  BY <1>1 DEF Prepare, At, Write, AdapterTypes, Progress
<1>3. \/ Becomes(a, "prepare", act[a].result) /\ Kept(a) /\ UNCHANGED <<permitted, current>>
      \/ /\ Becomes(a, "done", "DENIED") /\ Kept(a)
         /\ permitted' \in SUBSET Actions /\ current' \in Actions \cup {None}
  BY <1>1, <1>2, GotoFacts, EndFacts, LeftFacts
     DEF Places, Running, Results, AdapterTypes, Progress
<1>4. AdapterTypes'
  BY <1>1, <1>2, <1>3 DEF AdapterTypes, Becomes, adapter, environment
<1>5. TypeOK' /\ UnsentIsUntold' /\ AcknowledgedIsHonest'
  <2>1. TypeOK'
    BY <1>4, AdapterTyped, PTL
  <2>2. UnsentIsUntold' /\ AcknowledgedIsHonest'
    BY <1>1, <1>2, <1>3
       DEF AdapterInv, AdapterTypes, Progress, UnsentIsUntold, AcknowledgedIsHonest, Unsent, Becomes, Kept, Failed
  <2> QED BY <2>1, <2>2
<1>6. ASSUME driven = "alone" PROVE AloneInv'
  <2>1. a = a1
    BY <1>2, <1>3, <1>6 DEF Driven, AdapterInv, AloneInv, OthersRest, Becomes
  <2>2. OthersRest' /\ Untouched' /\ SessionKnown'
    BY <1>2, <1>3, <1>6, <2>1, OneActs
       DEF AdapterInv, AloneInv, OthersRest, Untouched, Before, SessionKnown, Becomes, Kept,
           adapter, environment, Running
  <2>3. SeenGone' /\ LeftClean' /\ SessionIsMarked'
    BY <1>2, <1>3, <1>6, <2>1, OneActs
       DEF AdapterInv, AloneInv, Untouched, Before, SessionKnown, SeenGone, LeftClean, SessionIsMarked,
           Becomes, Kept, adapter, environment, Running
  <2>4. StoppedIsAborted'
    BY <1>1, <1>2, <1>3, <1>6, <2>1, OneActs
       DEF AdapterTypes, AdapterInv, AloneInv, StoppedIsAborted, Becomes, adapter, environment, Running
  <2> QED BY <2>2, <2>3, <2>4 DEF AloneInv
<1> QED BY <1>5, <1>6 DEF AdapterInv, Driven

LEMMA ActivateStep == ASSUME AdapterInv, Driven, NEW a \in Actions, Activate(a) PROVE AdapterInv'
<1>1. AdapterTypes
  BY AdapterTyped DEF AdapterInv
<1>2. /\ act[a].at = "prepare"
      /\ UNCHANGED <<attached, aborted, quarantined, cleaning, recovery, session, marker, restarts, effect, stopped>>
      /\ \/ Goto(a, "mark") /\ active' = TRUE /\ UNCHANGED <<permitted, current>>
         \/ Left(a, "DENIED") /\ active' = active
  BY <1>1 DEF Activate, At, Write, AdapterTypes, Progress
<1>3. \/ /\ Becomes(a, "mark", act[a].result) /\ Kept(a)
         /\ active' = TRUE /\ UNCHANGED <<permitted, current>>
      \/ /\ Becomes(a, "done", "DENIED") /\ Kept(a) /\ active' = active
         /\ permitted' \in SUBSET Actions /\ current' \in Actions \cup {None}
  BY <1>1, <1>2, GotoFacts, EndFacts, LeftFacts
     DEF Places, Running, Results, AdapterTypes, Progress
<1>4. AdapterTypes'
  <2>1. active' \in BOOLEAN
    BY <1>1, <1>3 DEF AdapterTypes
  <2>2. act' \in [Actions -> Progress] /\ permitted' \in SUBSET Actions /\ current' \in Actions \cup {None}
    BY <1>1, <1>3 DEF AdapterTypes, Becomes
  <2> QED BY <1>1, <1>2, <2>1, <2>2 DEF AdapterTypes
<1>5. TypeOK' /\ UnsentIsUntold' /\ AcknowledgedIsHonest'
  <2>1. TypeOK'
    BY <1>4, AdapterTyped, PTL
  <2>2. UnsentIsUntold' /\ AcknowledgedIsHonest'
    BY <1>1, <1>2, <1>3
       DEF AdapterInv, AdapterTypes, Progress, UnsentIsUntold, AcknowledgedIsHonest, Unsent, Becomes, Kept, Failed
  <2> QED BY <2>1, <2>2
<1>6. ASSUME driven = "alone" PROVE AloneInv'
  <2>1. a = a1
    BY <1>2, <1>3, <1>6 DEF Driven, AdapterInv, AloneInv, OthersRest, Becomes
  <2>2. OthersRest' /\ Untouched' /\ SessionKnown'
    BY <1>2, <1>3, <1>6, <2>1, OneActs
       DEF AdapterInv, AloneInv, OthersRest, Untouched, Before, SessionKnown, Becomes, Kept,
           adapter, environment, Running
  <2>3. SeenGone' /\ LeftClean' /\ SessionIsMarked'
    BY <1>2, <1>3, <1>6, <2>1, OneActs
       DEF AdapterInv, AloneInv, Untouched, Before, SessionKnown, SeenGone, LeftClean, SessionIsMarked,
           Becomes, Kept, adapter, environment, Running
  <2>4. StoppedIsAborted'
    BY <1>1, <1>2, <1>3, <1>6, <2>1, OneActs
       DEF AdapterTypes, AdapterInv, AloneInv, StoppedIsAborted, Becomes, adapter, environment, Running
  <2> QED BY <2>2, <2>3, <2>4 DEF AloneInv
<1> QED BY <1>5, <1>6 DEF AdapterInv, Driven

LEMMA MarkAttachingStep == ASSUME AdapterInv, Driven, NEW a \in Actions, MarkAttaching(a) PROVE AdapterInv'
<1>1. AdapterTypes
  BY AdapterTyped DEF AdapterInv
<1>2. /\ act[a].at = "mark"
      /\ UNCHANGED <<adapter, environment, cleaning, session, effect, stopped>>
      /\ \/ Goto(a, "attach") /\ marker' = "attaching"
         \/ End(a, "FAILED") /\ marker' = marker
  BY <1>1 DEF MarkAttaching, At, Write, AdapterTypes, Progress
<1>3. \/ Becomes(a, "attach", act[a].result) /\ Kept(a) /\ marker' = "attaching"
      \/ Becomes(a, "clear", "FAILED") /\ Kept(a) /\ marker' = marker
  <2>1. Goto(a, "attach") => Becomes(a, "attach", act[a].result) /\ Kept(a)
    BY <1>1, GotoFacts DEF Places, Running
  <2>2. End(a, "FAILED") => Becomes(a, "clear", "FAILED") /\ Kept(a)
    BY <1>1, EndFacts DEF Results
  <2> QED BY <1>1, <1>2, <2>1, <2>2
<1>4. AdapterTypes'
  BY <1>1, <1>2, <1>3 DEF AdapterTypes, Becomes, adapter, environment
<1>5. TypeOK' /\ UnsentIsUntold' /\ AcknowledgedIsHonest'
  <2>1. TypeOK'
    BY <1>4, AdapterTyped, PTL
  <2>2. UnsentIsUntold' /\ AcknowledgedIsHonest'
    BY <1>1, <1>2, <1>3
       DEF AdapterInv, AdapterTypes, Progress, UnsentIsUntold, AcknowledgedIsHonest, Unsent, Becomes, Kept, Failed
  <2> QED BY <2>1, <2>2
<1>6. ASSUME driven = "alone" PROVE AloneInv'
  <2>1. a = a1
    BY <1>2, <1>3, <1>6 DEF Driven, AdapterInv, AloneInv, OthersRest, Becomes
  <2>2. OthersRest' /\ Untouched' /\ SessionKnown'
    BY <1>2, <1>3, <1>6, <2>1, OneActs
       DEF AdapterInv, AloneInv, OthersRest, Untouched, Before, SessionKnown, Becomes, Kept,
           adapter, environment, Running
  <2>3. SeenGone' /\ LeftClean' /\ SessionIsMarked'
    BY <1>2, <1>3, <1>6, <2>1, OneActs
       DEF AdapterInv, AloneInv, Untouched, Before, SessionKnown, SeenGone, LeftClean, SessionIsMarked,
           Becomes, Kept, adapter, environment, Running
  <2>4. StoppedIsAborted'
    BY <1>1, <1>2, <1>3, <1>6, <2>1, OneActs
       DEF AdapterTypes, AdapterInv, AloneInv, StoppedIsAborted, Becomes, adapter, environment, Running
  <2> QED BY <2>2, <2>3, <2>4 DEF AloneInv
<1> QED BY <1>5, <1>6 DEF AdapterInv, Driven

LEMMA AttachStep == ASSUME AdapterInv, Driven, NEW a \in Actions, Attach(a) PROVE AdapterInv'
<1>1. AdapterTypes
  BY AdapterTyped DEF AdapterInv
<1>2. /\ act[a].at = "attach"
      /\ UNCHANGED <<environment, active, aborted, quarantined, cleaning, marker, effect, stopped>>
      /\ \/ /\ act' = [act EXCEPT ![a].at = "markAttached", ![a].owns = TRUE]
            /\ session = None /\ session' = a /\ attached' = TRUE
         \/ End(a, "DENIED") /\ UNCHANGED <<session, attached>>
  BY <1>1 DEF Attach, At, Write, AdapterTypes, Progress
<1>3. \/ /\ Becomes(a, "markAttached", act[a].result)
         /\ act'[a].owns = TRUE /\ act'[a].dispatched = act[a].dispatched
         /\ session' = a /\ attached' = TRUE
      \/ Becomes(a, "clear", "DENIED") /\ Kept(a) /\ UNCHANGED <<session, attached>>
  <2>1. End(a, "DENIED") => Becomes(a, "clear", "DENIED") /\ Kept(a)
    BY <1>1, EndFacts DEF Results
  <2> QED BY <1>1, <1>2, <2>1 DEF Becomes, AdapterTypes, Progress, Places, Running
<1>4. AdapterTypes'
  <2>1. attached' \in BOOLEAN /\ session' \in Actions \cup {None}
    BY <1>1, <1>3 DEF AdapterTypes
  <2>2. act' \in [Actions -> Progress]
    BY <1>1, <1>3 DEF AdapterTypes, Becomes
  <2> QED BY <1>1, <1>2, <2>1, <2>2 DEF AdapterTypes, environment
<1>5. TypeOK' /\ UnsentIsUntold' /\ AcknowledgedIsHonest'
  <2>1. TypeOK'
    BY <1>4, AdapterTyped, PTL
  <2>2. UnsentIsUntold' /\ AcknowledgedIsHonest'
    BY <1>1, <1>2, <1>3
       DEF AdapterInv, AdapterTypes, Progress, UnsentIsUntold, AcknowledgedIsHonest, Unsent, Becomes, Kept, Failed
  <2> QED BY <2>1, <2>2
<1>6. ASSUME driven = "alone" PROVE AloneInv'
  <2>1. a = a1
    BY <1>2, <1>3, <1>6 DEF Driven, AdapterInv, AloneInv, OthersRest, Becomes
  <2>2. OthersRest' /\ Untouched' /\ SessionKnown'
    BY <1>2, <1>3, <1>6, <2>1, OneActs
       DEF AdapterInv, AloneInv, OthersRest, Untouched, Before, SessionKnown, Becomes, Kept,
           adapter, environment, Running
  <2>3. SeenGone' /\ LeftClean' /\ SessionIsMarked'
    BY <1>2, <1>3, <1>6, <2>1, OneActs
       DEF AdapterInv, AloneInv, Untouched, Before, SessionKnown, SeenGone, LeftClean, SessionIsMarked,
           Becomes, Kept, adapter, environment, Running
  <2>4. StoppedIsAborted'
    BY <1>1, <1>2, <1>3, <1>6, <2>1, OneActs
       DEF AdapterTypes, AdapterInv, AloneInv, StoppedIsAborted, Becomes, adapter, environment, Running
  <2> QED BY <2>2, <2>3, <2>4 DEF AloneInv
<1> QED BY <1>5, <1>6 DEF AdapterInv, Driven

LEMMA MarkAttachedStep == ASSUME AdapterInv, Driven, NEW a \in Actions, MarkAttached(a) PROVE AdapterInv'
<1>1. AdapterTypes
  BY AdapterTyped DEF AdapterInv
<1>2. /\ act[a].at = "markAttached"
      /\ UNCHANGED <<adapter, environment, cleaning, session, effect, stopped>>
      /\ \/ Goto(a, "probe") /\ marker' = "attached"
         \/ End(a, "FAILED") /\ marker' = marker
  BY <1>1 DEF MarkAttached, At, Write, AdapterTypes, Progress
<1>3. \/ Becomes(a, "probe", act[a].result) /\ Kept(a) /\ marker' = "attached"
      \/ Becomes(a, "clear", "FAILED") /\ Kept(a) /\ marker' = marker
  <2>1. Goto(a, "probe") => Becomes(a, "probe", act[a].result) /\ Kept(a)
    BY <1>1, GotoFacts DEF Places, Running
  <2>2. End(a, "FAILED") => Becomes(a, "clear", "FAILED") /\ Kept(a)
    BY <1>1, EndFacts DEF Results
  <2> QED BY <1>1, <1>2, <2>1, <2>2
<1>4. AdapterTypes'
  BY <1>1, <1>2, <1>3 DEF AdapterTypes, Becomes, adapter, environment
<1>5. TypeOK' /\ UnsentIsUntold' /\ AcknowledgedIsHonest'
  <2>1. TypeOK'
    BY <1>4, AdapterTyped, PTL
  <2>2. UnsentIsUntold' /\ AcknowledgedIsHonest'
    BY <1>1, <1>2, <1>3
       DEF AdapterInv, AdapterTypes, Progress, UnsentIsUntold, AcknowledgedIsHonest, Unsent, Becomes, Kept, Failed
  <2> QED BY <2>1, <2>2
<1>6. ASSUME driven = "alone" PROVE AloneInv'
  <2>1. a = a1
    BY <1>2, <1>3, <1>6 DEF Driven, AdapterInv, AloneInv, OthersRest, Becomes
  <2>2. OthersRest' /\ Untouched' /\ SessionKnown'
    BY <1>2, <1>3, <1>6, <2>1, OneActs
       DEF AdapterInv, AloneInv, OthersRest, Untouched, Before, SessionKnown, Becomes, Kept,
           adapter, environment, Running
  <2>3. SeenGone' /\ LeftClean' /\ SessionIsMarked'
    BY <1>2, <1>3, <1>6, <2>1, OneActs
       DEF AdapterInv, AloneInv, Untouched, Before, SessionKnown, SeenGone, LeftClean, SessionIsMarked,
           Becomes, Kept, adapter, environment, Running
  <2>4. StoppedIsAborted'
    BY <1>1, <1>2, <1>3, <1>6, <2>1, OneActs
       DEF AdapterTypes, AdapterInv, AloneInv, StoppedIsAborted, Becomes, adapter, environment, Running
  <2> QED BY <2>2, <2>3, <2>4 DEF AloneInv
<1> QED BY <1>5, <1>6 DEF AdapterInv, Driven

LEMMA ProbeStep == ASSUME AdapterInv, Driven, NEW a \in Actions, Probe(a) PROVE AdapterInv'
<1>1. AdapterTypes
  BY AdapterTyped DEF AdapterInv
<1>2. /\ act[a].at \in {"probe", "focus"}
      /\ UNCHANGED <<adapter, environment, cleaning, session, marker, stopped>>
      /\ \/ Goto(a, "focus") /\ effect' = effect
         \/ Goto(a, "press") /\ effect' \in {effect, effect \cup {a}}
         \/ End(a, "FAILED") /\ effect' = effect
         \/ End(a, "DENIED") /\ effect' = effect
  BY <1>1 DEF Probe, At, Write, AdapterTypes, Progress
<1>3. \/ Becomes(a, "focus", act[a].result) /\ Kept(a) /\ effect' = effect
      \/ Becomes(a, "press", act[a].result) /\ Kept(a) /\ effect' \in SUBSET Actions
      \/ Becomes(a, "clear", "FAILED") /\ Kept(a) /\ effect' = effect
      \/ Becomes(a, "clear", "DENIED") /\ Kept(a) /\ effect' = effect
  <2>1. Goto(a, "focus") => Becomes(a, "focus", act[a].result) /\ Kept(a)
    BY <1>1, GotoFacts DEF Places, Running
  <2>2. Goto(a, "press") => Becomes(a, "press", act[a].result) /\ Kept(a)
    BY <1>1, GotoFacts DEF Places, Running
  <2>3. End(a, "FAILED") => Becomes(a, "clear", "FAILED") /\ Kept(a)
    BY <1>1, EndFacts DEF Results
  <2>4. End(a, "DENIED") => Becomes(a, "clear", "DENIED") /\ Kept(a)
    BY <1>1, EndFacts DEF Results
  <2> QED BY <1>1, <1>2, <2>1, <2>2, <2>3, <2>4 DEF AdapterTypes
<1>4. AdapterTypes'
  BY <1>1, <1>2, <1>3 DEF AdapterTypes, Becomes, adapter, environment
<1>5. TypeOK' /\ UnsentIsUntold' /\ AcknowledgedIsHonest'
  <2>1. TypeOK'
    BY <1>4, AdapterTyped, PTL
  <2>2. UnsentIsUntold' /\ AcknowledgedIsHonest'
    BY <1>1, <1>2, <1>3
       DEF AdapterInv, AdapterTypes, Progress, UnsentIsUntold, AcknowledgedIsHonest, Unsent, Becomes, Kept, Failed
  <2> QED BY <2>1, <2>2
<1>6. ASSUME driven = "alone" PROVE AloneInv'
  <2>1. a = a1
    BY <1>2, <1>3, <1>6 DEF Driven, AdapterInv, AloneInv, OthersRest, Becomes
  <2>2. OthersRest' /\ Untouched' /\ SessionKnown'
    BY <1>2, <1>3, <1>6, <2>1, OneActs
       DEF AdapterInv, AloneInv, OthersRest, Untouched, Before, SessionKnown, Becomes, Kept,
           adapter, environment, Running
  <2>3. SeenGone' /\ LeftClean' /\ SessionIsMarked'
    BY <1>2, <1>3, <1>6, <2>1, OneActs
       DEF AdapterInv, AloneInv, Untouched, Before, SessionKnown, SeenGone, LeftClean, SessionIsMarked,
           Becomes, Kept, adapter, environment, Running
  <2>4. StoppedIsAborted'
    BY <1>1, <1>2, <1>3, <1>6, <2>1, OneActs
       DEF AdapterTypes, AdapterInv, AloneInv, StoppedIsAborted, Becomes, adapter, environment, Running
  <2> QED BY <2>2, <2>3, <2>4 DEF AloneInv
<1> QED BY <1>5, <1>6 DEF AdapterInv, Driven

LEMMA PressedStep == ASSUME AdapterInv, Driven, NEW a \in Actions, Pressed(a) PROVE AdapterInv'
<1>1. AdapterTypes
  BY AdapterTyped DEF AdapterInv
<1>2. /\ act[a].at = "press"
      /\ UNCHANGED <<adapter, environment, cleaning, session, marker, stopped>>
      /\ \/ /\ act' = [act EXCEPT ![a].at = "release", ![a].dispatched = TRUE]
            /\ effect' = effect \cup {a}
         \/ /\ End(a, Failed(a))
            /\ effect' \in {effect, IF session = a THEN effect \cup {a} ELSE effect}
  BY <1>1 DEF Pressed, At, Write, AdapterTypes, Progress
<1>3. \/ /\ Becomes(a, "release", act[a].result) /\ act'[a].owns = act[a].owns
         /\ effect' \in SUBSET Actions
      \/ Becomes(a, "clear", Failed(a)) /\ Kept(a) /\ effect' \in SUBSET Actions
  <2>1. Failed(a) \in Results
    BY DEF Failed, Results
  <2> QED BY <1>1, <1>2, <2>1, EndFacts DEF Places, Running, Results, AdapterTypes, Progress, Becomes, Kept
<1>4. AdapterTypes'
  BY <1>1, <1>2, <1>3 DEF AdapterTypes, Becomes, adapter, environment
<1>5. TypeOK' /\ UnsentIsUntold' /\ AcknowledgedIsHonest'
  <2>1. TypeOK'
    BY <1>4, AdapterTyped, PTL
  <2>2. UnsentIsUntold' /\ AcknowledgedIsHonest'
    BY <1>1, <1>2, <1>3
       DEF AdapterInv, AdapterTypes, Progress, UnsentIsUntold, AcknowledgedIsHonest, Unsent, Becomes, Kept, Failed
  <2> QED BY <2>1, <2>2
<1>6. ASSUME driven = "alone" PROVE AloneInv'
  <2>1. a = a1
    BY <1>2, <1>3, <1>6 DEF Driven, AdapterInv, AloneInv, OthersRest, Becomes
  <2>2. OthersRest' /\ Untouched' /\ SessionKnown'
    BY <1>2, <1>3, <1>6, <2>1, OneActs
       DEF AdapterInv, AloneInv, OthersRest, Untouched, Before, SessionKnown, Becomes, Kept,
           adapter, environment, Running
  <2>3. SeenGone' /\ LeftClean' /\ SessionIsMarked'
    BY <1>2, <1>3, <1>6, <2>1, OneActs
       DEF AdapterInv, AloneInv, Untouched, Before, SessionKnown, SeenGone, LeftClean, SessionIsMarked,
           Becomes, Kept, adapter, environment, Running
  <2>4. StoppedIsAborted'
    BY <1>1, <1>2, <1>3, <1>6, <2>1, OneActs
       DEF AdapterTypes, AdapterInv, AloneInv, StoppedIsAborted, Becomes, adapter, environment, Running
  <2> QED BY <2>2, <2>3, <2>4 DEF AloneInv
<1> QED BY <1>5, <1>6 DEF AdapterInv, Driven

LEMMA ReleasedStep == ASSUME AdapterInv, Driven, NEW a \in Actions, Released(a) PROVE AdapterInv'
<1>1. AdapterTypes
  BY AdapterTyped DEF AdapterInv
<1>2. /\ act[a].at = "release"
      /\ UNCHANGED <<adapter, environment, cleaning, session, marker, effect, stopped>>
      /\ \/ End(a, "DISPATCHED")
         \/ End(a, Failed(a))
  BY <1>1 DEF Released, At, Write, AdapterTypes, Progress
<1>3. \/ Becomes(a, "clear", "DISPATCHED") /\ Kept(a)
      \/ Becomes(a, "clear", Failed(a)) /\ Kept(a)
  <2>1. Failed(a) \in Results
    BY DEF Failed, Results
  <2> QED BY <1>1, <1>2, <2>1, EndFacts DEF Places, Running, Results, AdapterTypes, Progress, Becomes, Kept
<1>4. AdapterTypes'
  BY <1>1, <1>2, <1>3 DEF AdapterTypes, Becomes, adapter, environment
<1>5. TypeOK' /\ UnsentIsUntold' /\ AcknowledgedIsHonest'
  <2>1. TypeOK'
    BY <1>4, AdapterTyped, PTL
  <2>2. UnsentIsUntold' /\ AcknowledgedIsHonest'
    BY <1>1, <1>2, <1>3
       DEF AdapterInv, AdapterTypes, Progress, UnsentIsUntold, AcknowledgedIsHonest, Unsent, Becomes, Kept, Failed
  <2> QED BY <2>1, <2>2
<1>6. ASSUME driven = "alone" PROVE AloneInv'
  <2>1. a = a1
    BY <1>2, <1>3, <1>6 DEF Driven, AdapterInv, AloneInv, OthersRest, Becomes
  <2>2. OthersRest' /\ Untouched' /\ SessionKnown'
    BY <1>2, <1>3, <1>6, <2>1, OneActs
       DEF AdapterInv, AloneInv, OthersRest, Untouched, Before, SessionKnown, Becomes, Kept,
           adapter, environment, Running
  <2>3. SeenGone' /\ LeftClean' /\ SessionIsMarked'
    BY <1>2, <1>3, <1>6, <2>1, OneActs
       DEF AdapterInv, AloneInv, Untouched, Before, SessionKnown, SeenGone, LeftClean, SessionIsMarked,
           Becomes, Kept, adapter, environment, Running
  <2>4. StoppedIsAborted'
    BY <1>1, <1>2, <1>3, <1>6, <2>1, OneActs
       DEF AdapterTypes, AdapterInv, AloneInv, StoppedIsAborted, Becomes, adapter, environment, Running
  <2> QED BY <2>2, <2>3, <2>4 DEF AloneInv
<1> QED BY <1>5, <1>6 DEF AdapterInv, Driven

LEMMA ClearStep == ASSUME AdapterInv, Driven, NEW a \in Actions, Clear(a) PROVE AdapterInv'
<1>1. AdapterTypes
  BY AdapterTyped DEF AdapterInv
<1>2. /\ act[a].at = "clear"
      /\ UNCHANGED <<adapter, environment, session, marker, effect, stopped>>
      /\ \/ act[a].owns = TRUE /\ Cleanup /\ cleaning' # "no" /\ Goto(a, "join")
         \/ act[a].owns = TRUE /\ Cleanup /\ cleaning' = "no" /\ Goto(a, "leave")
         \/ act[a].owns = FALSE /\ cleaning' = cleaning /\ Goto(a, "unmark")
  BY <1>1 DEF Clear, At, Write, AdapterTypes, Progress
<1>3. \/ /\ Becomes(a, "join", act[a].result) /\ Kept(a)
         /\ cleaning' # "no" /\ cleaning' \in {cleaning, "disable"}
      \/ /\ Becomes(a, "leave", act[a].result) /\ Kept(a)
         /\ cleaning = "no" /\ cleaning' = "no" /\ attached = FALSE
      \/ /\ Becomes(a, "unmark", act[a].result) /\ Kept(a)
         /\ act[a].owns = FALSE /\ cleaning' = cleaning
  <2>1. Goto(a, "join") => Becomes(a, "join", act[a].result) /\ Kept(a)
    BY <1>1, GotoFacts DEF Places, Running
  <2>2. Goto(a, "leave") => Becomes(a, "leave", act[a].result) /\ Kept(a)
    BY <1>1, GotoFacts DEF Places, Running
  <2>3. Goto(a, "unmark") => Becomes(a, "unmark", act[a].result) /\ Kept(a)
    BY <1>1, GotoFacts DEF Places, Running
  <2> QED BY <1>1, <1>2, <2>1, <2>2, <2>3 DEF Cleanup, AdapterTypes
<1>4. AdapterTypes'
  BY <1>1, <1>2, <1>3 DEF AdapterTypes, Becomes, adapter, environment
<1>5. TypeOK' /\ UnsentIsUntold' /\ AcknowledgedIsHonest'
  <2>1. TypeOK'
    BY <1>4, AdapterTyped, PTL
  <2>2. UnsentIsUntold' /\ AcknowledgedIsHonest'
    BY <1>1, <1>2, <1>3
       DEF AdapterInv, AdapterTypes, Progress, UnsentIsUntold, AcknowledgedIsHonest, Unsent, Becomes, Kept, Failed
  <2> QED BY <2>1, <2>2
<1>6. ASSUME driven = "alone" PROVE AloneInv'
  <2>1. a = a1
    BY <1>2, <1>3, <1>6 DEF Driven, AdapterInv, AloneInv, OthersRest, Becomes
  <2>2. OthersRest' /\ Untouched' /\ SessionKnown'
    BY <1>2, <1>3, <1>6, <2>1, OneActs
       DEF AdapterInv, AloneInv, OthersRest, Untouched, Before, SessionKnown, Becomes, Kept,
           adapter, environment, Running
  <2>3. SeenGone' /\ LeftClean' /\ SessionIsMarked'
    BY <1>2, <1>3, <1>6, <2>1, OneActs
       DEF AdapterInv, AloneInv, Untouched, Before, SessionKnown, SeenGone, LeftClean, SessionIsMarked,
           Becomes, Kept, adapter, environment, Running
  <2>4. StoppedIsAborted'
    BY <1>1, <1>2, <1>3, <1>6, <2>1, OneActs
       DEF AdapterTypes, AdapterInv, AloneInv, StoppedIsAborted, Becomes, adapter, environment, Running
  <2> QED BY <2>2, <2>3, <2>4 DEF AloneInv
<1> QED BY <1>5, <1>6 DEF AdapterInv, Driven

LEMMA LeaveStep == ASSUME AdapterInv, Driven, NEW a \in Actions, Leave(a) PROVE AdapterInv'
<1>1. AdapterTypes
  BY AdapterTyped DEF AdapterInv
<1>2. /\ act[a].at \in {"leave", "unmark"}
      /\ UNCHANGED <<attached, quarantined, cleaning, recovery, session, restarts, effect, stopped>>
      /\ /\ Left(a, act[a].result) /\ active' = FALSE /\ aborted' = FALSE
         /\ marker' \in {marker, "none"} /\ (act[a].at = "leave" => marker' = marker)
  BY <1>1 DEF Leave, At, Write, AdapterTypes, Progress
<1>3. /\ Becomes(a, "done", act[a].result) /\ Kept(a) /\ active' = FALSE /\ aborted' = FALSE
      /\ marker' \in {marker, "none"} /\ (act[a].at = "leave" => marker' = marker)
      /\ permitted' \in SUBSET Actions /\ current' \in Actions \cup {None}
  BY <1>1, <1>2, GotoFacts, EndFacts, LeftFacts
     DEF Places, Running, Results, AdapterTypes, Progress
<1>4. AdapterTypes'
  BY <1>1, <1>2, <1>3 DEF AdapterTypes, Becomes, adapter, environment
<1>5. TypeOK' /\ UnsentIsUntold' /\ AcknowledgedIsHonest'
  <2>1. TypeOK'
    BY <1>4, AdapterTyped, PTL
  <2>2. UnsentIsUntold' /\ AcknowledgedIsHonest'
    BY <1>1, <1>2, <1>3
       DEF AdapterInv, AdapterTypes, Progress, UnsentIsUntold, AcknowledgedIsHonest, Unsent, Becomes, Kept, Failed
  <2> QED BY <2>1, <2>2
<1>6. ASSUME driven = "alone" PROVE AloneInv'
  <2>1. a = a1
    BY <1>2, <1>3, <1>6 DEF Driven, AdapterInv, AloneInv, OthersRest, Becomes
  <2>2. OthersRest' /\ Untouched' /\ SessionKnown'
    BY <1>2, <1>3, <1>6, <2>1, OneActs
       DEF AdapterInv, AloneInv, OthersRest, Untouched, Before, SessionKnown, Becomes, Kept,
           adapter, environment, Running
  <2>3. SeenGone' /\ LeftClean' /\ SessionIsMarked'
    BY <1>2, <1>3, <1>6, <2>1, OneActs
       DEF AdapterInv, AloneInv, Untouched, Before, SessionKnown, SeenGone, LeftClean, SessionIsMarked,
           Becomes, Kept, adapter, environment, Running
  <2>4. StoppedIsAborted'
    BY <1>1, <1>2, <1>3, <1>6, <2>1, OneActs
       DEF AdapterTypes, AdapterInv, AloneInv, OthersRest, StoppedIsAborted, Becomes, adapter, environment, Running
  <2> QED BY <2>2, <2>3, <2>4 DEF AloneInv
<1> QED BY <1>5, <1>6 DEF AdapterInv, Driven

LEMMA ExecuteStep == ASSUME AdapterInv, Driven, NEW a \in Actions, Execute(a) PROVE AdapterInv'
BY PrepareStep, ActivateStep, MarkAttachingStep, AttachStep, MarkAttachedStep, ProbeStep, PressedStep,
   ReleasedStep, ClearStep, LeaveStep DEF Execute

-----------------------------------------------------------------------------
(* Cleanup, abort, detach, restart and recovery.                           *)

LEMMA EndsFacts ==
  ASSUME AdapterTypes, CleanupEnds
  PROVE  /\ cleaning' = "no" /\ act' \in [Actions -> Progress]
         /\ \A b \in Actions :
              /\ act'[b].owns = act[b].owns /\ act'[b].dispatched = act[b].dispatched
              /\ act'[b].result = act[b].result
              /\ act'[b].at = IF act[b].at = "join" THEN "leave" ELSE act[b].at
BY DEF AdapterTypes, CleanupEnds, At, Progress, Places, Running

LEMMA CleanupStepStep == ASSUME AdapterInv, Driven, CleanupStep PROVE AdapterInv'
<1>1. AdapterTypes
  BY AdapterTyped DEF AdapterInv
<1>2. /\ UNCHANGED <<environment, active, aborted, effect, stopped>>
      /\ \/ /\ cleaning = "disable" /\ cleaning' = "detach"
            /\ UNCHANGED <<act, attached, quarantined, session, marker>>
         \/ /\ cleaning = "detach" /\ cleaning' = "clear" /\ session' = None /\ attached' = FALSE
            /\ UNCHANGED <<act, quarantined, marker>>
         \/ /\ cleaning = "clear" /\ CleanupEnds /\ marker' = "none"
            /\ UNCHANGED <<attached, quarantined, session>>
         \/ /\ cleaning # "no" /\ CleanupEnds /\ quarantined' = TRUE
            /\ UNCHANGED <<attached, session, marker>>
  BY DEF CleanupStep, Quarantine
<1>3. /\ act' \in [Actions -> Progress] /\ cleaning # "no"
      /\ \A b \in Actions :
           /\ act'[b].owns = act[b].owns /\ act'[b].dispatched = act[b].dispatched
           /\ act'[b].result = act[b].result
           /\ act'[b].at = IF cleaning' = "no" /\ act[b].at = "join" THEN "leave" ELSE act[b].at
  BY <1>1, <1>2, EndsFacts DEF AdapterTypes
<1>4. \/ cleaning' = "detach" /\ UNCHANGED <<attached, quarantined, session, marker>>
      \/ /\ cleaning' = "clear" /\ session' = None /\ attached' = FALSE
         /\ UNCHANGED <<quarantined, marker>>
      \/ /\ cleaning = "clear" /\ cleaning' = "no" /\ marker' = "none"
         /\ UNCHANGED <<attached, quarantined, session>>
      \/ cleaning' = "no" /\ quarantined' = TRUE /\ UNCHANGED <<attached, session, marker>>
  BY <1>1, <1>2, EndsFacts
<1>5. AdapterTypes'
  <2>1. attached' \in BOOLEAN /\ quarantined' \in BOOLEAN
    BY <1>1, <1>4 DEF AdapterTypes
  <2>2. session' \in Actions \cup {None} /\ marker' \in {"none", "attaching", "attached"}
    BY <1>1, <1>4 DEF AdapterTypes
  <2>3. cleaning' \in {"no", "disable", "detach", "clear"}
    BY <1>4
  <2> QED BY <1>1, <1>2, <1>3, <2>1, <2>2, <2>3 DEF AdapterTypes, environment
<1>6. TypeOK' /\ UnsentIsUntold' /\ AcknowledgedIsHonest'
  <2>1. TypeOK'
    BY <1>5, AdapterTyped, PTL
  <2>2. UnsentIsUntold' /\ AcknowledgedIsHonest'
    BY <1>3 DEF AdapterInv, UnsentIsUntold, AcknowledgedIsHonest, Unsent
  <2> QED BY <2>1, <2>2
<1>7. ASSUME driven = "alone" PROVE AloneInv'
  <2>1. OthersRest' /\ Untouched' /\ SessionKnown'
    BY <1>2, <1>3, <1>4, <1>7, OneActs
       DEF AdapterInv, AloneInv, OthersRest, Untouched, Before, SessionKnown, environment, Running
  <2>2. SeenGone' /\ LeftClean' /\ SessionIsMarked'
    BY <1>2, <1>3, <1>4, <1>7, OneActs
       DEF AdapterInv, AloneInv, SeenGone, LeftClean, SessionIsMarked, environment, Running
  <2>3. StoppedIsAborted'
    BY <1>1, <1>2, <1>3, <1>7
       DEF AdapterTypes, AdapterInv, AloneInv, StoppedIsAborted, environment, Running
  <2> QED BY <2>1, <2>2, <2>3 DEF AloneInv
<1> QED BY <1>6, <1>7 DEF AdapterInv, Driven

LEMMA AbortTabStep == ASSUME AdapterInv, Driven, AbortTab PROVE AdapterInv'
<1>1. AdapterTypes
  BY AdapterTyped DEF AdapterInv
<1>2. /\ UNCHANGED <<environment, act, active, attached, quarantined, session, marker, effect>>
      /\ aborted' = TRUE /\ stopped' = stopped \cup {a \in Actions : act[a].at \in Running}
      /\ \/ cleaning' = cleaning
         \/ cleaning = "no" /\ cleaning' = "disable" /\ attached = TRUE
  BY <1>1 DEF AbortTab, Cleanup, AdapterTypes
<1>3. AdapterTypes'
  BY <1>1, <1>2 DEF AdapterTypes, environment
<1>4. TypeOK' /\ UnsentIsUntold' /\ AcknowledgedIsHonest'
  <2>1. TypeOK'
    BY <1>3, AdapterTyped, PTL
  <2> QED BY <1>2, <2>1 DEF AdapterInv, UnsentIsUntold, AcknowledgedIsHonest
<1>5. ASSUME driven = "alone" PROVE AloneInv'
  <2>1. OthersRest' /\ Untouched' /\ SessionKnown' /\ SeenGone' /\ SessionIsMarked'
    BY <1>2, <1>5
       DEF AdapterInv, AloneInv, OthersRest, Untouched, SessionKnown, SeenGone, SessionIsMarked, environment
  <2>2. LeftClean'
    BY <1>2, <1>5 DEF AdapterInv, AloneInv, LeftClean, environment
  <2>3. StoppedIsAborted'
    BY <1>1, <1>2, <1>5 DEF AdapterTypes, AdapterInv, AloneInv, StoppedIsAborted
  <2> QED BY <2>1, <2>2, <2>3 DEF AloneInv
<1> QED BY <1>4, <1>5 DEF AdapterInv, Driven

LEMMA CancelStep == ASSUME AdapterInv, Driven, Cancel PROVE AdapterInv'
<1>1. AdapterTypes
  BY AdapterTyped DEF AdapterInv
<1>2. current' = None /\ UNCHANGED <<permitted, act, adapter, cleaning, recovery, session, marker,
                                     restarts, effect, stopped>>
  BY DEF Cancel
<1>3. AdapterTypes'
  BY <1>1, <1>2 DEF AdapterTypes, adapter
<1>4. TypeOK'
  BY <1>3, AdapterTyped, PTL
<1> QED BY <1>2, <1>4
     DEF AdapterInv, Driven, UnsentIsUntold, AcknowledgedIsHonest, adapter, AloneInv, OthersRest, Untouched, SessionKnown,
         SeenGone, LeftClean, SessionIsMarked, StoppedIsAborted

LEMMA OnDetachStep == ASSUME AdapterInv, Driven, OnDetach PROVE AdapterInv'
<1>1. AdapterTypes
  BY AdapterTyped DEF AdapterInv
<1>2. /\ UNCHANGED <<environment, act, active, cleaning, effect>>
      /\ session # None /\ session' = None /\ attached' = FALSE /\ quarantined' = FALSE
      /\ marker' \in {"none", marker}
  BY DEF OnDetach, Write
<1>3. /\ aborted' \in BOOLEAN /\ (aborted = TRUE => aborted' = TRUE)
      /\ \/ stopped' = stopped
         \/ aborted' = TRUE /\ stopped' = stopped \cup {a \in Actions : act[a].at \in Running}
  BY <1>1 DEF OnDetach, AdapterTypes
<1>4. AdapterTypes'
  BY <1>1, <1>2, <1>3 DEF AdapterTypes, environment
<1>5. TypeOK' /\ UnsentIsUntold' /\ AcknowledgedIsHonest'
  <2>1. TypeOK'
    BY <1>4, AdapterTyped, PTL
  <2> QED BY <1>2, <2>1 DEF AdapterInv, UnsentIsUntold, AcknowledgedIsHonest
<1>6. ASSUME driven = "alone" PROVE AloneInv'
  <2>1. OthersRest' /\ Untouched' /\ SessionKnown' /\ SeenGone' /\ LeftClean' /\ SessionIsMarked'
    BY <1>2, <1>6
       DEF AdapterInv, AloneInv, OthersRest, Untouched, SessionKnown, SeenGone, LeftClean,
           SessionIsMarked, environment
  <2>2. StoppedIsAborted'
    BY <1>1, <1>2, <1>3, <1>6 DEF AdapterTypes, AdapterInv, AloneInv, StoppedIsAborted
  <2> QED BY <2>1, <2>2 DEF AloneInv
<1> QED BY <1>5, <1>6 DEF AdapterInv, Driven

LEMMA RestartStep == ASSUME AdapterInv, Driven, Restart PROVE AdapterInv'
<1>1. AdapterTypes
  BY AdapterTyped DEF AdapterInv
<1>2. /\ restarts < MaxRestarts /\ restarts' = restarts + 1 /\ current' = None /\ permitted' = {}
      /\ active' = FALSE /\ attached' = FALSE /\ aborted' = FALSE /\ quarantined' = FALSE
      /\ cleaning' = "no" /\ recovery' = IF marker = "none" THEN "no" ELSE "probe"
      /\ UNCHANGED <<session, marker, effect, stopped>>
  BY DEF Restart
<1>3. /\ act' \in [Actions -> Progress]
      /\ \A b \in Actions :
           /\ act'[b].owns = act[b].owns /\ act'[b].dispatched = act[b].dispatched
           /\ act'[b].result = act[b].result
           /\ act'[b].at = IF act[b].at \in {"idle", "done"} THEN act[b].at ELSE "lost"
  BY <1>1 DEF AdapterTypes, Restart, Progress, Places
<1>4. AdapterTypes'
  <2>1. restarts' \in 0 .. MaxRestarts
    BY <1>1, <1>2, RestartsAreNatural DEF AdapterTypes
  <2> QED BY <1>1, <1>2, <1>3, <2>1 DEF AdapterTypes
<1>5. TypeOK' /\ UnsentIsUntold' /\ AcknowledgedIsHonest'
  <2>1. TypeOK'
    BY <1>4, AdapterTyped, PTL
  <2>2. UnsentIsUntold' /\ AcknowledgedIsHonest'
    BY <1>3 DEF AdapterInv, UnsentIsUntold, AcknowledgedIsHonest, Unsent
  <2> QED BY <2>1, <2>2
<1>6. ASSUME driven = "alone" PROVE AloneInv'
  <2>1. OthersRest' /\ Untouched' /\ SessionKnown'
    BY <1>1, <1>2, <1>3, <1>6, OneActs
       DEF AdapterTypes, AdapterInv, AloneInv, OthersRest, Untouched, Before, SessionKnown, Running
  <2>2. SeenGone' /\ LeftClean' /\ SessionIsMarked'
    BY <1>1, <1>2, <1>3, <1>6, OneActs
       DEF AdapterTypes, AdapterInv, AloneInv, Untouched, Before, SeenGone, LeftClean, SessionIsMarked
  <2>3. StoppedIsAborted'
    BY <1>1, <1>2, <1>3, <1>6 DEF AdapterTypes, AdapterInv, AloneInv, StoppedIsAborted, Running
  <2> QED BY <2>1, <2>2, <2>3 DEF AloneInv
<1> QED BY <1>5, <1>6 DEF AdapterInv, Driven

LEMMA RecoverStep == ASSUME AdapterInv, Driven, Recover PROVE AdapterInv'
<1>1. AdapterTypes
  BY AdapterTyped DEF AdapterInv
<1>2. /\ UNCHANGED <<current, permitted, act, active, attached, aborted, cleaning, restarts, effect, stopped>>
      /\ recovery \in {"probe", "detach", "clear"}
      /\ \/ /\ recovery' \in {"no", "rejected"} /\ marker' \in {"none", marker}
            /\ (recovery = "probe" => session = None) /\ recovery # "detach"
            /\ UNCHANGED <<session, quarantined>>
         \/ recovery' = "detach" /\ UNCHANGED <<session, quarantined, marker>>
         \/ recovery' = "clear" /\ session' = None /\ UNCHANGED <<quarantined, marker>>
         \/ recovery' = "no" /\ quarantined' = TRUE /\ UNCHANGED <<session, marker>>
  BY DEF Recover, Quarantine
<1>3. AdapterTypes'
  <2>1. quarantined' \in BOOLEAN
    BY <1>1, <1>2 DEF AdapterTypes
  <2>2. /\ recovery' \in {"no", "probe", "detach", "clear", "rejected"} /\ session' \in Actions \cup {None}
        /\ marker' \in {"none", "attaching", "attached"}
    BY <1>1, <1>2 DEF AdapterTypes
  <2> QED BY <1>1, <1>2, <2>1, <2>2 DEF AdapterTypes
<1>4. TypeOK' /\ UnsentIsUntold' /\ AcknowledgedIsHonest'
  <2>1. TypeOK'
    BY <1>3, AdapterTyped, PTL
  <2> QED BY <1>2, <2>1 DEF AdapterInv, UnsentIsUntold, AcknowledgedIsHonest
<1>5. ASSUME driven = "alone" PROVE AloneInv'
  <2>1. act[a1].at \in {"done", "lost"} /\ (recovery = "clear" => session = None)
    BY <1>2, <1>5 DEF AdapterInv, AloneInv, SeenGone
  <2>2. OthersRest' /\ Untouched' /\ SessionKnown' /\ SeenGone'
    BY <1>2, <1>5, <2>1
       DEF AdapterInv, AloneInv, OthersRest, Untouched, Before, SessionKnown, SeenGone, Running
  <2>3. LeftClean' /\ SessionIsMarked'
    BY <1>2, <1>5, <2>1 DEF AdapterInv, AloneInv, LeftClean, SessionIsMarked
  <2>4. StoppedIsAborted'
    BY <1>2, <1>5 DEF AdapterInv, AloneInv, StoppedIsAborted
  <2> QED BY <2>2, <2>3, <2>4 DEF AloneInv
<1> QED BY <1>4, <1>5 DEF AdapterInv, Driven

LEMMA AdapterSteps == ASSUME AdapterInv, Driven, Next PROVE AdapterInv'
BY StartStep, ExecuteStep, CleanupStepStep, AbortTabStep, CancelStep, OnDetachStep, RestartStep,
   RecoverStep DEF Next

LEMMA AdapterRests == ASSUME AdapterInv, driven' = driven, UNCHANGED vars PROVE AdapterInv'
BY AdapterTyped
   DEF AdapterInv, vars, TypeOK, UnsentIsUntold, AcknowledgedIsHonest, AloneInv, OthersRest, Untouched, SessionKnown,
       SeenGone, LeftClean, SessionIsMarked, StoppedIsAborted

LEMMA AdapterStarts == ASSUME Init PROVE AdapterInv
<1>1. \A a \in Actions : act[a] = Fresh
  BY DEF Init
<1>2. Fresh \in Progress /\ Fresh.at = "idle" /\ Fresh.dispatched = FALSE /\ Fresh.owns = FALSE
      /\ Fresh.result = "none"
  BY DEF Fresh, Progress, Places, Running, Results
<1>3. AdapterTypes
  <2>1. act \in [Actions -> Progress] /\ restarts \in 0 .. MaxRestarts
    BY <1>2, RestartsAreNatural DEF Init
  <2> QED BY <2>1 DEF Init, AdapterTypes
<1>4. UnsentIsUntold /\ AcknowledgedIsHonest
  BY <1>1, <1>2 DEF UnsentIsUntold, AcknowledgedIsHonest
<1>5. AloneInv
  BY <1>1, <1>2, OneActs
     DEF Init, AloneInv, OthersRest, Untouched, Before, SessionKnown, SeenGone, LeftClean,
         SessionIsMarked, StoppedIsAborted, Running
<1> QED BY <1>3, <1>4, <1>5, AdapterTyped DEF AdapterInv

-----------------------------------------------------------------------------
(* The theorems.                                                           *)

LEMMA PressIsGranted ==
  ASSUME AdapterInv, Next, NEW a \in Actions, act'[a].at = "press", act[a].at # "press"
  PROVE  act[a].at \in {"probe", "focus"} /\ current = a /\ aborted = FALSE
<1>1. AdapterTypes
  BY AdapterTyped DEF AdapterInv
<1>2. ASSUME NEW b \in Actions PROVE ~Start(b)
  BY <1>1 DEF Start, At, Goto, AdapterTypes, Progress
<1>3. ASSUME NEW b \in Actions, Execute(b) PROVE Probe(b)
  <2>1. ~Prepare(b)
    BY <1>1 DEF Prepare, At, Left, Goto, AdapterTypes, Progress
  <2>2. ~Activate(b)
    BY <1>1 DEF Activate, At, Left, Goto, AdapterTypes, Progress
  <2>3. ~MarkAttaching(b)
    BY <1>1 DEF MarkAttaching, At, Goto, End, AdapterTypes, Progress
  <2>4. ~Attach(b)
    BY <1>1 DEF Attach, At, End, AdapterTypes, Progress
  <2>5. ~MarkAttached(b)
    BY <1>1 DEF MarkAttached, At, Goto, End, AdapterTypes, Progress
  <2>6. ~Pressed(b)
    BY <1>1 DEF Pressed, At, End, AdapterTypes, Progress
  <2>7. ~Released(b)
    BY <1>1 DEF Released, At, End, AdapterTypes, Progress
  <2>8. ~Clear(b)
    BY <1>1 DEF Clear, At, Goto, AdapterTypes, Progress
  <2>9. ~Leave(b)
    BY <1>1 DEF Leave, At, Left, AdapterTypes, Progress
  <2> QED BY <1>3, <2>1, <2>2, <2>3, <2>4, <2>5, <2>6, <2>7, <2>8, <2>9 DEF Execute
<1>4. ~CleanupStep
  <2>1. ~CleanupEnds
    BY <1>1, EndsFacts
  <2> QED BY <1>1, <2>1 DEF CleanupStep, AdapterTypes
<1>5. ~Restart
  BY <1>1 DEF Restart, AdapterTypes, Progress
<1>6. ~AbortTab /\ ~Cancel /\ ~OnDetach /\ ~Recover
  BY DEF AbortTab, Cancel, OnDetach, Recover
<1>7. PICK b \in Actions : Probe(b)
  BY <1>2, <1>3, <1>4, <1>5, <1>6 DEF Next
<1>8. a = b /\ act[a].at \in {"probe", "focus"}
  BY <1>1, <1>7 DEF Probe, Goto, End, AdapterTypes, Progress
<1>9. Allowed(a)
  BY <1>1, <1>7, <1>8 DEF Probe, Goto, End, AdapterTypes, Progress
<1> QED BY <1>1, <1>8, <1>9 DEF Allowed, Granted, AdapterTypes

LEMMA Stepwise == ASSUME BrokerInv, AdapterInv, [BothNext]_all PROVE BrokerInv' /\ AdapterInv'
<1>1. CASE driven = "overlapping" /\ Next /\ UNCHANGED <<driven, brokerVars>>
  BY <1>1, AdapterSteps, BrokerRests DEF Driven
<1>2. CASE /\ driven = "alone" /\ Next /\ UNCHANGED <<driven, brokerVars>>
           /\ \A a \in Actions \ {a1} : act'[a] = act[a]
  BY <1>2, AdapterSteps, BrokerRests DEF Driven
<1>3. CASE driven = "broker" /\ Broker!Next /\ UNCHANGED <<driven, vars>>
  BY <1>3, BrokerSteps, AdapterRests
<1>4. CASE UNCHANGED all
  BY <1>4, BrokerRests, AdapterRests DEF all
<1> QED BY <1>1, <1>2, <1>3, <1>4 DEF BothNext

\* The two inductive invariants.
THEOREM Invariance == FairBoth => [](BrokerInv /\ AdapterInv)
<1>1. BothInit => BrokerInv /\ AdapterInv
  BY BrokerStarts, AdapterStarts DEF BothInit
<1>2. BrokerInv /\ AdapterInv /\ [BothNext]_all => (BrokerInv /\ AdapterInv)'
  BY Stepwise
<1> QED BY <1>1, <1>2, PTL DEF FairBoth

\* A debugger session of the broker has its row at every moment, a tab that is quarantined
\* or awaits a late attach keeps its row, and commands go to the tab of their session.
THEOREM BrokerIsSafe == FairBoth => []BrokerSafety
<1>1. BrokerInv /\ AdapterInv => BrokerSafety
  BY CommandsAreOwn DEF BrokerInv, AdapterInv, BrokerSafety
<1> QED BY <1>1, Invariance, PTL

\* An action that runs alone attaches under its marker and leaves no session behind; a
\* receipt of an acknowledged input never says failed.
THEOREM AdapterIsSafe == FairBoth => []AdapterSafety
<1>1. ASSUME AdapterInv, driven = "alone" PROVE NoSessionLeak
  BY <1>1, OneActs DEF AdapterInv, AloneInv, LeftClean, Untouched, Before, NoSessionLeak
<1>2. AdapterInv => AdapterSafety
  BY <1>1 DEF AdapterInv, AloneInv, AdapterSafety
<1> QED BY <1>2, Invariance, PTL

\* An action starts its input only while its run is the run of the tab, and one that runs
\* alone not after an abort.
THEOREM InputGranted == FairBoth => InputIsGranted
<1>1. ASSUME AdapterInv, [BothNext]_all, NEW a \in Actions, act'[a].at = "press", act[a].at # "press"
      PROVE  /\ current = a
             /\ driven = "alone" => a \notin stopped
  <2>1. Next
    BY <1>1 DEF BothNext, all, vars
  <2>2. act[a].at \in {"probe", "focus"} /\ current = a /\ aborted = FALSE
    BY <1>1, <2>1, PressIsGranted
  <2> QED BY <1>1, <2>2 DEF AdapterInv, AloneInv, StoppedIsAborted
<1>2. AdapterInv /\ [BothNext]_all =>
        [\A a \in Actions : act'[a].at = "press" /\ act[a].at # "press" => current = a]_vars
  BY <1>1
<1>3. AdapterInv /\ [BothNext]_all =>
        [driven = "alone" => \A a \in stopped : act'[a].at = "press" => act[a].at = "press"]_vars
  BY <1>1, AdapterTyped DEF AdapterInv, AdapterTypes
<1> QED BY <1>2, <1>3, Invariance, PTL DEF FairBoth, InputIsGranted, InputIsCurrent
=============================================================================
