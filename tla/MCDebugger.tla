---------------------------- MODULE MCDebugger -----------------------------
(* The two debugger adapters for TLC: the bounded adapter of the extension *)
(* (BoundedCdp) and the session broker of the target extension             *)
(* (CdpSession). They are two programs that share nothing, so a behaviour  *)
(* drives one of them, chosen at the start, and the other one rests. The   *)
(* bounded adapter is driven with overlapping actions and with one alone.  *)
EXTENDS BoundedCdp, TLC

CONSTANTS a1, a2, s1, s2, s3, Sessions

VARIABLES driven, at, owned, detached, late, busy, barred, held, row, debugger, deaths

ASSUME OneActs == a1 \in Actions
ASSUME NoneIsNoSession == None \notin Sessions

Broker == INSTANCE CdpSession
            WITH active <- busy, quarantined <- barred, restarts <- deaths

brokerVars == <<at, owned, detached, late, busy, barred, held, row, debugger, deaths>>
all == <<vars, brokerVars, driven>>

BothInit == driven \in {"overlapping", "alone", "broker"} /\ Init /\ Broker!Init

BothNext ==
  \/ driven = "overlapping" /\ Next /\ UNCHANGED <<driven, brokerVars>>
  \/ driven = "alone" /\ Next /\ UNCHANGED <<driven, brokerVars>>
       /\ \A a \in Actions \ {a1} : act'[a] = act[a]
  \/ driven = "broker" /\ Broker!Next /\ UNCHANGED <<driven, vars>>

\* The fairness of BoundedCdp!FairSpec; nothing is assumed of the broker.
FairBoth ==
  /\ BothInit /\ [][BothNext]_all
  /\ \A a \in Actions : WF_vars(Settles(a))
  /\ WF_vars(Detaches)

-----------------------------------------------------------------------------
(* Properties.                                                             *)

\* An action that runs alone attaches only under its marker, and leaves no debugger
\* session on the tab, unless the tab is quarantined: whatever fails, after Stop, a page
\* change or a restart. (Overlapping actions may leave one: cdp_overlap.cfg.) A receipt
\* that says an action was sent is honest also when actions overlap.
AdapterSafety ==
  /\ driven = "alone" => NoSessionLeak /\ SessionIsMarked
  /\ AcknowledgedIsHonest

\* An action starts its input only for the run of the tab, and one that runs alone not
\* after an abort.
InputIsGranted ==
  /\ InputIsCurrent
  /\ [][driven = "alone" => \A a \in stopped : act'[a].at = "press" => act[a].at = "press"]_vars

\* An action that attached, and whose session the browser ended or a cleanup is about to
\* end after Stop, a page change or a closed tab, ends, though the page never answers its
\* commands: the detach rejects them. When it has ended alone no session is left, and where
\* the cleanup failed the tab is quarantined. A page that does not answer DOM.disable or
\* the clearing of the target keeps the action, for the code sets no deadline for them; and
\* so does one that never answers a command when the abort came before the attach.
AbortEnds ==
  \A a \in Actions :
    \/ <>[]PageSilent(a)
    \/ a \in stopped /\ act[a].owns /\ (cleaning \in {"disable", "detach"} \/ session # a)
         ~> \/ quarantined \/ At(a, "lost")
            \/ At(a, "done") /\ (driven = "alone" => session = None)

\* The broker: a session has its row at every moment, a tab that is quarantined or awaits
\* a late attach keeps its row, so that the next worker does not attach to it, and commands
\* go to the tab only while no other session is attached.
BrokerSafety ==
  /\ TypeOK /\ Broker!TypeOK
  /\ Broker!SessionIsMarked /\ Broker!QuarantineOutlives /\ Broker!CommandIsOwn
=============================================================================
