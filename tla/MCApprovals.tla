---------------------------- MODULE MCApprovals ----------------------------
(* The two stored policies of the extension for TLC: the approval policy   *)
(* (ApprovalSettings) and the permissions (PermissionGrants). Each has its *)
(* own storage key, its own queue and its own messages, so a behaviour     *)
(* changes one of them, chosen at the start, and the other one rests. The  *)
(* approval policy is changed by two saves, or by one save and restarts;   *)
(* permissions by one decision among sessions on two tabs, or by two       *)
(* decisions in one session.                                               *)
EXTENDS ApprovalSettings, TLC

CONSTANTS s1, s2, t1, t2, provider, k1, local,
          Keys, Local, Sessions, Tab, MaxDecisions, MaxRevocations, MaxDeaths

VARIABLES changed, ready, persistent, once, denied, kept, writes, pending, session, revoking,
          decisions, revocations, deaths, since, refused

Grants == INSTANCE PermissionGrants
            WITH stored <- kept, request <- pending, restarts <- deaths, MaxRestarts <- MaxDeaths

ASSUME GrantsFit == Grants!ConstantsFit

grantVars == <<ready, persistent, once, denied, kept, writes, pending, session, revoking,
               decisions, revocations, deaths, since, refused>>
all == <<vars, grantVars, changed>>

\* One tab for every session, or one for both.
OneTab == [s \in Sessions |-> 1]
TwoTabs == [s \in Sessions |-> IF s = s1 THEN 1 ELSE 2]

\* The one that rests has one initial state.
BothInit ==
  /\ changed \in {"saves", "restarts", "decisions", "sessions"} /\ Init /\ Grants!Init
  /\ changed \in {"saves", "restarts"} => kept = persistent
  /\ changed \in {"decisions", "sessions"} => policy.decision = "ask"

BothNext ==
  \/ changed = "saves" /\ Next /\ restarts' = restarts /\ UNCHANGED <<changed, grantVars>>
  \/ changed = "restarts" /\ Next /\ save'[s2] = save[s2] /\ UNCHANGED <<changed, grantVars>>
  \/ changed = "decisions" /\ Grants!Next /\ session'[s2] = session[s2] /\ UNCHANGED <<changed, vars>>
  \/ changed = "sessions" /\ Grants!Next /\ decisions' <= 1 /\ UNCHANGED <<changed, vars>>

\* Calls of the browser come back, as in FairSpec (no save is under way while the policy
\* rests); nothing is assumed of the permissions.
FairBoth == BothInit /\ [][BothNext]_all /\ Fairness

-----------------------------------------------------------------------------
(* Properties.                                                             *)

\* What is disclosed is disclosed under the policy in force and never behind a closed
\* boundary, the policy in force is the stored one, and no save is lost.
PolicySafety ==
  TypeOK /\ DisclosedInForce /\ InForceIsStored /\ NoLostSave /\ NoOldRequest

\* What was acknowledged as revoked stays revoked, in memory, on disk and in the writes
\* on their way, also after a restart; and no action is sent under an older check.
RevokedStaysRevoked == Grants!TypeOK /\ Grants!RevokedStaysRevoked /\ Grants!NoOldClearance

\* A key the user denied passes no gate until the user allows it or revokes everything.
DenialHolds == Grants!DenialHolds
=============================================================================
