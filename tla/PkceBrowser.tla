----------------------------- MODULE PkceBrowser -----------------------------
(***************************************************************************)
(* The browser part of the Authorization Code grant with PKCE                  *)
(* (execute_with_pkce_browser in postly-core/src/http.rs): a listener on the      *)
(* loopback redirect, the browser sent to the provider, one connection accepted    *)
(* and read as the callback, its answer, and the request with the code.           *)
(*                                                                         *)
(* Flows of the desktop and of the command line share the port of the redirect.    *)
(* The browser connects whenever it wants: with the callback of any authorization   *)
(* that was opened, again, for its icon, or with a connection it leaves idle.      *)
(***************************************************************************)
EXTENDS Naturals, Sequences

CONSTANTS
  Flows,          \* the runs of the flow, each with its own `state`
  MaxBacklog      \* bound: connections the listener has not accepted yet

NoFlow == "no flow"
ASSUME PkceBrowserAssumption == MaxBacklog \in Nat \ {0} /\ NoFlow \notin Flows

VARIABLES
  flow_phase,     \* where each flow is
  opened_flows,   \* flows whose authorization URL the browser has
  port_owner,     \* the flow that listens on the port, or NoFlow
  backlog,        \* connections to the port, in order
  accepted,       \* the connection each flow reads
  granted         \* the code that each flow continues with: whose it is

pkceVars == <<flow_phase, opened_flows, port_owner, backlog, accepted, granted>>
NoConnection == [kind |-> "none", state |-> NoFlow]

PkceBrowserInit ==
  /\ flow_phase = [f \in Flows |-> "idle"] /\ opened_flows = {}
  /\ port_owner = NoFlow /\ backlog = <<>>
  /\ accepted = [f \in Flows |-> NoConnection] /\ granted = [f \in Flows |-> NoFlow]

At(f, phases) == flow_phase[f] \in phases
EnterFlowPhase(f, phase) == flow_phase' = [flow_phase EXCEPT ![f] = phase]
(* The listener lives as long as the call, and takes what it did not accept      *)
(* with it.                                                                  *)
EndFlow(f, phase) ==
  /\ EnterFlowPhase(f, phase)
  /\ port_owner' = NoFlow /\ backlog' = <<>>

(* The redirect is a loopback address with a port, the values of the request are  *)
(* defined, and the port can be bound; or the flow fails.                        *)
StartFlow(f) ==
  /\ At(f, {"idle"})
  /\ \/ port_owner = NoFlow /\ port_owner' = f /\ EnterFlowPhase(f, "opening")
     \/ EnterFlowPhase(f, "failed") /\ UNCHANGED port_owner
  /\ UNCHANGED <<opened_flows, backlog, accepted, granted>>

(* The verifier and the URL are checked and the browser is opened.              *)
OpenAuthorization(f) ==
  /\ At(f, {"opening"})
  /\ EnterFlowPhase(f, "waiting") /\ opened_flows' = opened_flows \cup {f}
  /\ UNCHANGED <<port_owner, backlog, accepted, granted>>

Connections ==
  [kind : {"code", "denied", "no code"}, state : opened_flows] \cup
  [kind : {"other path", "idle"}, state : {NoFlow}]
BrowserConnects ==
  /\ port_owner # NoFlow /\ Len(backlog) < MaxBacklog
  /\ \E c \in Connections : backlog' = Append(backlog, c)
  /\ UNCHANGED <<flow_phase, opened_flows, port_owner, accepted, granted>>

AcceptConnection(f) ==
  /\ At(f, {"waiting"}) /\ backlog # <<>>
  /\ accepted' = [accepted EXCEPT ![f] = Head(backlog)] /\ backlog' = Tail(backlog)
  /\ EnterFlowPhase(f, "reading")
  /\ UNCHANGED <<opened_flows, port_owner, granted>>

(* read_oauth_callback; an idle connection is read until it closes.              *)
IsCallbackOfAny(f, c) == c.kind = "code"
IsCallback(f, c) == c.kind = "code" /\ c.state = f
ReadCallback(f) ==
  /\ At(f, {"reading"})
  /\ granted' = [granted EXCEPT ![f] =
       IF IsCallback(f, accepted[f]) THEN accepted[f].state ELSE NoFlow]
  /\ EnterFlowPhase(f, "answering")
  /\ UNCHANGED <<opened_flows, port_owner, backlog, accepted>>

(* Only the first connection is read: when it was not the callback the flow       *)
(* fails, and also when its answer cannot be written.                            *)
AnswerCallback(f) ==
  /\ At(f, {"answering"})
  /\ \/ /\ granted[f] # NoFlow
        /\ EnterFlowPhase(f, "exchanging") /\ UNCHANGED <<port_owner, backlog>>
     \/ EndFlow(f, "failed")
  /\ UNCHANGED <<opened_flows, accepted, granted>>

(* execute with the code and the verifier; the listener is still there.          *)
ExchangeCode(f) ==
  /\ At(f, {"exchanging"})
  /\ EndFlow(f, "done") \/ EndFlow(f, "failed")
  /\ UNCHANGED <<opened_flows, accepted, granted>>

(* OAUTH_BROWSER_TIMEOUT covers the accept, the read and the answer.             *)
TimeOutFlow(f) ==
  /\ At(f, {"waiting", "reading", "answering"})
  /\ EndFlow(f, "failed")
  /\ UNCHANGED <<opened_flows, accepted, granted>>

(* An error before the timeout starts, or the caller drops the call.            *)
DropFlow(f) ==
  /\ At(f, {"opening", "waiting", "reading", "answering", "exchanging"})
  /\ EndFlow(f, "failed")
  /\ UNCHANGED <<opened_flows, accepted, granted>>

PkceBrowserNext ==
  \/ BrowserConnects
  \/ \E f \in Flows :
       \/ StartFlow(f) \/ OpenAuthorization(f) \/ AcceptConnection(f) \/ ReadCallback(f)
       \/ AnswerCallback(f) \/ ExchangeCode(f) \/ TimeOutFlow(f) \/ DropFlow(f)

PkceBrowserFairness == \A f \in Flows : WF_pkceVars(TimeOutFlow(f))
PkceBrowserSpec ==
  PkceBrowserInit /\ [][PkceBrowserNext]_pkceVars /\ PkceBrowserFairness

PkceBrowserTypeOK ==
  /\ \A f \in Flows : At(f, {"idle", "opening", "waiting", "reading", "answering",
                             "exchanging", "done", "failed"})
  /\ opened_flows \subseteq Flows /\ port_owner \in Flows \cup {NoFlow}
  /\ Len(backlog) <= MaxBacklog
  /\ granted \in [Flows -> Flows \cup {NoFlow}]

(* Whatever reaches the port - the callback of an earlier or another flow on the  *)
(* same port, a denial, an icon - the code that a flow exchanges is the one that   *)
(* its own authorization was given, and it came while that flow listened.        *)
FlowUsesOwnCode ==
  \A f \in Flows :
    At(f, {"exchanging", "done"}) =>
      granted[f] = f /\ f \in opened_flows /\ (At(f, {"exchanging"}) => port_owner = f)

(* A user who never comes back from the browser does not keep the flow, or the    *)
(* port, for ever.                                                            *)
FlowWaits(f) == At(f, {"waiting"})
FlowEnded(f) == At(f, {"exchanging", "done", "failed"})
BrowserWaitEnds == \A f \in Flows : FlowWaits(f) ~> FlowEnded(f)
=============================================================================
