----------------------------- MODULE Components -----------------------------
(***************************************************************************)
(* What components that share no state promise together: the data of a     *)
(* workspace on disk (WorkspaceFiles, CookieJar), the tokens that requests  *)
(* carry (OAuthTokens, PkceBrowser), the streams of events, messages and    *)
(* bytes (EventStream, WebSocketSession, Tunnel, GrpcCall), and the work    *)
(* that another thread or process does (DesktopWorkers, ScriptProcess,      *)
(* ScriptHarness).                                                          *)
(***************************************************************************)
EXTENDS Environments, WorkspaceFiles, CookieJar, OAuthTokens, PkceBrowser,
        EventStream, WebSocketSession, Tunnel, GrpcCall,
        ScriptProcess, ScriptHarness, DesktopWorkers

(* Two processes leave one file for each request (WorkspaceFiles), and the  *)
(* cookie file holds what an engine saved (CookieJar).                      *)
StoredDataIsWhole == OneFilePerRequest /\ JarFollowsEngine

(* A cached token is one the server still takes (OAuthTokens), and a        *)
(* browser flow exchanges the code of its own state (PkceBrowser).          *)
TokensAreOwnAndValid == CachedTokensAreValid /\ FlowUsesOwnCode

(* Events and messages reach the user in the order in which they were sent, *)
(* across reconnections (EventStream, WebSocketSession); a tunnel hands     *)
(* over the target's bytes and no others (Tunnel); and a gRPC call is sent  *)
(* when all of it is in order, and shown with all its answers (GrpcCall).   *)
StreamsKeepOrder ==
  /\ EventsResumeInOrder
  /\ TextsSentInOrder
  /\ TunnelIsClean
  /\ CallsAreWhole

(* Work given to another thread or process is accounted for: its result is  *)
(* shown, or it was cancelled (DesktopWorkers), a script's child is reaped  *)
(* (ScriptProcess), and what a script did before and after it waited is in  *)
(* its output once (ScriptHarness).                                         *)
WorkersAreAccountedFor ==
  /\ WorkIsAccountedFor
  /\ ReturnedScriptIsReaped
  /\ ScriptOutputIsExact
=============================================================================
