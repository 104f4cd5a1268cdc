--------------------------- MODULE RequestStore ---------------------------
(***************************************************************************)
(* What the request files of a collection promise, without paths: for each   *)
(* request the versions of it that files hold.  A save adds a version and may *)
(* take older ones away; only a deletion leaves a request without any.  Two   *)
(* processes that work on the same files at the same time (`raced`) are        *)
(* promised nothing.                                                         *)
(***************************************************************************)
CONSTANTS
  RequestIds,   \* the ids of requests
  Versions      \* their names and texts

VARIABLES
  stored,       \* the versions of each request that a file holds
  forgotten,    \* the requests that were deleted
  raced         \* two processes worked on the same files

StoreInit ==
  /\ stored = [id \in RequestIds |-> {}]
  /\ forgotten = {} /\ raced = FALSE

KeepsOthers(id) == \A other \in RequestIds \ {id} : stored'[other] = stored[other]

SaveVersion(id) ==
  /\ \E version \in stored'[id] :
       version \in Versions /\ stored'[id] \subseteq stored[id] \cup {version}
  /\ KeepsOthers(id)
  /\ UNCHANGED <<forgotten, raced>>

DropVersions(id) ==
  /\ stored'[id] # {} /\ stored'[id] \subseteq stored[id]
  /\ KeepsOthers(id)
  /\ UNCHANGED <<forgotten, raced>>

DeleteStored(id) ==
  /\ forgotten' = forgotten \cup {id}
  /\ stored'[id] \subseteq stored[id]
  /\ KeepsOthers(id)
  /\ UNCHANGED raced

Race == raced' = TRUE

StoreNext ==
  \/ \E id \in RequestIds : SaveVersion(id) \/ DropVersions(id) \/ DeleteStored(id)
  \/ Race

StoreSpec == StoreInit /\ [][StoreNext]_<<stored, forgotten, raced>>
=============================================================================
