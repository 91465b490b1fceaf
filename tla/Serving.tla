------------------------------ MODULE Serving ------------------------------
(***************************************************************************)
(* Containers that serve models (bll/serving/__init__.py), in Redis.        *)
(*                                                                         *)
(* A container reports the url of its endpoint, or none while it loads.  Its*)
(* entry is a key that expires; a sorted set for each url lists the keys of *)
(* its containers.  Whoever reads a set removes from it, in a later call,   *)
(* the keys whose entries it did not find.                                  *)
(***************************************************************************)
EXTENDS Naturals

CONSTANTS
  Containers,
  Endpoints,    \* urls of endpoints
  Loading,      \* no url yet
  ServeTimeout, \* register_timeout
  NoUrl         \* the reader is idle

ServingUrls == Endpoints \cup {Loading}

ASSUME ServingAssumption ==
  Loading \notin Endpoints /\ NoUrl \notin ServingUrls /\ ServeTimeout \in Nat \ {0}

VARIABLES
  containers, \* the key of each container: the seconds left of it, its url
  urlSets,    \* the seconds left of a listing, 0 when it is not there or has lapsed
  calls,      \* the handler that serves a container
  reader,     \* a handler of get_endpoint_details or get_loading_instances
  steady      \* history: containers with one url, and no gap, since they were listed

servingVars == <<containers, urlSets, calls, reader, steady>>

Gone == [exists |-> FALSE, left |-> 0, url |-> Loading]
NoCall == [pc |-> "none", url |-> Loading]
IdleReader == [url |-> NoUrl, keys |-> {}, missing |-> {}]

Serves(c, u) == containers[c].exists /\ containers[c].url = u

Put(c, pc, u) == calls' = [calls EXCEPT ![c] = [pc |-> pc, url |-> u]]

-----------------------------------------------------------------------------
\* register_serving_container and container_status_report, which registers a container
\* it does not find: both write a new entry with what the request says.
ReportContainer(c) ==
  /\ calls[c].pc = "none"
  /\ \E u \in ServingUrls : Put(c, "save", u)
  /\ UNCHANGED <<containers, urlSets, reader, steady>>

SaveContainer(c) ==
  /\ calls[c].pc = "save"
  /\ containers' = [containers EXCEPT ![c] =
                      [exists |-> TRUE, left |-> ServeTimeout, url |-> calls[c].url]]
  /\ steady' = IF Serves(c, calls[c].url) THEN steady ELSE steady \ {c}
  /\ Put(c, "list", calls[c].url)
  /\ UNCHANGED <<urlSets, reader>>

\* Mutant of NewScore: the score of a member that is there is not updated (zadd with nx).
KeptScore(c, u) == IF urlSets[u][c] > 0 THEN urlSets[u][c] ELSE ServeTimeout

\* Mutant of NewScore: the listing outlives the entry it was written with.
LateScore(c, u) == ServeTimeout + 1

NewScore(c, u) == ServeTimeout

\* The whole set expires too, after an hour or the timeout, which is no sooner.
ListContainer(c) ==
  /\ calls[c].pc = "list"
  /\ LET u == calls[c].url
     IN  /\ urlSets' = [urlSets EXCEPT ![u][c] = NewScore(c, u)]
         /\ steady' = IF containers[c].exists /\ ~(reader.url = u /\ c \in reader.keys \cup reader.missing)
                        THEN steady \cup {c} ELSE steady
  /\ calls' = [calls EXCEPT ![c] = NoCall]
  /\ UNCHANGED <<containers, reader>>

\* unregister_serving_container reads the entry, takes it out of its set, deletes it.
UnregisterContainer(c) ==
  /\ calls[c].pc = "none"
  /\ IF containers[c].exists THEN Put(c, "unlist", containers[c].url) ELSE Put(c, "delete", Loading)
  /\ UNCHANGED <<containers, urlSets, reader, steady>>

UnlistContainer(c) ==
  /\ calls[c].pc = "unlist"
  /\ urlSets' = [urlSets EXCEPT ![calls[c].url][c] = 0]
  /\ steady' = steady \ {c}
  /\ Put(c, "delete", Loading)
  /\ UNCHANGED <<containers, reader>>

DeleteContainer(c) ==
  /\ calls[c].pc = "delete"
  /\ containers' = [containers EXCEPT ![c] = Gone]
  /\ calls' = [calls EXCEPT ![c] = NoCall]
  /\ UNCHANGED <<urlSets, reader, steady>>

-----------------------------------------------------------------------------
(* _get_endpoint_entries                                                   *)

ReadSet(u) ==
  /\ reader.url = NoUrl
  /\ reader' = [IdleReader EXCEPT !.url = u, !.keys = {c \in Containers : urlSets[u][c] > 0}]
  /\ UNCHANGED <<containers, urlSets, calls, steady>>

\* Only entries that still have the url are returned.
Found(c) == Serves(c, reader.url)

ReadEntry(c) ==
  /\ c \in reader.keys
  /\ reader' = [reader EXCEPT !.keys = @ \ {c}, !.missing = IF Found(c) THEN @ ELSE @ \cup {c}]
  /\ UNCHANGED <<containers, urlSets, calls, steady>>

RemoveMissing ==
  /\ reader.url # NoUrl /\ reader.keys = {}
  /\ urlSets' = [urlSets EXCEPT ![reader.url] =
                   [c \in Containers |-> IF c \in reader.missing THEN 0 ELSE @[c]]]
  /\ reader' = IdleReader
  /\ UNCHANGED <<containers, calls, steady>>

-----------------------------------------------------------------------------
ContainerExpires(c) ==
  /\ containers[c].exists /\ containers[c].left = 0
  /\ containers' = [containers EXCEPT ![c] = Gone]
  /\ steady' = steady \ {c}
  /\ UNCHANGED <<urlSets, calls, reader>>

Second ==
  /\ \A c \in Containers : containers[c].exists => containers[c].left > 0
  /\ containers' = [c \in Containers |-> [containers[c] EXCEPT !.left = IF @ = 0 THEN 0 ELSE @ - 1]]
  /\ urlSets' = [u \in ServingUrls |-> [c \in Containers |->
                   IF urlSets[u][c] = 0 THEN 0 ELSE urlSets[u][c] - 1]]
  /\ UNCHANGED <<calls, reader, steady>>

ServingInit ==
  /\ containers = [c \in Containers |-> Gone]
  /\ urlSets = [u \in ServingUrls |-> [c \in Containers |-> 0]]
  /\ calls = [c \in Containers |-> NoCall]
  /\ reader = IdleReader
  /\ steady = {}

ServingNext ==
  \/ \E c \in Containers :
       \/ ReportContainer(c) \/ SaveContainer(c) \/ ListContainer(c)
       \/ UnregisterContainer(c) \/ UnlistContainer(c) \/ DeleteContainer(c)
       \/ ReadEntry(c) \/ ContainerExpires(c)
  \/ \E u \in ServingUrls : ReadSet(u)
  \/ RemoveMissing \/ Second

ServingSpec == ServingInit /\ [][ServingNext]_servingVars

ServingTypeOK ==
  /\ containers \in [Containers -> [exists: BOOLEAN, left: 0..ServeTimeout, url: ServingUrls]]
  /\ urlSets \in [ServingUrls -> [Containers -> 0..ServeTimeout]]
  /\ calls \in [Containers -> [pc: {"none", "save", "list", "unlist", "delete"}, url: ServingUrls]]
  /\ reader \in [url: ServingUrls \cup {NoUrl}, keys: SUBSET Containers, missing: SUBSET Containers]
  /\ steady \subseteq Containers

\* A container that reports in time, always the same url, is in the set of that url:
\* however readers and its own reports interleave, no reader unlists it.  (A container
\* that was away, or has changed its url, may be unlisted by a reader that looked before
\* it reported, and is found again after its next report only; and a report that is
\* served slowly may write the new listing after the old one has lapsed.)
SteadyContainersAreListed ==
  \A c \in steady : containers[c].left > 0 /\ calls[c].pc # "list"
                     => urlSets[containers[c].url][c] > 0
=============================================================================
