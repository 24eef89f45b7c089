----------------------------- MODULE EventLog -------------------------------
(***************************************************************************)
(* What the service promises the subscribers of its topics: the events of  *)
(* one ordering key (a user of a tenant, or a tenant) form a log, and the  *)
(* first publication of each follows the log.  An event may be given up,   *)
(* never overtaken.  Later publications of the same event say nothing.     *)
(***************************************************************************)
CONSTANTS Key,        \* ordering keys
          Event       \* events

VARIABLES log,        \* per key, the committed events
          prior,      \* per event, those before it in its log
          out,        \* the published events
          gone        \* the events given up unpublished

vars == <<log, prior, out, gone>>

(* The log of a key is a sequence: its events are ordered by prior.          *)
Ordered ==
  \A k \in Key : \A e \in log[k] :
    /\ prior[e] \subseteq log[k] \ {e}
    /\ \A f \in log[k] \ {e} : e \in prior[f] <=> f \notin prior[e]
    /\ \A f \in prior[e] : prior[f] \subseteq prior[e]

Init == /\ log = [k \in Key |-> {}] /\ prior = [e \in Event |-> {}]
        /\ out = {} /\ gone = {}

(* Events are committed: a log stays, or grows at its end.                   *)
Commit ==
  /\ \A k \in Key : /\ log[k] \subseteq log'[k]
                    /\ \A e \in log[k] : prior'[e] = prior[e]
  /\ Ordered'
  /\ UNCHANGED <<out, gone>>

(* The oldest open event of a log.                                           *)
Due(e) == /\ \E k \in Key : e \in log[k]
          /\ e \notin out \cup gone
          /\ prior[e] \subseteq out \cup gone

(* Due events, of different keys, are published, or given up.                *)
Publish(S) ==
  /\ out' = out \cup S
  /\ UNCHANGED <<log, prior, gone>>
  /\ \A e \in S : Due(e)

GiveUp(S) ==
  /\ gone' = gone \cup S
  /\ UNCHANGED <<log, prior, out>>
  /\ \A e \in S : Due(e)

Next == (\E S \in SUBSET Event : Publish(S) \/ GiveUp(S)) \/ Commit

Spec == Init /\ [][Next]_vars
=============================================================================
