--------------------------------- MODULE Feed ---------------------------------
(***************************************************************************)
(* What the store is promised by its netlink listener                      *)
(* (internal/store/netlink_listener.go, as internal/store/event_loop.go    *)
(* relies on it), without subscriptions, streams and goroutines: each      *)
(* namespace is watched or not, and a change in one that is watched leaves *)
(* a message in the same step.  A namespace is read as a whole when it     *)
(* begins to be watched, so that nothing is left over from before.         *)
(***************************************************************************)
CONSTANTS Namespaces, Kinds

VARIABLES
  watched,  \* namespaces whose messages reach the store
  news,     \* changes the store has not been told of
  mail      \* messages on their way from a watched namespace

vars == <<watched, news, mail>>

Of(nss) == nss \X Kinds

Init == watched = {} /\ news = {} /\ mail = {}

Change(ns, kind) ==
  /\ news' = news \cup {<<ns, kind>>}
  /\ mail' = IF ns \in watched THEN mail \cup {<<ns, kind>>} ELSE mail
  /\ UNCHANGED watched

(* The message of a change arrives.                                        *)
Tell(ns, kind) ==
  /\ <<ns, kind>> \in mail
  /\ mail' = mail \ {<<ns, kind>>} /\ news' = news \ {<<ns, kind>>}
  /\ UNCHANGED watched

(* Something else makes the store read some of a namespace.                *)
Read(pairs) == news' = news \ pairs /\ UNCHANGED <<watched, mail>>

(* Changes made while the watch was being set up may have left messages.   *)
Watch(ns) ==
  /\ ns \notin watched /\ watched' = watched \cup {ns}
  /\ news' = news \ Of({ns})
  /\ \E early \in SUBSET Of({ns}) : mail' = mail \cup early

(* Messages on their way may be lost with the watch.                       *)
Unwatch(nss) ==
  /\ watched' = watched \ nss /\ mail' = mail \ Of(nss)
  /\ UNCHANGED news

Next ==
  \/ \E ns \in Namespaces, kind \in Kinds : Change(ns, kind) \/ Tell(ns, kind)
  \/ \E pairs \in SUBSET Of(Namespaces) : Read(pairs)
  \/ \E ns \in Namespaces : Watch(ns)
  \/ \E nss \in SUBSET Namespaces : Unwatch(nss)

Spec == Init /\ [][Next]_vars
=============================================================================
