-------------------------------- MODULE Stix --------------------------------
(***************************************************************************)
(* BuildBundle of internal/export/stix.go, as operators. An event is       *)
(* [ip, time, protocol, action, score, categories, canary, fingerprint,    *)
(* ua]; an address is a number (only the order of addresses matters), and  *)
(* a User-Agent is [raw, lower, scanner]: how it is written, its lower     *)
(* case, and the first name of scannerUAs in it, or None. The random       *)
(* identifier of an object is what sets the object apart in its bundle.    *)
(***************************************************************************)
EXTENDS Detect

CONSTANT None  \* the empty string: no canary, no fingerprint, no scanner

\* A new ipAgg.
NewAgg(e) ==
  [score |-> e.score, events |-> 0, first_seen |-> e.time, last_seen |-> e.time, labels |-> {},
   protocols |-> {}, actions |-> {}, canaries |-> {}, fingerprints |-> {}]

\* The last event is taken for the latest.
MergeInOrder(a, e) ==
  [score |-> Max({a.score, e.score}), events |-> a.events + 1,
   first_seen |-> a.first_seen, last_seen |-> e.time,
   labels |-> a.labels \cup Range(e.categories),
   protocols |-> a.protocols \cup {e.protocol}, actions |-> a.actions \cup {e.action},
   canaries |-> a.canaries \cup ({e.canary} \ {None}),
   fingerprints |-> a.fingerprints \cup ({e.fingerprint} \ {None, "http/1.1"})]

\* One turn of the loop over the events, for the event's address.
Merge(a, e) ==
  [score |-> Max({a.score, e.score}), events |-> a.events + 1,
   first_seen |-> Min({a.first_seen, e.time}), last_seen |-> Max({a.last_seen, e.time}),
   labels |-> a.labels \cup Range(e.categories),
   protocols |-> a.protocols \cup {e.protocol}, actions |-> a.actions \cup {e.action},
   canaries |-> a.canaries \cup ({e.canary} \ {None}),
   fingerprints |-> a.fingerprints \cup ({e.fingerprint} \ {None, "http/1.1"})]

\* The assignment m[key] = value to a map.
Put(m, key, value) == [k \in DOMAIN m \cup {key} |-> IF k = key THEN value ELSE m[k]]

\* The loop over the events fills the maps byIP and tools.
Empty == [byIP |-> <<>>, tools |-> <<>>]

Turn(m, e) ==
  LET a == IF e.ip \in DOMAIN m.byIP THEN m.byIP[e.ip] ELSE NewAgg(e)
      k == e.ua.lower
      t == IF k \in DOMAIN m.tools THEN m.tools[k] ELSE [ua |-> e.ua.raw, name |-> e.ua.scanner, sources |-> {}]
  IN [byIP |-> Put(m.byIP, e.ip, Merge(a, e)),
      tools |-> IF e.ua.scanner = None THEN m.tools
                ELSE Put(m.tools, k, [ua |-> t.ua, name |-> t.name, sources |-> t.sources \cup {e.ip}])]

Aggregate(events) == FoldLeft(Turn, Empty, events)

\* sort.Strings of the keys of a map.
Sorted(S) == CHOOSE s \in SetToSeqs(S) : \A i, j \in DOMAIN s : i < j => s[i] < s[j]

Indicator(ip, a) ==
  [type |-> "indicator", id |-> <<"indicator", ip>>, ip |-> ip, agg |-> a,
   confidence |-> a.score, severity |-> SeverityFor(a.score), valid_from |-> a.first_seen]

Tool(k, t) == [type |-> "tool", id |-> <<"tool", k>>, name |-> t.name, ua |-> t.ua, sources |-> t.sources]

\* The bundles BuildBundle may return: indicators in the order of their
\* addresses, tools in the order of a map iteration, and the report last.
BuildBundle(events) ==
  LET byIP == Aggregate(events).byIP
      tools == Aggregate(events).tools
      ips == Sorted(DOMAIN byIP)
      indicators == [i \in DOMAIN ips |-> Indicator(ips[i], byIP[ips[i]])]
      Bundle(order) ==
        LET objects == indicators \o [i \in DOMAIN order |-> Tool(order[i], tools[order[i]])]
        IN Append(objects, [type |-> "report", id |-> <<"report">>, events |-> Len(events), sources |-> Len(ips),
                            object_refs |-> [i \in DOMAIN objects |-> objects[i].id]])
  IN {Bundle(order) : order \in SetToSeqs(DOMAIN tools)}
=============================================================================
