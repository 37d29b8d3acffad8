--------------------------------- MODULE Dht --------------------------------
(***************************************************************************)
(* DhtNode and RoutingTable (p2p-distribute, dht.rs): nodes of two         *)
(* networks that share a transport, which may lose, delay and repeat       *)
(* messages.  A node id is the set of its bits that are one; what asks     *)
(* (external) sends any request to any node, and evicts as                 *)
(* evict_and_insert says it is used.                                       *)
(***************************************************************************)
EXTENDS Integers, SequencesExt

CONSTANTS
    Nodes,          \* node ids
    Bits,           \* BUCKET_COUNT
    NetworkOf,      \* network_id of every node
    K,              \* entries of a bucket
    Keys, Values,   \* of the store; keys are ids too
    Askers,         \* bound: nodes that something asks to act
    MaxSent,        \* bound: messages ever sent
    MaxProbes       \* bound: probes outstanding for one refused contact

ASSUME DhtAssumption ==
    /\ Bits \in Nat /\ Nodes \subseteq SUBSET (0 .. Bits - 1)
    /\ K \in Nat \ {0} /\ Askers \subseteq Nodes

VARIABLES
    tables,     \* routing_table of every node: [buckets -> Seq(entry)]
    stores,     \* store of every node: set of [key, value]
    transit,    \* messages sent so far; any may arrive, again and again
    probes,     \* of every node and contact, evictions that wait for a PING
    added,      \* history: what store_local put into every store
    doubled     \* history: of every node, whom an eviction put in that
                \* was there

dhtVars == <<tables, stores, transit, probes, added, doubled>>

DhtInit ==
    /\ tables = [n \in Nodes |-> [b \in 0 .. Bits - 1 |-> <<>>]]
    /\ stores = [n \in Nodes |-> {}]
    /\ transit = {}
    /\ probes = [n \in Nodes |-> [c \in Nodes |-> 0]]
    /\ added = [n \in Nodes |-> {}]
    /\ doubled = [n \in Nodes |-> {}]

(* xor_distance; bucket_index: its highest bit.                             *)
Distance(m, n) == (m \ n) \cup (n \ m)
BucketIndex(m, n) == Max(Distance(m, n))

(* The arrays are compared from their highest bit on.                       *)
Closer(target, m, n) == m # n /\ Max(Distance(m, n)) \in Distance(target, n)

Contact(n, addr) == [node |-> n, addr |-> addr]

Has(bucket, n) == \E i \in DOMAIN bucket : bucket[i].node = n

(* insert: a known node, the first entry of it, moves to the tail, with     *)
(* what the new entry says of it; a new one is added while there is room.   *)
InsertInto(bucket, e) ==
    IF Has(bucket, e.node)
    THEN Append(RemoveAt(bucket, Min({i \in DOMAIN bucket : bucket[i].node = e.node})), e)
    ELSE IF Len(bucket) < K THEN Append(bucket, e)
    ELSE bucket

InsertContact(t, me, e) ==
    IF e.node = me THEN t ELSE [t EXCEPT ![BucketIndex(me, e.node)] = InsertInto(@, e)]

(* evict_and_insert: the head goes, whatever it is by now, and the new one  *)
(* comes, whether it is there or not.                                       *)
EvictAndInsert(t, me, e) ==
    [t EXCEPT ![BucketIndex(me, e.node)] = Append(IF @ = <<>> THEN @ ELSE Tail(@), e)]

(* closest_nodes. *)
ClosestNodes(t, target, count) ==
    LET known == UNION {{t[b][i].node : i \in DOMAIN t[b]} : b \in 0 .. Bits - 1}
    IN  {n \in known : Cardinality({m \in known : Closer(target, m, n)}) < count}

-----------------------------------------------------------------------------
Message(to, type, from, key, value, nodes) ==
    [to |-> to, type |-> type, network |-> NetworkOf[from], sender |-> from,
     key |-> key, value |-> value, nodes |-> nodes]

NoKey == {}
NoReply == {}

(* The reply of handle_message, and the store afterwards.                   *)
Held(n, key) == {s.value : s \in {x \in stores[n] : x.key = key}}

Reply(n, m) ==
    CASE m.type = "Ping" -> {Message(m.sender, "Pong", n, NoKey, "none", {})}
      [] m.type = "FindNode" ->
            {Message(m.sender, "FoundNode", n, m.key, "none",
                     ClosestNodes(InsertContact(tables[n], n, Contact(m.sender, "none")), m.key, K))}
      [] m.type = "FindValue" ->
            IF Held(n, m.key) # {}
            THEN {Message(m.sender, "FoundValue", n, m.key, v, {}) : v \in Held(n, m.key)}
            ELSE {Message(m.sender, "FoundValue", n, m.key, "none",
                     ClosestNodes(InsertContact(tables[n], n, Contact(m.sender, "none")), m.key, K))}
      [] OTHER -> NoReply

(* A slip: a PING is answered whatever network it comes from. *)
AcceptsPings(m) == m.type = "Ping" \/ m.network = NetworkOf[m.to]

(* What another network sent is silently discarded.                         *)
Accepts(m) == m.network = NetworkOf[m.to]

(* A store with one more entry; a key has one value.                        *)
Stored(store, key, value) ==
    {s \in store : s.key # key} \cup {[key |-> key, value |-> value]}

(* handle_message: every kind but FoundNode and FoundValue notes the        *)
(* sender, with an empty address.                                           *)
Receive(m) ==
    /\ Accepts(m)
    /\ tables' = [tables EXCEPT ![m.to] =
                     IF m.type \in {"FoundNode", "FoundValue"} THEN @
                     ELSE InsertContact(@, m.to, Contact(m.sender, "none"))]
    /\ stores' = IF m.type # "Store" THEN stores
                 ELSE [stores EXCEPT ![m.to] = Stored(@, m.key, m.value)]
    /\ transit' = transit \cup Reply(m.to, m)
    /\ UNCHANGED <<probes, added, doubled>>

(* store_local, of any key and value of the caller's.                       *)
StoreLocal(n, key, value) ==
    /\ stores' = [stores EXCEPT ![n] = Stored(@, key, value)]
    /\ added' = [added EXCEPT ![n] = @ \cup {[key |-> key, value |-> value]}]
    /\ UNCHANGED <<tables, transit, probes, doubled>>

(* External: a request to any node, of the own network or not.              *)
Requests(from, to) ==
    {Message(to, type, from, NoKey, "none", {}) : type \in {"Ping", "Unknown"}}
    \cup {Message(to, type, from, k, "none", {}) : type \in {"FindNode", "FindValue"}, k \in Keys}
    \cup {Message(to, "Store", from, k, v, {}) : k \in Keys, v \in Values}

SendRequest(from, to) ==
    /\ from # to /\ Cardinality(transit) < MaxSent
    /\ \E m \in Requests(from, to) : transit' = transit \cup {m}
    /\ UNCHANGED <<tables, stores, probes, added, doubled>>

(* External: a bootstrap node of the own network, with its address; when    *)
(* its bucket is full the head is pinged, as often as this happens.         *)
AddContact(n, c) ==
    LET bucket == tables[n][BucketIndex(n, c)]
        full == ~Has(bucket, c) /\ Len(bucket) >= K
    IN  /\ n # c /\ NetworkOf[n] = NetworkOf[c]
        /\ full => probes[n][c] < MaxProbes
        /\ tables' = [tables EXCEPT ![n] = InsertContact(@, n, Contact(c, "known"))]
        /\ probes' = IF full THEN [probes EXCEPT ![n][c] = @ + 1] ELSE probes
        /\ UNCHANGED <<stores, transit, added, doubled>>

(* External: the PING times out, or it is answered and nothing is evicted.  *)
ProbeTimesOut(n, c) ==
    /\ probes[n][c] > 0
    /\ probes' = [probes EXCEPT ![n][c] = @ - 1]
    /\ tables' = [tables EXCEPT ![n] = EvictAndInsert(@, n, Contact(c, "known"))]
    /\ doubled' = IF Has(tables[n][BucketIndex(n, c)], c) THEN [doubled EXCEPT ![n] = @ \cup {c}]
                  ELSE doubled
    /\ UNCHANGED <<stores, transit, added>>

ProbeAnswered(n, c) ==
    /\ probes[n][c] > 0
    /\ probes' = [probes EXCEPT ![n][c] = @ - 1]
    /\ UNCHANGED <<tables, stores, transit, added, doubled>>

DhtNext ==
    \/ \E m \in transit : Receive(m)
    \/ \E n \in Askers :
          \/ \E o \in Nodes : SendRequest(n, o) \/ AddContact(n, o)
          \/ \E key \in Keys, value \in Values : StoreLocal(n, key, value)
    \/ \E n, c \in Nodes : ProbeTimesOut(n, c) \/ ProbeAnswered(n, c)

DhtSpec == DhtInit /\ [][DhtNext]_dhtVars

-----------------------------------------------------------------------------
(* A node knows others of its own network only, in the bucket of the        *)
(* highest bit of their distance, no bucket beyond K, each once unless an   *)
(* eviction put it in beside itself, and stores what its network sent or it *)
(* was given (insert, evict_and_insert, handle_message, store_local),       *)
(* whatever is lost, delayed or repeated.                                   *)
BucketIsSound(n, b, bucket) ==
    /\ Len(bucket) <= K
    /\ \A i \in DOMAIN bucket :
          LET distance == Distance(n, bucket[i].node)
          IN  /\ NetworkOf[bucket[i].node] = NetworkOf[n]
              /\ b \in distance /\ \A c \in distance : c <= b

EachIsOnceBut(doubles, bucket) ==
    \A i, j \in DOMAIN bucket :
        i # j /\ bucket[i].node = bucket[j].node => bucket[i].node \in doubles

StoreIsSound(n) ==
    \A s \in stores[n] : s \in added[n] \/ \E m \in transit :
        /\ m.type = "Store" /\ m.to = n /\ m.network = NetworkOf[n]
        /\ m.key = s.key /\ m.value = s.value

TablesAreSound ==
    \A n \in Nodes :
        /\ StoreIsSound(n)
        /\ \A b \in 0 .. Bits - 1 : /\ BucketIsSound(n, b, tables[n][b])
                                   /\ EachIsOnceBut(doubled[n], tables[n][b])
=============================================================================
