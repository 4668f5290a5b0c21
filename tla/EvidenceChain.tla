---------------------------- MODULE EvidenceChain ----------------------------
(* The evidence log: evidence-sdk (hashEvent, createEvidenceEvent,          *)
(* verifyChain, generateChainAnchor) and the two stores that append to it,  *)
(* memory.js in one turn of the event loop and pg.js in two statements.     *)
(*                                                                          *)
(* A hash is collision-free: it is the tuple of what is hashed. A store     *)
(* keeps the events of each scope (an aggregate) in the order of their      *)
(* insertion, which is the order getEvidence lists them in.                 *)
EXTENDS Naturals, Sequences, SequencesExt

CONSTANTS
    Scopes,     \* aggregates that have a chain
    Payloads,   \* what callers append: event type, actor, action, ...
    Writers,    \* requests that append, at the same time
    Stores,     \* the stores the orchestrator may be started with
    MaxEvents   \* bound: events of a scope

ASSUME EvidenceAssumption == Stores \subseteq {"memory", "pg"} /\ MaxEvents \in Nat

VARIABLES
    store,    \* the store in use
    chain,    \* evidence_events: the events of each scope
    pending,  \* what each writer has read and not yet inserted
    anchors   \* anchors given out: scope, length, head hash

vars == <<store, chain, pending, anchors>>

NoHash == <<>>
NoWrite == <<>>

----------------------------------------------------------------------------
(* evidence-sdk                                                             *)

\* Faulty variant: the previous hash is left out.
HashWithoutPrev(scope, payload, prevHash) == <<scope, payload>>

HashEvent(scope, payload, prevHash) == <<scope, payload, prevHash>>

\* Every payload is enriched with its version (and warnings) before hashing.
Enriched(payload) == [raw |-> payload, version |-> "2.0"]
Raw(payload) == [raw |-> payload]

CreateEvidenceEvent(scope, payload, prevHash) ==
    [payload |-> Enriched(payload), prevHash |-> prevHash,
     payloadHash |-> HashEvent(scope, Enriched(payload), prevHash)]

HashBefore(events, i) == IF i = 1 THEN NoHash ELSE events[i - 1].payloadHash

\* verifyChain: each stored hash is recomputed over the stored payload and the
\* stored hash before it; what the event says of its prevHash is not looked at.
VerifyChain(scope, events) ==
    \A i \in DOMAIN events :
        events[i].payloadHash = HashEvent(scope, events[i].payload, HashBefore(events, i))

\* generateChainAnchor refuses a chain that does not verify.
Anchorable(scope) == VerifyChain(scope, chain[scope])

----------------------------------------------------------------------------
\* createDatabase picks the store when the process starts.
Init ==
    /\ store \in Stores
    /\ chain = [s \in Scopes |-> <<>>]
    /\ pending = [w \in Writers |-> NoWrite]
    /\ anchors = {}

\* Faulty variant: the chain continues from its first event.
ContinueFromFirst(s) == IF chain[s] = <<>> THEN NoHash ELSE chain[s][1].payloadHash

\* The hash of the scope's latest event, null if it has none.
LatestHash(s) == HashBefore(chain[s], Len(chain[s]) + 1)

\* Faulty variant: the event is put where a newest-first list has it.
PrependEvent(s, event) == chain' = [chain EXCEPT ![s] = <<event>> \o @]

Insert(s, event) == chain' = [chain EXCEPT ![s] = Append(@, event)]

\* memory.js: read, hash and push with no await in between.
AppendInMemory ==
    /\ store = "memory"
    /\ \E s \in Scopes, p \in Payloads :
         /\ Len(chain[s]) < MaxEvents
         /\ Insert(s, CreateEvidenceEvent(s, p, LatestHash(s)))
    /\ UNCHANGED <<store, pending, anchors>>

\* pg.js: select the latest hash,
ReadLatest(w) ==
    /\ store = "pg"
    /\ pending[w] = NoWrite
    /\ \E s \in Scopes, p \in Payloads :
         /\ Len(chain[s]) < MaxEvents
         /\ pending' = [pending EXCEPT ![w] = <<s, p, LatestHash(s)>>]
    /\ UNCHANGED <<store, chain, anchors>>

\* then insert: the payload as the caller gave it, with the hash of the
\* enriched one. The statement may throw, before or after it took effect.
InsertEvent(w) ==
    /\ pending[w] # NoWrite
    /\ LET s == pending[w][1]
           p == pending[w][2]
           event == CreateEvidenceEvent(s, p, pending[w][3])
       IN  \/ Insert(s, [event EXCEPT !.payload = Raw(p)])
           \/ UNCHANGED chain
    /\ pending' = [pending EXCEPT ![w] = NoWrite]
    /\ UNCHANGED <<store, anchors>>

\* getChainAnchor, or an audit bundle: an anchor leaves the system.
GenerateAnchor(s) ==
    /\ Anchorable(s)
    /\ anchors' = anchors \cup
         {[scope |-> s, length |-> Len(chain[s]), head |-> LatestHash(s)]}
    /\ UNCHANGED <<store, chain, pending>>

Next ==
    \/ AppendInMemory
    \/ \E w \in Writers : ReadLatest(w) \/ InsertEvent(w)
    \/ \E s \in Scopes : GenerateAnchor(s)

Spec == Init /\ [][Next]_vars

----------------------------------------------------------------------------
(* Properties.                                                              *)

\* The chain of every scope verifies, whatever requests append at once.
ChainVerifies == \A s \in Scopes : VerifyChain(s, chain[s])

\* In the memory store it does: the payload that is hashed is the one that is
\* stored, after the hash of the event stored before.
MemoryChainVerifies == store = "memory" => ChainVerifies

\* The events a memory store appends to a scope form a chain: no two name the
\* same predecessor.
MemoryNoFork ==
    store = "memory" =>
        \A s \in Scopes : \A i, j \in DOMAIN chain[s] :
            i # j => chain[s][i].prevHash # chain[s][j].prevHash

\* In either store an event's predecessor is an event stored before it: two
\* requests that append at once may fork the chain (the second reads before the
\* first inserts), but what they leave is a tree with its events in order.
LinksBack ==
    \A s \in Scopes : \A i \in DOMAIN chain[s] :
        \/ chain[s][i].prevHash = NoHash
        \/ \E j \in 1..(i - 1) : chain[s][j].payloadHash = chain[s][i].prevHash

\* What somebody with access to the table could do to one event: change its
\* payload, take it out, or have it trade places with the next one.
Tamperings(events) ==
    LET changed == {[events EXCEPT ![i].payload = Enriched(p)] :
                      i \in DOMAIN events, p \in Payloads}
        removed == {RemoveAt(events, i) : i \in 1..(Len(events) - 1)}
        swapped == {[events EXCEPT ![i] = events[i + 1], ![i + 1] = events[i]] :
                      i \in 1..(Len(events) - 1)}
    IN  (changed \cup removed \cup swapped) \ {events}

\* A chain that verified no longer does after one event was changed, taken out
\* from before the last, or moved.
TamperEvident ==
    \A s \in Scopes :
        VerifyChain(s, chain[s]) =>
            \A events \in Tamperings(chain[s]) : ~VerifyChain(s, events)

\* An anchor stays good: the chain it was made of is a prefix of the chain at
\* any later time, as its length and head hash tell.
AnchorsHold ==
    \A a \in anchors :
        /\ a.length <= Len(chain[a.scope])
        /\ a.head = HashBefore(chain[a.scope], a.length + 1)
==============================================================================
