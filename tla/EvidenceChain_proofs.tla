------------------------ MODULE EvidenceChain_proofs ------------------------
(* Theorems about EvidenceChain, for every set of scopes, payloads and      *)
(* writers, and chains of every length.                                     *)
EXTENDS EvidenceChain, WellFoundedInduction, TLAPS

----------------------------------------------------------------------------
(* A hash nests the hashes before it, so no one set holds all events. All   *)
(* that is needed of a chain is that it is a sequence, of whatever it has.  *)

Events(chn) == {chn[i] : i \in DOMAIN chn}
IsChain(chn) == chn \in Seq(Events(chn))

ChainsOK == chain = [s \in Scopes |-> chain[s]] /\ \A s \in Scopes : IsChain(chain[s])

LEMMA EmptyChain == IsChain(<<>>) /\ Len(<<>>) = 0
  BY DEF IsChain, Events

\* A chain with one more event is the same chain up to it.
LEMMA Longer ==
  ASSUME NEW chn, IsChain(chn), NEW event
  PROVE  /\ IsChain(Append(chn, event))
         /\ Len(chn) \in Nat /\ DOMAIN chn = 1..Len(chn)
         /\ Len(Append(chn, event)) = Len(chn) + 1
         /\ DOMAIN Append(chn, event) = 1..(Len(chn) + 1)
         /\ \A i \in 1..Len(chn) : Append(chn, event)[i] = chn[i]
         /\ Append(chn, event)[Len(chn) + 1] = event
  <1> DEFINE S == Events(chn) \cup {event}
             longer == Append(chn, event)
  <1>1. chn \in Seq(S)
    BY DEF IsChain, Events
  <1>2. /\ longer \in Seq(S)
        /\ Len(chn) \in Nat /\ DOMAIN chn = 1..Len(chn)
        /\ Len(longer) = Len(chn) + 1
        /\ DOMAIN longer = 1..(Len(chn) + 1)
        /\ \A i \in 1..Len(chn) : longer[i] = chn[i]
        /\ longer[Len(chn) + 1] = event
    BY <1>1
  <1>3. longer \in Seq(Events(longer))
    BY <1>2 DEF Events
  <1> QED BY <1>2, <1>3 DEF IsChain

----------------------------------------------------------------------------
(* What a step does to the chains: at most one event is added to each.      *)

Extends(old, new) == new = old \/ \E event : new = Append(old, event)

\* What a writer holds between its two statements: a scope, and the hash of an event
\* of it, if there was one.
Linked(chn, h, n) == h = NoHash \/ \E j \in 1..n : chn[j].payloadHash = h
PendingOK(x) == x[1] \in Scopes /\ Linked(chain[x[1]], x[3], Len(chain[x[1]]))

StateInv ==
    /\ ChainsOK
    /\ pending = [w \in Writers |-> pending[w]]
    /\ \A w \in Writers : pending[w] # NoWrite => PendingOK(pending[w])

LEMMA StateInit == Init => StateInv
  BY EmptyChain DEF Init, StateInv, ChainsOK

LEMMA InsertExtends ==
  ASSUME StateInv, NEW s \in Scopes, NEW event, Insert(s, event)
  PROVE  /\ chain' = [q \in Scopes |-> chain'[q]]
         /\ chain'[s] = Append(chain[s], event)
         /\ \A q \in Scopes \ {s} : chain'[q] = chain[q]
  BY DEF Insert, StateInv, ChainsOK

LEMMA StepExtends ==
  ASSUME StateInv, [Next]_vars
  PROVE  /\ chain' = [s \in Scopes |-> chain'[s]]
         /\ \A s \in Scopes : Extends(chain[s], chain'[s])
  <1>1. ASSUME NEW s \in Scopes, NEW event, Insert(s, event)
        PROVE  /\ chain' = [q \in Scopes |-> chain'[q]]
               /\ \A q \in Scopes : Extends(chain[q], chain'[q])
    BY <1>1, InsertExtends DEF Extends
  <1>2. CASE AppendInMemory
    BY <1>1, <1>2 DEF AppendInMemory
  <1>3. ASSUME NEW w \in Writers, InsertEvent(w), chain' # chain
        PROVE  /\ chain' = [q \in Scopes |-> chain'[q]]
               /\ \A q \in Scopes : Extends(chain[q], chain'[q])
    <2>1. pending[w][1] \in Scopes
      BY <1>3 DEF StateInv, PendingOK, InsertEvent
    <2> QED BY <1>1, <1>3, <2>1 DEF InsertEvent
  <1>4. CASE UNCHANGED chain
    BY <1>4 DEF StateInv, ChainsOK, Extends
  <1> QED BY <1>2, <1>3, <1>4 DEF Next, vars, ReadLatest, GenerateAnchor

\* The events up to n, and so the hash after them, stay.
LEMMA ExtendsKeeps ==
  ASSUME NEW old, IsChain(old), NEW new, Extends(old, new)
  PROVE  /\ IsChain(new) /\ Len(old) \in Nat /\ Len(new) \in Nat /\ Len(old) <= Len(new)
         /\ DOMAIN old = 1..Len(old) /\ DOMAIN new = 1..Len(new)
         /\ \A i \in 1..Len(old) : new[i] = old[i]
         /\ \A n \in 0..Len(old) : HashBefore(new, n + 1) = HashBefore(old, n + 1)
         /\ \A h : Linked(old, h, Len(old)) => Linked(new, h, Len(new))
  <1>1. CASE new = old
    <2>1. Len(old) \in Nat /\ DOMAIN old = 1..Len(old)
      BY DEF IsChain
    <2> QED BY <1>1, <2>1
  <1>2. ASSUME NEW event, new = Append(old, event)
        PROVE  /\ IsChain(new) /\ Len(old) \in Nat /\ Len(new) = Len(old) + 1
               /\ DOMAIN old = 1..Len(old) /\ DOMAIN new = 1..Len(new)
               /\ \A i \in 1..Len(old) : new[i] = old[i]
    BY <1>2, Longer
  <1>3. /\ IsChain(new) /\ Len(old) \in Nat /\ Len(new) \in Nat /\ Len(old) <= Len(new)
        /\ DOMAIN old = 1..Len(old) /\ DOMAIN new = 1..Len(new)
        /\ \A i \in 1..Len(old) : new[i] = old[i]
    <2>1. Len(old) \in Nat /\ DOMAIN old = 1..Len(old)
      BY DEF IsChain
    <2> QED BY <1>1, <1>2, <2>1 DEF Extends
  <1>4. \A n \in 0..Len(old) : HashBefore(new, n + 1) = HashBefore(old, n + 1)
    BY <1>3 DEF HashBefore
  <1>5. \A h : Linked(old, h, Len(old)) => Linked(new, h, Len(new))
    BY <1>3 DEF Linked
  <1> QED BY <1>3, <1>4, <1>5

\* The hash an append starts from is that of an event of the scope.
LEMMA LatestLinked ==
  ASSUME StateInv, NEW s \in Scopes
  PROVE  Linked(chain[s], LatestHash(s), Len(chain[s]))
  <1>1. Len(chain[s]) \in Nat
    BY DEF StateInv, ChainsOK, IsChain
  <1> QED BY <1>1 DEF LatestHash, HashBefore, Linked

LEMMA StateNext ==
  ASSUME StateInv, [Next]_vars PROVE StateInv'
  <1>1. ChainsOK'
    BY StepExtends, ExtendsKeeps DEF StateInv, ChainsOK
  <1>2. ASSUME NEW x, PendingOK(x) PROVE PendingOK(x)'
    BY <1>2, StepExtends, ExtendsKeeps DEF StateInv, ChainsOK, PendingOK
  <1>3. CASE UNCHANGED pending
    BY <1>1, <1>2, <1>3 DEF StateInv, PendingOK
  <1>4. ASSUME NEW w \in Writers, ReadLatest(w) PROVE StateInv'
    <2>1. PICK s \in Scopes, p \in Payloads :
             pending' = [pending EXCEPT ![w] = <<s, p, LatestHash(s)>>] /\ UNCHANGED chain
      BY <1>4 DEF ReadLatest
    <2> DEFINE h == LatestHash(s)
    <2>2. Linked(chain[s], h, Len(chain[s]))
      BY LatestLinked
    <2> HIDE DEF h
    <2>3. pending'[w] = <<s, p, h>>
          /\ \A v \in Writers \ {w} : pending'[v] = pending[v]
      BY <2>1 DEF StateInv, h
    <2> QED BY <1>1, <1>2, <2>1, <2>2, <2>3 DEF StateInv, PendingOK
  <1>5. ASSUME NEW w \in Writers, InsertEvent(w) PROVE StateInv'
    <2>1. /\ pending' = [v \in Writers |-> pending'[v]]
          /\ pending'[w] = NoWrite
          /\ \A v \in Writers \ {w} : pending'[v] = pending[v]
      BY <1>5 DEF InsertEvent, StateInv
    <2>2. ASSUME NEW v \in Writers, pending'[v] # NoWrite PROVE PendingOK(pending[v])'
      <3>1. v # w /\ pending'[v] = pending[v] /\ PendingOK(pending[v])
        BY <2>1, <2>2 DEF StateInv
      <3> QED BY <1>2, <3>1 DEF PendingOK
    <2> QED BY <1>1, <2>1, <2>2 DEF StateInv
  <1> QED BY <1>3, <1>4, <1>5 DEF Next, vars, AppendInMemory, GenerateAnchor

LEMMA StateInductive == Spec => []StateInv
  <1>1. StateInv /\ [Next]_vars => StateInv'
    BY StateNext
  <1> QED BY <1>1, StateInit, PTL DEF Spec

----------------------------------------------------------------------------
(* Links, in either store.                                                  *)

LEMMA LinksAppend ==
  ASSUME StateInv, LinksBack, NEW s \in Scopes, NEW event,
         Linked(chain[s], event.prevHash, Len(chain[s])), Insert(s, event)
  PROVE  LinksBack'
  <1>1. IsChain(chain[s]) /\ chain'[s] = Append(chain[s], event)
        /\ \A q \in Scopes \ {s} : chain'[q] = chain[q]
    BY InsertExtends DEF StateInv, ChainsOK
  <1>2. ASSUME NEW i \in DOMAIN chain'[s]
        PROVE  Linked(chain'[s], chain'[s][i].prevHash, i - 1)
    <2>1. /\ Len(chain[s]) \in Nat /\ DOMAIN chain[s] = 1..Len(chain[s])
          /\ DOMAIN chain'[s] = 1..(Len(chain[s]) + 1)
          /\ \A j \in 1..Len(chain[s]) : chain'[s][j] = chain[s][j]
          /\ chain'[s][Len(chain[s]) + 1] = event
      BY <1>1, Longer
    <2>2. CASE i \in 1..Len(chain[s])
      <3>1. Linked(chain[s], chain[s][i].prevHash, i - 1)
        BY <2>1, <2>2 DEF LinksBack, Linked
      <3> QED BY <2>1, <2>2, <3>1 DEF Linked
    <2>3. CASE i = Len(chain[s]) + 1
      BY <2>1, <2>3 DEF Linked
    <2> QED BY <2>1, <2>2, <2>3
  <1>3. ASSUME NEW q \in Scopes, NEW i \in DOMAIN chain'[q]
        PROVE  Linked(chain'[q], chain'[q][i].prevHash, i - 1)
    <2>1. CASE q = s
      BY <1>2, <2>1
    <2>2. CASE q # s
      BY <1>1, <2>2 DEF LinksBack, Linked
    <2> QED BY <2>1, <2>2
  <1> QED BY <1>3 DEF LinksBack, Linked

LEMMA LinksNext ==
  ASSUME StateInv, LinksBack, [Next]_vars PROVE LinksBack'
  <1>1. CASE UNCHANGED chain
    BY <1>1 DEF LinksBack
  <1>2. CASE AppendInMemory
    <2>1. PICK s \in Scopes, p \in Payloads : Insert(s, CreateEvidenceEvent(s, p, LatestHash(s)))
      BY <1>2 DEF AppendInMemory
    <2>2. CreateEvidenceEvent(s, p, LatestHash(s)).prevHash = LatestHash(s)
      BY DEF CreateEvidenceEvent
    <2> QED BY <2>1, <2>2, LatestLinked, LinksAppend
  <1>3. ASSUME NEW w \in Writers, InsertEvent(w), chain' # chain PROVE LinksBack'
    <2> DEFINE event == CreateEvidenceEvent(pending[w][1], pending[w][2], pending[w][3])
               stored == [event EXCEPT !.payload = Raw(pending[w][2])]
    <2>1. /\ pending[w][1] \in Scopes
          /\ Linked(chain[pending[w][1]], pending[w][3], Len(chain[pending[w][1]]))
      BY <1>3 DEF InsertEvent, StateInv, PendingOK
    <2>2. Insert(pending[w][1], stored)
      BY <1>3 DEF InsertEvent
    <2>3. stored.prevHash = pending[w][3]
      BY DEF CreateEvidenceEvent
    <2> HIDE DEF stored
    <2> QED BY <2>1, <2>2, <2>3, LinksAppend
  <1> QED BY <1>1, <1>2, <1>3 DEF Next, vars, ReadLatest, GenerateAnchor

\* In either store, and however the two statements of PostgreSQL's appends
\* interleave, an event names no predecessor that is not stored before it.
THEOREM LinksBackCorrect == Spec => []LinksBack
  <1>1. Init => LinksBack
    BY DEF Init, LinksBack
  <1>2. StateInv /\ LinksBack /\ [Next]_vars => LinksBack'
    BY LinksNext
  <1> QED BY <1>1, <1>2, StateInductive, PTL DEF Spec

----------------------------------------------------------------------------
(* Anchors, in either store.                                                *)

AnchorInv ==
    \A a \in anchors :
        /\ a.scope \in Scopes /\ a.length \in 0..Len(chain[a.scope])
        /\ a.head = HashBefore(chain[a.scope], a.length + 1)

LEMMA AnchorNext ==
  ASSUME StateInv, AnchorInv, [Next]_vars PROVE AnchorInv'
  <1>1. ASSUME NEW a, a.scope \in Scopes, a.length \in 0..Len(chain[a.scope]),
               a.head = HashBefore(chain[a.scope], a.length + 1)
        PROVE  /\ a.length \in 0..Len(chain'[a.scope])
               /\ a.head = HashBefore(chain'[a.scope], a.length + 1)
    <2>1. IsChain(chain[a.scope]) /\ Extends(chain[a.scope], chain'[a.scope])
      BY <1>1, StepExtends DEF StateInv, ChainsOK
    <2> QED BY <1>1, <2>1, ExtendsKeeps
  <1>2. CASE UNCHANGED anchors
    BY <1>1, <1>2 DEF AnchorInv
  <1>3. ASSUME NEW s \in Scopes, GenerateAnchor(s) PROVE AnchorInv'
    <2>1. Len(chain[s]) \in Nat
      BY DEF StateInv, ChainsOK, IsChain
    <2>2. UNCHANGED chain /\ anchors' = anchors \cup
            {[scope |-> s, length |-> Len(chain[s]), head |-> LatestHash(s)]}
      BY <1>3 DEF GenerateAnchor
    <2> QED BY <2>1, <2>2 DEF AnchorInv, LatestHash
  <1> QED BY <1>2, <1>3 DEF Next, vars, AppendInMemory, ReadLatest, InsertEvent

\* No later append, in either store, changes the chain an anchor was made of.
THEOREM AnchorsCorrect == Spec => []AnchorsHold
  <1>1. Init => AnchorInv
    BY DEF Init, AnchorInv
  <1>2. StateInv /\ AnchorInv /\ [Next]_vars => AnchorInv'
    BY AnchorNext
  <1>3. StateInv /\ AnchorInv => AnchorsHold
    BY DEF StateInv, ChainsOK, IsChain, AnchorInv, AnchorsHold
  <1> QED BY <1>1, <1>2, <1>3, StateInductive, PTL DEF Spec

----------------------------------------------------------------------------
(* The memory store. Its properties are inductive together: each event      *)
(* names the hash of the one before it, so no two hashes can be the same.   *)

Proper(s, chn) ==
    \A i \in DOMAIN chn :
        /\ chn[i].prevHash = HashBefore(chn, i)
        /\ chn[i].payloadHash = HashEvent(s, chn[i].payload, HashBefore(chn, i))
Distinct(chn) ==
    \A i, j \in DOMAIN chn : i # j => chn[i].payloadHash # chn[j].payloadHash

LEMMA HashIsNotNone ==
  ASSUME NEW s, NEW payload, NEW prevHash
  PROVE  HashEvent(s, payload, prevHash) # NoHash
  <1>1. Len(<<s, payload, prevHash>>) = 3 /\ Len(<<>>) = 0
    OBVIOUS
  <1> QED BY <1>1 DEF HashEvent, NoHash

MemoryInv ==
    store = "memory" =>
        /\ \A w \in Writers : pending[w] = NoWrite
        /\ \A s \in Scopes : Proper(s, chain[s]) /\ Distinct(chain[s])

LEMMA ProperAppend ==
  ASSUME NEW s, NEW chn, IsChain(chn), Proper(s, chn), NEW payload, NEW event,
         event.payload = payload, event.prevHash = HashBefore(chn, Len(chn) + 1),
         event.payloadHash = HashEvent(s, payload, HashBefore(chn, Len(chn) + 1))
  PROVE  Proper(s, Append(chn, event))
  <1> DEFINE longer == Append(chn, event)
  <1>1. /\ Len(chn) \in Nat /\ DOMAIN chn = 1..Len(chn) /\ DOMAIN longer = 1..(Len(chn) + 1)
        /\ \A i \in 1..Len(chn) : longer[i] = chn[i]
        /\ longer[Len(chn) + 1] = event
    BY Longer
  <1> HIDE DEF longer
  <1>2. \A i \in 1..(Len(chn) + 1) : HashBefore(longer, i) = HashBefore(chn, i)
    BY <1>1 DEF HashBefore
  <1>3. ASSUME NEW i \in DOMAIN longer
        PROVE  /\ longer[i].prevHash = HashBefore(longer, i)
               /\ longer[i].payloadHash = HashEvent(s, longer[i].payload, HashBefore(longer, i))
    <2>1. CASE i \in 1..Len(chn)
      BY <1>1, <1>2, <2>1 DEF Proper
    <2>2. CASE i = Len(chn) + 1
      BY <1>1, <1>2, <2>2
    <2> QED BY <1>1, <2>1, <2>2
  <1> QED BY <1>3 DEF Proper, longer

\* Two events with one hash would have one predecessor, and that is what no two have.
LEMMA DistinctAppend ==
  ASSUME NEW s, NEW chn, IsChain(chn), Proper(s, chn), Distinct(chn), NEW event,
         NEW payload, event.payloadHash = HashEvent(s, payload, HashBefore(chn, Len(chn) + 1))
  PROVE  Distinct(Append(chn, event))
  <1> DEFINE longer == Append(chn, event)
             n == Len(chn)
  <1>1. /\ n \in Nat /\ DOMAIN chn = 1..n /\ DOMAIN longer = 1..(n + 1)
        /\ \A i \in 1..n : longer[i] = chn[i]
        /\ longer[n + 1] = event
    BY Longer
  <1>2. \A i \in 1..n : chn[i].payloadHash # NoHash
    BY <1>1, HashIsNotNone DEF Proper
  <1>3. ASSUME NEW i \in 1..n PROVE chn[i].payloadHash # event.payloadHash
    <2>1. HashBefore(chn, i) # HashBefore(chn, n + 1)
      <3>1. CASE i = 1
        BY <1>1, <1>2, <3>1 DEF HashBefore
      <3>2. CASE i # 1
        BY <1>1, <3>2 DEF HashBefore, Distinct
      <3> QED BY <3>1, <3>2
    <2>2. chn[i].payloadHash = HashEvent(s, chn[i].payload, HashBefore(chn, i))
      BY <1>1 DEF Proper
    <2> QED BY <2>1, <2>2 DEF HashEvent
  <1> HIDE DEF longer, n
  <1>4. \A i, j \in 1..(n + 1) : i # j => longer[i].payloadHash # longer[j].payloadHash
    BY <1>1, <1>3 DEF Distinct
  <1> QED BY <1>1, <1>4 DEF Distinct, longer, n

LEMMA MemoryNext ==
  ASSUME StateInv, MemoryInv, [Next]_vars PROVE MemoryInv'
  <1> SUFFICES ASSUME store = "memory", store' = "memory"
               PROVE  /\ \A w \in Writers : pending'[w] = NoWrite
                      /\ \A s \in Scopes : Proper(s, chain'[s]) /\ Distinct(chain'[s])
    BY DEF MemoryInv, Next, vars, AppendInMemory, ReadLatest, InsertEvent, GenerateAnchor
  <1>1. CASE UNCHANGED <<chain, pending>>
    BY <1>1 DEF MemoryInv
  <1>2. CASE AppendInMemory
    <2>1. PICK s \in Scopes, p \in Payloads : Insert(s, CreateEvidenceEvent(s, p, LatestHash(s)))
      BY <1>2 DEF AppendInMemory
    <2> DEFINE event == CreateEvidenceEvent(s, p, LatestHash(s))
    <2>2. /\ event.payload = Enriched(p) /\ event.prevHash = HashBefore(chain[s], Len(chain[s]) + 1)
          /\ event.payloadHash =
               HashEvent(s, Enriched(p), HashBefore(chain[s], Len(chain[s]) + 1))
      BY DEF CreateEvidenceEvent, LatestHash
    <2>3. IsChain(chain[s]) /\ Proper(s, chain[s]) /\ Distinct(chain[s])
      BY DEF StateInv, ChainsOK, MemoryInv
    <2> HIDE DEF event
    <2>4. Proper(s, Append(chain[s], event)) /\ Distinct(Append(chain[s], event))
      BY <2>2, <2>3, ProperAppend, DistinctAppend
    <2>5. /\ chain'[s] = Append(chain[s], event)
          /\ \A q \in Scopes \ {s} : chain'[q] = chain[q]
      BY <2>1, InsertExtends DEF event
    <2> QED BY <1>2, <2>4, <2>5 DEF AppendInMemory, MemoryInv
  <1> QED BY <1>1, <1>2 DEF MemoryInv, Next, vars, ReadLatest, InsertEvent, GenerateAnchor

LEMMA MemoryInductive == Spec => []MemoryInv
  <1>1. Init => MemoryInv
    BY DEF Init, MemoryInv, Proper, Distinct
  <1>2. StateInv /\ MemoryInv /\ [Next]_vars => MemoryInv'
    BY MemoryNext
  <1> QED BY <1>1, <1>2, StateInductive, PTL DEF Spec

\* Every chain of the memory store verifies, however long it gets.
THEOREM MemoryVerifiesCorrect == Spec => []MemoryChainVerifies
  <1>1. MemoryInv => MemoryChainVerifies
    BY DEF MemoryInv, MemoryChainVerifies, ChainVerifies, VerifyChain, Proper
  <1> QED BY <1>1, MemoryInductive, PTL

\* No two events of a scope in the memory store name the same predecessor.
THEOREM MemoryNoForkCorrect == Spec => []MemoryNoFork
  <1>1. ASSUME StateInv, MemoryInv, store = "memory", NEW s \in Scopes,
               NEW i \in DOMAIN chain[s], NEW j \in DOMAIN chain[s], i # j
        PROVE  chain[s][i].prevHash # chain[s][j].prevHash
    <2>1. Proper(s, chain[s]) /\ Distinct(chain[s]) /\ DOMAIN chain[s] = 1..Len(chain[s])
      BY <1>1 DEF MemoryInv, StateInv, ChainsOK, IsChain
    <2>2. Len(chain[s]) \in Nat
      BY <1>1 DEF StateInv, ChainsOK, IsChain
    <2>3. \A k \in DOMAIN chain[s] : chain[s][k].payloadHash # NoHash
      BY <2>1, HashIsNotNone DEF Proper
    <2>4. /\ chain[s][i].prevHash = HashBefore(chain[s], i)
          /\ chain[s][j].prevHash = HashBefore(chain[s], j)
      BY <1>1, <2>1 DEF Proper
    <2>5. CASE i # 1 /\ j # 1
      <3>1. i - 1 \in DOMAIN chain[s] /\ j - 1 \in DOMAIN chain[s] /\ i - 1 # j - 1
        BY <1>1, <2>1, <2>2, <2>5
      <3>2. chain[s][i - 1].payloadHash # chain[s][j - 1].payloadHash
        BY <2>1, <3>1 DEF Distinct
      <3> QED BY <2>4, <2>5, <3>2 DEF HashBefore
    <2>6. CASE i = 1 \/ j = 1
      <3>1. \A k \in DOMAIN chain[s] : k # 1 => k - 1 \in DOMAIN chain[s]
        BY <2>1, <2>2
      <3> QED BY <1>1, <2>3, <2>4, <2>6, <3>1 DEF HashBefore
    <2> QED BY <2>5, <2>6
  <1>2. StateInv /\ MemoryInv => MemoryNoFork
    BY <1>1 DEF MemoryNoFork
  <1> QED BY <1>2, StateInductive, MemoryInductive, PTL

----------------------------------------------------------------------------
(* Tampering. What a chain that verifies says cannot be changed event by    *)
(* event: in memory because the hashes are distinct, in PostgreSQL because  *)
(* only an empty chain verifies there.                                      *)

\* The shape of the rows: three columns, and in PostgreSQL a hash of another payload
\* than the one stored.
Shaped(event) ==
    event = [payload |-> event.payload, prevHash |-> event.prevHash,
             payloadHash |-> event.payloadHash]
Mismatched(s, event) ==
    \E p, q, h : event.payload = Raw(p) /\ event.payloadHash = HashEvent(s, Enriched(q), h)

ShapeInv ==
    /\ store \in {"memory", "pg"}
    /\ \A s \in Scopes : \A i \in DOMAIN chain[s] :
         /\ Shaped(chain[s][i])
         /\ store = "pg" => Mismatched(s, chain[s][i])

LEMMA RawIsNotEnriched ==
  ASSUME NEW p, NEW q PROVE Raw(p) # Enriched(q)
  <1>1. "version" \in DOMAIN Enriched(q) /\ "version" \notin DOMAIN Raw(p)
    BY DEF Raw, Enriched
  <1> QED BY <1>1

LEMMA ShapeAppend ==
  ASSUME StateInv, ShapeInv, UNCHANGED store, NEW s \in Scopes, NEW event,
         Shaped(event), store = "pg" => Mismatched(s, event), Insert(s, event)
  PROVE  ShapeInv'
  <1>1. IsChain(chain[s]) /\ chain'[s] = Append(chain[s], event)
        /\ \A q \in Scopes \ {s} : chain'[q] = chain[q]
    BY InsertExtends DEF StateInv, ChainsOK
  <1>2. ASSUME NEW i \in DOMAIN chain'[s]
        PROVE  Shaped(chain'[s][i]) /\ (store = "pg" => Mismatched(s, chain'[s][i]))
    <2>1. /\ Len(chain[s]) \in Nat /\ DOMAIN chain[s] = 1..Len(chain[s])
          /\ DOMAIN chain'[s] = 1..(Len(chain[s]) + 1)
          /\ \A j \in 1..Len(chain[s]) : chain'[s][j] = chain[s][j]
          /\ chain'[s][Len(chain[s]) + 1] = event
      BY <1>1, Longer
    <2>2. CASE i \in 1..Len(chain[s])
      BY <2>1, <2>2 DEF ShapeInv
    <2>3. CASE i = Len(chain[s]) + 1
      BY <2>1, <2>3
    <2> QED BY <2>1, <2>2, <2>3
  <1>3. ASSUME NEW q \in Scopes, NEW i \in DOMAIN chain'[q]
        PROVE  Shaped(chain'[q][i]) /\ (store = "pg" => Mismatched(q, chain'[q][i]))
    <2>1. CASE q = s
      BY <1>2, <2>1
    <2>2. CASE q # s
      BY <1>1, <2>2 DEF ShapeInv
    <2> QED BY <2>1, <2>2
  <1> QED BY <1>3 DEF ShapeInv

LEMMA ShapeNext ==
  ASSUME StateInv, MemoryInv, ShapeInv, [Next]_vars PROVE ShapeInv'
  <1>1. CASE UNCHANGED <<chain, store>>
    BY <1>1 DEF ShapeInv
  <1>2. CASE AppendInMemory
    <2>1. PICK s \in Scopes, p \in Payloads : Insert(s, CreateEvidenceEvent(s, p, LatestHash(s)))
      BY <1>2 DEF AppendInMemory
    <2> DEFINE event == CreateEvidenceEvent(s, p, LatestHash(s))
    <2>2. Shaped(event) /\ store # "pg" /\ UNCHANGED store
      BY <1>2 DEF Shaped, CreateEvidenceEvent, AppendInMemory
    <2> HIDE DEF event
    <2>3. Insert(s, event)
      BY <2>1 DEF event
    <2> QED BY <2>2, <2>3, ShapeAppend
  <1>3. ASSUME NEW w \in Writers, InsertEvent(w), chain' # chain PROVE ShapeInv'
    <2> DEFINE s == pending[w][1]
               q == pending[w][2]
               h == pending[w][3]
               event == CreateEvidenceEvent(s, q, h)
               stored == [event EXCEPT !.payload = Raw(q)]
    <2>1. s \in Scopes /\ Insert(s, stored) /\ UNCHANGED store
      BY <1>3 DEF InsertEvent, StateInv, PendingOK
    <2>2. stored = [payload |-> Raw(q), prevHash |-> h,
                    payloadHash |-> HashEvent(s, Enriched(q), h)]
      BY DEF CreateEvidenceEvent
    <2> HIDE DEF stored, event
    <2>3. Shaped(stored) /\ Mismatched(s, stored)
      BY <2>2 DEF Shaped, Mismatched
    <2> HIDE DEF s
    <2> QED BY <2>1, <2>3, ShapeAppend
  <1> QED BY <1>1, <1>2, <1>3 DEF Next, vars, AppendInMemory, ReadLatest, InsertEvent, GenerateAnchor

LEMMA ShapeInductive == Spec => []ShapeInv
  <1>1. Init => ShapeInv
    BY EvidenceAssumption DEF Init, ShapeInv
  <1>2. StateInv /\ MemoryInv /\ ShapeInv /\ [Next]_vars => ShapeInv'
    BY ShapeNext
  <1> QED BY <1>1, <1>2, StateInductive, MemoryInductive, PTL DEF Spec

\* An event of a verifying chain with distinct hashes does not verify in the place of
\* its predecessor: what it hashed is the hash of that one, not the hash before it.
LEMMA OutOfPlace ==
  ASSUME NEW s, NEW chn, IsChain(chn), VerifyChain(s, chn), Distinct(chn),
         NEW other, NEW i \in 1..(Len(chn) - 1),
         i \in DOMAIN other, other[i] = chn[i + 1],
         HashBefore(other, i) = HashBefore(chn, i)
  PROVE  ~VerifyChain(s, other)
  <1>1. /\ Len(chn) \in Nat /\ DOMAIN chn = 1..Len(chn)
        /\ i \in DOMAIN chn /\ i + 1 \in DOMAIN chn
    BY DEF IsChain
  <1>2. /\ chn[i].payloadHash = HashEvent(s, chn[i].payload, HashBefore(chn, i))
        /\ chn[i + 1].payloadHash = HashEvent(s, chn[i + 1].payload, HashBefore(chn, i + 1))
    BY <1>1 DEF VerifyChain
  <1>3. HashBefore(chn, i + 1) = chn[i].payloadHash
    BY <1>1 DEF HashBefore
  <1>4. HashBefore(chn, i) # chn[i].payloadHash
    <2>1. CASE i = 1
      BY <1>2, <2>1, HashIsNotNone DEF HashBefore
    <2>2. CASE i # 1
      BY <1>1, <2>2 DEF HashBefore, Distinct
    <2> QED BY <2>1, <2>2
  <1>5. ASSUME VerifyChain(s, other) PROVE FALSE
    <2>1. other[i].payloadHash = HashEvent(s, other[i].payload, HashBefore(other, i))
      BY <1>5 DEF VerifyChain
    <2>2. HashEvent(s, chn[i + 1].payload, chn[i].payloadHash)
            = HashEvent(s, chn[i + 1].payload, HashBefore(chn, i))
      BY <2>1, <1>2, <1>3
    <2> QED BY <1>4, <2>2 DEF HashEvent
  <1> QED BY <1>5

\* Taking event i out puts the one after it in its place.
LEMMA RemovedEvent ==
  ASSUME NEW chn, IsChain(chn), NEW i \in 1..(Len(chn) - 1)
  PROVE  LET other == RemoveAt(chn, i)
         IN  /\ i \in DOMAIN other /\ other[i] = chn[i + 1]
             /\ HashBefore(other, i) = HashBefore(chn, i)
  <1> DEFINE n == Len(chn)
             S == Events(chn)
             front == SubSeq(chn, 1, i - 1)
             back == SubSeq(chn, i + 1, n)
             other == front \o back
  <1>1. chn \in Seq(S) /\ n \in Nat
    BY DEF IsChain
  <1>2. /\ front \in Seq(S) /\ Len(front) = i - 1
        /\ \A k \in 1..(i - 1) : front[k] = chn[k]
    BY <1>1
  <1>3. back \in Seq(S) /\ Len(back) = n - i /\ back[1] = chn[i + 1]
    BY <1>1
  <1> HIDE DEF front, back, S
  <1>4. /\ DOMAIN other = 1..(n - 1)
        /\ \A k \in 1..(i - 1) : other[k] = chn[k]
        /\ other[i] = chn[i + 1]
    BY <1>1, <1>2, <1>3
  <1>5. RemoveAt(chn, i) = other
    BY DEF RemoveAt, front, back
  <1> HIDE DEF other
  <1>6. i \in DOMAIN other
    BY <1>1, <1>4
  <1>7. HashBefore(other, i) = HashBefore(chn, i)
    <2>1. CASE i = 1
      BY <2>1 DEF HashBefore
    <2>2. CASE i # 1
      BY <1>1, <1>4, <2>2 DEF HashBefore
    <2> QED BY <2>1, <2>2
  <1> QED BY <1>4, <1>5, <1>6, <1>7

\* Trading places with the next one does too.
LEMMA SwappedEvent ==
  ASSUME NEW chn, IsChain(chn), NEW i \in 1..(Len(chn) - 1)
  PROVE  LET other == [chn EXCEPT ![i] = chn[i + 1], ![i + 1] = chn[i]]
         IN  /\ i \in DOMAIN other /\ other[i] = chn[i + 1]
             /\ HashBefore(other, i) = HashBefore(chn, i)
  <1> DEFINE other == [chn EXCEPT ![i] = chn[i + 1], ![i + 1] = chn[i]]
  <1>1. Len(chn) \in Nat /\ DOMAIN chn = 1..Len(chn)
    BY DEF IsChain
  <1>2. /\ DOMAIN other = DOMAIN chn /\ other[i] = chn[i + 1]
        /\ \A k \in 1..(i - 1) : other[k] = chn[k]
    BY <1>1
  <1> HIDE DEF other
  <1>3. HashBefore(other, i) = HashBefore(chn, i)
    <2>1. CASE i = 1
      BY <2>1 DEF HashBefore
    <2>2. CASE i # 1
      BY <1>1, <1>2, <2>2 DEF HashBefore
    <2> QED BY <2>1, <2>2
  <1> QED BY <1>1, <1>2, <1>3 DEF other

\* A hash determines the payload: an event with another one does not verify.
LEMMA ChangedEvent ==
  ASSUME NEW s, NEW chn, IsChain(chn), VerifyChain(s, chn), NEW i \in DOMAIN chn,
         Shaped(chn[i]), NEW x, NEW other, other = [chn EXCEPT ![i].payload = x],
         VerifyChain(s, other)
  PROVE  other = chn
  <1> DEFINE event == [chn[i] EXCEPT !.payload = x]
  <1>1. Len(chn) \in Nat /\ DOMAIN chn = 1..Len(chn) /\ chn = [k \in 1..Len(chn) |-> chn[k]]
    BY DEF IsChain
  <1>2. event = [payload |-> x, prevHash |-> chn[i].prevHash, payloadHash |-> chn[i].payloadHash]
    BY DEF Shaped
  <1>3. other = [chn EXCEPT ![i] = event]
    OBVIOUS
  <1> HIDE DEF event
  <1>4. /\ DOMAIN other = DOMAIN chn /\ other[i] = event
        /\ \A k \in DOMAIN chn : k # i => other[k] = chn[k]
    BY <1>3, <1>1
  <1>5. HashBefore(other, i) = HashBefore(chn, i)
    <2>1. CASE i = 1
      BY <2>1 DEF HashBefore
    <2>2. CASE i # 1
      BY <1>1, <1>4, <2>2 DEF HashBefore
    <2> QED BY <2>1, <2>2
  <1>6. /\ chn[i].payloadHash = HashEvent(s, chn[i].payload, HashBefore(chn, i))
        /\ event.payloadHash = HashEvent(s, event.payload, HashBefore(other, i))
    BY <1>4 DEF VerifyChain
  <1>7. chn[i].payload = x
    BY <1>2, <1>5, <1>6 DEF HashEvent
  <1>8. event = chn[i]
    BY <1>2, <1>7 DEF Shaped
  <1> QED BY <1>3, <1>1, <1>8

\* Whatever chain verifies, in either store, and however long it is: to change, take
\* out or move one of its events leaves a chain that does not.
THEOREM TamperEvidentCorrect == Spec => []TamperEvident
  <1>1. ASSUME StateInv, MemoryInv, ShapeInv, NEW s \in Scopes,
               VerifyChain(s, chain[s]), NEW events \in Tamperings(chain[s])
        PROVE  ~VerifyChain(s, events)
    <2>1. IsChain(chain[s]) /\ Len(chain[s]) \in Nat /\ DOMAIN chain[s] = 1..Len(chain[s])
      BY <1>1 DEF StateInv, ChainsOK, IsChain
    <2>2. store = "memory"
      <3>1. ASSUME store = "pg" PROVE DOMAIN chain[s] = {}
        <4>1. ASSUME NEW i \in DOMAIN chain[s] PROVE FALSE
          <5>1. chain[s][i].payloadHash
                  = HashEvent(s, chain[s][i].payload, HashBefore(chain[s], i))
            BY <1>1, <4>1 DEF VerifyChain
          <5>2. Mismatched(s, chain[s][i])
            BY <1>1, <3>1 DEF ShapeInv
          <5> QED BY <5>1, <5>2, RawIsNotEnriched DEF Mismatched, HashEvent
        <4> QED BY <4>1
      <3>2. DOMAIN chain[s] # {}
        BY <1>1, <2>1 DEF Tamperings
      <3> QED BY <1>1, <3>1, <3>2 DEF ShapeInv
    <2>3. Distinct(chain[s])
      BY <1>1, <2>2 DEF MemoryInv
    <2>4. CASE \E i \in DOMAIN chain[s], p \in Payloads :
                 events = [chain[s] EXCEPT ![i].payload = Enriched(p)]
      <3>1. PICK i \in DOMAIN chain[s], p \in Payloads :
               events = [chain[s] EXCEPT ![i].payload = Enriched(p)]
        BY <2>4
      <3>2. Shaped(chain[s][i])
        BY <1>1 DEF ShapeInv
      <3>3. events # chain[s]
        BY <1>1 DEF Tamperings
      <3> DEFINE x == Enriched(p)
      <3>4. events = [chain[s] EXCEPT ![i].payload = x]
        BY <3>1
      <3> HIDE DEF x
      <3>5. VerifyChain(s, events) => events = chain[s]
        BY <1>1, <2>1, <3>2, <3>4, ChangedEvent
      <3> QED BY <3>3, <3>5
    <2>5. CASE \E i \in 1..(Len(chain[s]) - 1) : events = RemoveAt(chain[s], i)
      BY <1>1, <2>1, <2>3, <2>5, RemovedEvent, OutOfPlace
    <2>6. CASE \E i \in 1..(Len(chain[s]) - 1) :
                 events = [chain[s] EXCEPT ![i] = chain[s][i + 1], ![i + 1] = chain[s][i]]
      <3>1. PICK i \in 1..(Len(chain[s]) - 1) :
               events = [chain[s] EXCEPT ![i] = chain[s][i + 1], ![i + 1] = chain[s][i]]
        BY <2>6
      <3>2. /\ i \in DOMAIN events /\ events[i] = chain[s][i + 1]
            /\ HashBefore(events, i) = HashBefore(chain[s], i)
        BY <2>1, <3>1, SwappedEvent
      <3> QED BY <1>1, <2>1, <2>3, <3>2, OutOfPlace
    <2> QED BY <1>1, <2>4, <2>5, <2>6 DEF Tamperings
  <1>2. StateInv /\ MemoryInv /\ ShapeInv => TamperEvident
    BY <1>1 DEF TamperEvident
  <1> QED BY <1>2, StateInductive, MemoryInductive, ShapeInductive, PTL

----------------------------------------------------------------------------
(* What an anchor is good for. Two chains that verify and end in the same   *)
(* hash have the same payloads: if they differed, take the last event at    *)
(* which their hashes do.                                                   *)

\* A set of numbers that are at most n, if there are any, has a largest one.
LEMMA LargestBelow ==
  ASSUME NEW n \in Nat, NEW D, D \subseteq 1..n, D # {}
  PROVE  \E i \in D : \A j \in D : j <= i
  <1> DEFINE T == {n - i : i \in D}
  <1>1. T \subseteq Nat /\ T # {}
    <2>1. \A i \in D : i \in 1..n /\ n - i \in Nat
      OBVIOUS
    <2> QED BY <2>1
  <1>2. PICK x \in T : \A y \in T : ~(<<y, x>> \in OpToRel(<, Nat))
    BY <1>1, WFMin, NatLessThanWellFounded
  <1>3. \A y \in T : ~(y < x)
    BY <1>1, <1>2 DEF OpToRel
  <1>4. PICK i \in D : x = n - i
    OBVIOUS
  <1>5. \A j \in D : ~(n - j < n - i)
    BY <1>3, <1>4
  <1> QED BY <1>4, <1>5

LEMMA SameHeadSameChain ==
  ASSUME NEW s, NEW n \in Nat, NEW one, NEW other,
         DOMAIN one = 1..n, DOMAIN other = 1..n,
         VerifyChain(s, one), VerifyChain(s, other),
         HashBefore(one, n + 1) = HashBefore(other, n + 1)
  PROVE  \A i \in 1..n : /\ one[i].payload = other[i].payload
                         /\ one[i].payloadHash = other[i].payloadHash
  <1> DEFINE D == {i \in 1..n : one[i].payloadHash # other[i].payloadHash}
  <1>1. ASSUME NEW i \in 1..n, one[i].payloadHash = other[i].payloadHash
        PROVE  /\ one[i].payload = other[i].payload
               /\ HashBefore(one, i) = HashBefore(other, i)
    BY <1>1 DEF VerifyChain, HashEvent
  <1>2. ASSUME D # {} PROVE FALSE
    <2>1. PICK i \in D : \A j \in D : j <= i
      <3>1. D \subseteq 1..n
        OBVIOUS
      <3> HIDE DEF D
      <3> QED BY <1>2, <3>1, LargestBelow
    <2>2. HashBefore(one, i + 1) = HashBefore(other, i + 1)
      <3>1. CASE i = n
        BY <3>1
      <3>2. CASE i # n
        <4>1. i + 1 \in 1..n /\ i + 1 \notin D
          BY <2>1, <3>2
        <4> QED BY <1>1, <4>1
      <3> QED BY <3>1, <3>2
    <2> QED BY <2>1, <2>2 DEF HashBefore
  <1> QED BY <1>1, <1>2

\* The chain an anchor was made of, up to the anchor's length, still verifies.
AnchoredOK ==
    \A a \in anchors : \A i \in 1..a.length :
        chain[a.scope][i].payloadHash
          = HashEvent(a.scope, chain[a.scope][i].payload, HashBefore(chain[a.scope], i))

LEMMA AnchoredNext ==
  ASSUME StateInv, AnchorInv, AnchoredOK, [Next]_vars PROVE AnchoredOK'
  <1>1. ASSUME NEW a \in anchors, NEW i \in 1..a.length
        PROVE  chain'[a.scope][i].payloadHash
                 = HashEvent(a.scope, chain'[a.scope][i].payload, HashBefore(chain'[a.scope], i))
    <2>1. /\ IsChain(chain[a.scope]) /\ Extends(chain[a.scope], chain'[a.scope])
          /\ a.length \in 0..Len(chain[a.scope])
      BY StepExtends DEF StateInv, ChainsOK, AnchorInv
    <2>2. /\ Len(chain[a.scope]) \in Nat
          /\ \A k \in 1..Len(chain[a.scope]) : chain'[a.scope][k] = chain[a.scope][k]
      BY <2>1, ExtendsKeeps
    <2>3. i \in 1..Len(chain[a.scope]) /\ (i # 1 => i - 1 \in 1..Len(chain[a.scope]))
      BY <2>1, <2>2
    <2>4. HashBefore(chain'[a.scope], i) = HashBefore(chain[a.scope], i)
      BY <2>2, <2>3 DEF HashBefore
    <2>5. chain'[a.scope][i] = chain[a.scope][i]
      BY <2>2, <2>3
    <2>6. chain[a.scope][i].payloadHash
            = HashEvent(a.scope, chain[a.scope][i].payload, HashBefore(chain[a.scope], i))
      BY DEF AnchoredOK
    <2> QED BY <2>4, <2>5, <2>6
  <1>2. CASE UNCHANGED anchors
    BY <1>1, <1>2 DEF AnchoredOK
  <1>3. ASSUME NEW s \in Scopes, GenerateAnchor(s) PROVE AnchoredOK'
    <2>1. DOMAIN chain[s] = 1..Len(chain[s])
      BY DEF StateInv, ChainsOK, IsChain
    <2>2. UNCHANGED chain /\ VerifyChain(s, chain[s]) /\ anchors' = anchors \cup
            {[scope |-> s, length |-> Len(chain[s]), head |-> LatestHash(s)]}
      BY <1>3 DEF GenerateAnchor, Anchorable
    <2> QED BY <2>1, <2>2 DEF AnchoredOK, VerifyChain
  <1> QED BY <1>2, <1>3 DEF Next, vars, AppendInMemory, ReadLatest, InsertEvent

\* Whoever holds an anchor and is shown a chain that verifies, of the anchor's length
\* and with its head, is shown the payloads that were in the log when it was made.
AnchorsBind ==
    \A a \in anchors : \A events :
        /\ DOMAIN events = 1..a.length
        /\ VerifyChain(a.scope, events)
        /\ HashBefore(events, a.length + 1) = a.head
        => \A i \in 1..a.length : events[i].payload = chain[a.scope][i].payload

THEOREM AnchorsBindCorrect == Spec => []AnchorsBind
  <1>1. Init => AnchorInv /\ AnchoredOK
    BY DEF Init, AnchorInv, AnchoredOK
  <1>2. StateInv /\ AnchorInv /\ AnchoredOK /\ [Next]_vars => AnchorInv' /\ AnchoredOK'
    BY AnchorNext, AnchoredNext
  <1>3. ASSUME StateInv, AnchorInv, AnchoredOK, NEW a \in anchors, NEW events,
               DOMAIN events = 1..a.length, VerifyChain(a.scope, events),
               HashBefore(events, a.length + 1) = a.head, NEW i \in 1..a.length
        PROVE  events[i].payload = chain[a.scope][i].payload
    <2> DEFINE n == a.length
               part == [k \in 1..n |-> chain[a.scope][k]]
    <2>1. /\ n \in Nat /\ a.head = HashBefore(chain[a.scope], n + 1)
      BY <1>3 DEF AnchorInv, StateInv, ChainsOK, IsChain
    <2>2. \A k \in 1..(n + 1) : HashBefore(part, k) = HashBefore(chain[a.scope], k)
      BY <2>1 DEF HashBefore
    <2>3. VerifyChain(a.scope, part)
      BY <1>3, <2>1, <2>2 DEF AnchoredOK, VerifyChain
    <2>4. HashBefore(events, n + 1) = HashBefore(part, n + 1)
      BY <1>3, <2>1, <2>2
    <2>5. DOMAIN part = 1..n
      OBVIOUS
    <2>6. part[i] = chain[a.scope][i]
      BY <1>3
    <2> HIDE DEF part
    <2> QED BY <1>3, <2>1, <2>3, <2>4, <2>5, <2>6, SameHeadSameChain
  <1>4. StateInv /\ AnchorInv /\ AnchoredOK => AnchorsBind
    BY <1>3 DEF AnchorsBind
  <1> QED BY <1>1, <1>2, <1>4, StateInductive, PTL DEF Spec
=============================================================================
