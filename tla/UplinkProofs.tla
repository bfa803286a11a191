---------------------------- MODULE UplinkProofs ----------------------------
(***************************************************************************)
(* Proofs about Uplink, for any sessions, channels and bounds.  The        *)
(* inductive invariant is the three properties with two facts about the    *)
(* POST: a batch is in hand exactly while it is under way, and together    *)
(* with the buffer of its session it keeps to MAX_PENDING_EVENTS.  Each    *)
(* step is a change to the account of one session: the lemmas about        *)
(* AccountOf say what numbering, sending, receiving and settling do to it, *)
(* whatever the state around it.                                           *)
(***************************************************************************)
EXTENDS Uplink, FiniteSetTheorems, SequenceTheorems, WellFoundedInduction, TLAPS

\* The order of the natural numbers as a relation.
Less == {pair \in Nat \X Nat : pair[1] < pair[2]}

\* It is well-founded: what gives a least element, and the provers no induction.
LEMMA LessWellFounded == IsWellFoundedOn(Less, Nat)
  BY Zenon, NatLessThanWellFounded DEF OpToRel, Less

\* The minimum of a non-empty set of numbers is in it and below the rest.
LEMMA MinProperties ==
  ASSUME NEW S \in SUBSET Nat, S # {}
  PROVE  Min(S) \in S /\ \A y \in S : Min(S) <= y
<1>1. PICK x \in S : \A y \in S : ~(<<y, x>> \in Less)
  BY LessWellFounded, WFMin
<1>2. ASSUME NEW y \in S
      PROVE  x <= y
  <2>1. <<y, x>> \in Nat \X Nat /\ <<y, x>>[1] = y /\ <<y, x>>[2] = x
    OBVIOUS
  <2> QED
    BY <1>1, <2>1 DEF Less
<1> QED
  BY <1>2 DEF Min

\* The smaller of two numbers.
LEMMA MinOfTwo ==
  ASSUME NEW a \in Nat, NEW b \in Nat
  PROVE  Min({a, b}) = IF a <= b THEN a ELSE b
<1>1. Min({a, b}) \in {a, b} /\ \A y \in {a, b} : Min({a, b}) <= y
  BY MinProperties
<1> QED
  BY <1>1

\* The larger of one and a number, which may be negative (Batcher::push).
LEMMA MaxWithOne ==
  ASSUME NEW a \in Int
  PROVE  Max({1, a}) = IF a <= 1 THEN 1 ELSE a
<1> DEFINE m == IF a <= 1 THEN 1 ELSE a
<1>1. m \in {1, a} /\ \A y \in {1, a} : m >= y
  OBVIOUS
<1>2. Max({1, a}) \in {1, a} /\ \A y \in {1, a} : Max({1, a}) >= y
  BY <1>1 DEF Max
<1> QED
  BY <1>2

\* Batcher::ready_count never takes more than there is.
LEMMA ReadyCountBounds ==
  ASSUME NEW pending \in Seq(Dtos)
  PROVE  ReadyCount(pending) \in 0 .. Len(pending)
<1> DEFINE limit == Min({Len(pending), MaxBatch})
           starts == {i \in 1 .. limit : pending[i].kind = "sync_started"}
<1>1. limit \in 0 .. Len(pending)
  BY MinOfTwo, BatchAssumption
<1>2. CASE starts = {}
  BY <1>1, <1>2 DEF ReadyCount
<1>3. CASE starts # {}
  <2>1. starts \in SUBSET Nat /\ starts \subseteq 1 .. limit
    BY <1>1
  <2>2. Min(starts) \in 1 .. limit
    BY <1>3, <2>1, MinProperties
  <2> QED
    BY <1>1, <2>2 DEF ReadyCount
<1> QED
  BY <1>2, <1>3

\* Batcher::push keeps the newest MAX_PENDING_EVENTS and appends the event: what goes
\* is the oldest, and the order stays.
LEMMA PushProperties ==
  ASSUME NEW pending \in Seq(Dtos), NEW dto \in Dtos, Len(pending) <= MaxPending
  PROVE  LET kept == Push(pending, dto)
             gone == Len(pending) + 1 - Len(kept)
         IN /\ kept \in Seq(Dtos)
            /\ Len(kept) \in 1 .. MaxPending
            /\ gone \in Nat
            /\ \A i \in 1 .. Len(kept) - 1 : kept[i] = pending[i + gone]
            /\ kept[Len(kept)] = dto
<1> DEFINE a == Len(pending) - MaxPending + 2
           m == Max({1, a})
           tail == SubSeq(pending, m, Len(pending))
<1>0. MaxPending \in Nat \ {0} /\ Len(pending) \in Nat
  BY CapacityAssumption
<1>1. a \in Int /\ m = IF a <= 1 THEN 1 ELSE a
  BY <1>0, MaxWithOne
<1>2. m \in 1 .. Len(pending) + 1
  BY <1>0, <1>1
<1>3. /\ tail \in Seq(Dtos)
      /\ Len(tail) = Len(pending) + 1 - m
      /\ \A i \in 1 .. Len(tail) : tail[i] = pending[i + m - 1]
  <2>1. \A i \in m .. Len(pending) : pending[i] \in Dtos
    BY <1>2, ElementOfSeq
  <2>2. m \in Int /\ Len(pending) \in Int
    BY <1>0, <1>2
  <2> HIDE DEF m
  <2>3. /\ tail \in Seq(Dtos)
        /\ Len(tail) = IF m <= Len(pending) THEN Len(pending) - m + 1 ELSE 0
        /\ \A i \in 1 .. Len(pending) - m + 1 : tail[i] = pending[m + i - 1]
    BY <2>1, <2>2, SubSeqProperties
  <2> QED
    BY <1>0, <1>2, <2>3
<1>4. Push(pending, dto) = Append(tail, dto)
  BY DEF Push
<1>5. Len(tail) + 1 <= MaxPending
  BY <1>0, <1>1, <1>3
<1> HIDE DEF a, m, tail
<1>6. /\ Append(tail, dto) \in Seq(Dtos)
      /\ Len(Append(tail, dto)) = Len(tail) + 1
      /\ \A i \in 1 .. Len(tail) : Append(tail, dto)[i] = tail[i]
      /\ Append(tail, dto)[Len(tail) + 1] = dto
  BY <1>3
<1> QED
  BY <1>0, <1>2, <1>3, <1>4, <1>5, <1>6

\* Batcher::take_count splits the buffer: the batch, then the rest, make it up.
LEMMA BatchProperties ==
  ASSUME NEW pending \in Seq(Dtos)
  PROVE  /\ Batch(pending) \in Seq(Dtos)
         /\ Rest(pending) \in Seq(Dtos)
         /\ Len(Batch(pending)) = ReadyCount(pending)
         /\ Len(Rest(pending)) = Len(pending) - ReadyCount(pending)
         /\ \A i \in DOMAIN Batch(pending) : Batch(pending)[i] = pending[i]
         /\ \A i \in DOMAIN Rest(pending) : Rest(pending)[i] = pending[i + ReadyCount(pending)]
         /\ Batch(pending) \o Rest(pending) = pending
<1> DEFINE n == ReadyCount(pending)
           batch == SubSeq(pending, 1, n)
           rest == SubSeq(pending, n + 1, Len(pending))
<1>1. n \in 0 .. Len(pending) /\ Len(pending) \in Nat
  BY ReadyCountBounds
<1>2. Batch(pending) = batch /\ Rest(pending) = rest
  BY DEF Batch, Rest
<1> HIDE DEF n
<1>3. \A i \in 1 .. Len(pending) : pending[i] \in Dtos
  OBVIOUS
<1>4. /\ batch \in Seq(Dtos)
      /\ Len(batch) = n
      /\ \A i \in 1 .. n : batch[i] = pending[i]
  BY <1>1, <1>3, SubSeqProperties
<1>5. /\ rest \in Seq(Dtos)
      /\ Len(rest) = Len(pending) - n
      /\ \A i \in 1 .. Len(pending) - n : rest[i] = pending[i + n]
  BY <1>1, <1>3, SubSeqProperties
<1>6. batch \o rest = pending
  <2>1. /\ 1 \in 1 .. Len(pending) + 1
        /\ n \in 1 - 1 .. Len(pending)
        /\ Len(pending) \in n .. Len(pending)
    BY <1>1
  <2>2. batch \o rest = SubSeq(pending, 1, Len(pending))
    BY <2>1, ConcatAdjacentSubSeq
  <2> QED
    BY <2>2, SubSeqFull
<1> HIDE DEF batch, rest
<1> QED
  BY <1>1, <1>2, <1>4, <1>5, <1>6 DEF n

\* SessionTap::reconcile makes a list of calls, for any finite set of channels.
LEMMA ReconcileType ==
  ASSUME NEW channels \in SUBSET Channels
  PROVE  Reconcile(channels) \in Seq(Calls)
<1>1. Cardinality(channels) \in Nat
  BY BatchAssumption, FS_Subset, FS_CardinalityType
<1>2. [i \in 1 .. Cardinality(channels) |-> Call("emit", "roster")] \in Seq(Calls)
  <2>1. Call("emit", "roster") \in Calls
    BY DEF Call, Calls, Kinds
  <2>2. [i \in 1 .. Cardinality(channels) |-> Call("emit", "roster")]
          \in [1 .. Cardinality(channels) -> Calls]
    BY <2>1
  <2> QED
    BY <1>1, <2>2, SeqDef
<1>3. /\ <<Call("announce_and_emit", "sync_started")>> \in Seq(Calls)
      /\ <<Call("emit", "session_synced")>> \in Seq(Calls)
  BY DEF Call, Calls, Kinds
<1> QED
  BY <1>2, <1>3 DEF Reconcile
-----------------------------------------------------------------------------
\* The places of a channel's content c that hold events of session s.
Of(c, s) == {i \in DOMAIN c : c[i].session = s /\ c[i].dto.kind # "session"}

\* InOrder of one session, of any content of the buffers and the channel.
Ordered(held, c, s, next) ==
  /\ \A i, j \in DOMAIN held : i < j => held[i].seq < held[j].seq
  /\ \A i, j \in Of(c, s) : i < j => c[i].dto.seq < c[j].dto.seq
  /\ \A i \in DOMAIN held, j \in Of(c, s) : held[i].seq < c[j].dto.seq
  /\ \A i \in DOMAIN held : held[i].seq < next
  /\ \A i \in Of(c, s) : c[i].dto.seq < next

\* There are finitely many such places.
LEMMA OfFinite ==
  ASSUME NEW c \in Seq(Messages), NEW s
  PROVE  IsFiniteSet(Of(c, s)) /\ Cardinality(Of(c, s)) \in Nat
<1>1. Of(c, s) \in SUBSET (1 .. Len(c)) /\ Len(c) \in Int
  BY DEF Of
<1>2. IsFiniteSet(1 .. Len(c))
  BY <1>1, FS_Interval
<1>3. IsFiniteSet(Of(c, s))
  BY <1>1, <1>2, FS_Subset
<1> QED
  BY <1>3, FS_CardinalityType

\* A message of another session, or one that announces a session, is no event of s.
LEMMA OfAppendOther ==
  ASSUME NEW c \in Seq(Messages), NEW m \in Messages, NEW s,
         m.session # s \/ m.dto.kind = "session"
  PROVE  Of(Append(c, m), s) = Of(c, s)
<1>1. DOMAIN Append(c, m) = (DOMAIN c) \cup {Len(c) + 1} /\ DOMAIN c = 1 .. Len(c) /\ Len(c) \in Nat
  BY AppendProperties, LenProperties
<1>2. \A i \in DOMAIN c : Append(c, m)[i] = c[i]
  BY <1>1, AppendProperties
<1>3. Append(c, m)[Len(c) + 1] = m
  BY AppendProperties
<1> QED
  BY <1>1, <1>2, <1>3 DEF Of

\* An event sent adds one place, the last.
LEMMA OfAppendEvent ==
  ASSUME NEW c \in Seq(Messages), NEW m \in Messages, m.dto.kind # "session"
  PROVE  /\ Of(Append(c, m), m.session) = Of(c, m.session) \cup {Len(c) + 1}
         /\ Len(c) + 1 \notin Of(c, m.session)
         /\ Cardinality(Of(Append(c, m), m.session)) = Cardinality(Of(c, m.session)) + 1
<1>1. DOMAIN Append(c, m) = (DOMAIN c) \cup {Len(c) + 1} /\ DOMAIN c = 1 .. Len(c) /\ Len(c) \in Nat
  BY AppendProperties, LenProperties
<1>2. \A i \in DOMAIN c : Append(c, m)[i] = c[i]
  BY <1>1, AppendProperties
<1>3. Append(c, m)[Len(c) + 1] = m
  BY AppendProperties
<1>4. Of(Append(c, m), m.session) = Of(c, m.session) \cup {Len(c) + 1}
  BY <1>1, <1>2, <1>3 DEF Of
<1>5. Len(c) + 1 \notin Of(c, m.session)
  BY <1>1 DEF Of
<1> QED
  BY <1>4, <1>5, OfFinite, FS_AddElement

\* Receiving moves all places up by one and removes the first if it was one of them.
LEMMA OfTail ==
  ASSUME NEW c \in Seq(Messages), c # <<>>, NEW s
  PROVE  /\ \A i \in Of(Tail(c), s) : i + 1 \in Of(c, s) /\ Tail(c)[i] = c[i + 1]
         /\ Cardinality(Of(Tail(c), s)) =
              IF 1 \in Of(c, s) THEN Cardinality(Of(c, s)) - 1 ELSE Cardinality(Of(c, s))
<1>1. /\ Tail(c) \in Seq(Messages) /\ Len(Tail(c)) = Len(c) - 1 /\ Len(c) \in Nat \ {0}
      /\ DOMAIN Tail(c) = 1 .. Len(c) - 1 /\ DOMAIN c = 1 .. Len(c)
      /\ \A i \in 1 .. Len(c) - 1 : Tail(c)[i] = c[i + 1]
  BY HeadTailProperties, LenProperties, EmptySeq
<1>2. \A i \in Of(Tail(c), s) : i + 1 \in Of(c, s) /\ Tail(c)[i] = c[i + 1]
  BY <1>1 DEF Of
<1>3. \A i \in Of(c, s) \ {1} : i \in Nat /\ i - 1 \in Of(Tail(c), s)
  BY <1>1 DEF Of
<1> DEFINE f == [i \in Of(Tail(c), s) |-> i + 1]
<1>4. f \in Bijection(Of(Tail(c), s), Of(c, s) \ {1})
  <2>0. \A i \in Of(Tail(c), s) : i \in Nat \ {0}
    BY <1>1 DEF Of
  <2>1. f \in [Of(Tail(c), s) -> Of(c, s) \ {1}]
    BY <1>2, <2>0
  <2>2. \A i, j \in Of(Tail(c), s) : f[i] = f[j] => i = j
    BY <2>0
  <2>3. \A j \in Of(c, s) \ {1} : \E i \in Of(Tail(c), s) : f[i] = j
    <3>1. ASSUME NEW j \in Of(c, s) \ {1} PROVE f[j - 1] = j /\ j - 1 \in Of(Tail(c), s)
      BY <1>3
    <3> QED
      BY <3>1
  <2> HIDE DEF f
  <2>4. f \in Injection(Of(Tail(c), s), Of(c, s) \ {1})
    BY <2>1, <2>2 DEF Injection, IsInjective
  <2>5. f \in Surjection(Of(Tail(c), s), Of(c, s) \ {1})
    BY <2>1, <2>3 DEF Surjection
  <2> QED
    BY <2>4, <2>5 DEF Bijection
<1>5. ExistsBijection(Of(Tail(c), s), Of(c, s) \ {1})
  BY <1>4 DEF ExistsBijection
<1>6. Cardinality(Of(c, s) \ {1}) = Cardinality(Of(Tail(c), s))
  BY <1>1, <1>5, OfFinite, FS_Bijection
<1> QED
  BY <1>2, <1>6, OfFinite, FS_RemoveElement

-----------------------------------------------------------------------------
\* A batch is in hand exactly while the POST is under way.
HandInv == IF pc = "post" THEN hand.session \in Sessions ELSE hand = NoBatch
\* The batch in hand and the buffer together keep to MAX_PENDING_EVENTS: this is why
\* a batch that comes back can be restored.
HeldFits == \A s \in Sessions : Len(Held(s)) <= MaxPending

\* TypeOK in two parts: the connections with their taps, and the uplink thread.
ConnectionType ==
  /\ life \in [Sessions -> {"fresh", "up", "over"}]
  /\ joined \in [Sessions -> SUBSET Channels]
  /\ tap \in [Sessions -> [announced : BOOLEAN, ended : BOOLEAN, next_seq : Nat \ {0},
                           pending_dropped : Nat]]
  /\ projector \in [Sessions -> [channels : SUBSET Channels, roster_sent : SUBSET Channels]]
  /\ sync \in [Sessions -> [resolved : SUBSET Channels, complete : BOOLEAN, once : BOOLEAN]]
  /\ observed \in [Sessions -> Nat] /\ \A s \in Sessions : observed[s] <= MaxObserved[s]
  /\ outbox \in [Sessions -> Seq(Calls)]
  /\ enabled \in BOOLEAN
  /\ toggles \in 0 .. MaxToggles

WorkerType ==
  /\ channel \in Seq(Messages)
  /\ Len(channel) <= Capacity
  /\ token \in BOOLEAN
  /\ counted \in [Sessions -> Nat]
  /\ pc \in {"recv", "flush", "post", "shutdown", "done"}
  /\ sinks \in [Sessions -> Sinks] /\ \A s \in Sessions : Len(sinks[s].pending) <= MaxPending
  /\ todo \subseteq Sessions
  /\ hand \in [session : Sessions \cup {"none"}, events : Seq(Dtos)]
  /\ waiting \in BOOLEAN
  /\ nowhere \in [Sessions -> Nat]

\* The two parts make up TypeOK.
LEMMA TypeParts == TypeOK <=> ConnectionType /\ WorkerType
  BY DEF TypeOK, ConnectionType, WorkerType

\* What the handlers put into an outbox are calls.
LEMMA CallTypes ==
  /\ \A op \in {"announce", "announce_and_emit", "emit", "event", "heartbeat"}, kind \in Kinds :
       Call(op, kind) \in Calls /\ <<Call(op, kind)>> \in Seq(Calls)
  /\ <<>> \in Seq(Calls)
  /\ Chat \in Seq(Calls)
  /\ \A calls \in Seq(Calls) : Shares(calls) \in Seq(Calls)
  BY DEF Call, Calls, Kinds, Chat, Shares

\* The channels of a reconciliation are channels.
LEMMA RostersType ==
  ASSUME ConnectionType, NEW s \in Sessions
  PROVE  Rosters(s) \in SUBSET Channels
  BY DEF ConnectionType, Rosters

\* The types of the projector and of the sync state.
ProjectorType == [Sessions -> [channels : SUBSET Channels, roster_sent : SUBSET Channels]]
SyncType == [Sessions -> [resolved : SUBSET Channels, complete : BOOLEAN, once : BOOLEAN]]

\* An update of one session's projector keeps its type.
LEMMA ProjectorUpdate ==
  ASSUME ConnectionType, NEW s \in Sessions,
         NEW known \in SUBSET Channels, NEW sent \in SUBSET Channels
  PROVE  /\ [projector EXCEPT ![s].channels = known, ![s].roster_sent = sent] \in ProjectorType
         /\ [projector EXCEPT ![s].roster_sent = sent] \in ProjectorType
         /\ projector[s].channels \in SUBSET Channels
         /\ projector[s].roster_sent \in SUBSET Channels
         /\ joined[s] \in SUBSET Channels
<1>1. projector \in ProjectorType /\ joined \in [Sessions -> SUBSET Channels]
  BY DEF ConnectionType, ProjectorType
<1>2. [projector EXCEPT ![s].channels = known, ![s].roster_sent = sent] \in ProjectorType
  BY <1>1 DEF ProjectorType
<1>3. [projector EXCEPT ![s].roster_sent = sent] \in ProjectorType
  BY <1>1 DEF ProjectorType
<1> QED
  BY <1>1, <1>2, <1>3 DEF ProjectorType

\* An update of one session's sync state keeps its type.
LEMMA SyncUpdate ==
  ASSUME ConnectionType, NEW s \in Sessions, NEW resolved \in SUBSET Channels, NEW whole \in BOOLEAN
  PROVE  /\ [sync EXCEPT ![s].resolved = resolved, ![s].complete = whole] \in SyncType
         /\ [sync EXCEPT ![s] = [resolved |-> resolved, complete |-> whole, once |-> TRUE]] \in SyncType
         /\ sync[s].resolved \in SUBSET Channels
         /\ sync[s].complete \in BOOLEAN
  BY DEF ConnectionType, SyncType

\* The type of the taps.
TapType ==
  [Sessions -> [announced : BOOLEAN, ended : BOOLEAN, next_seq : Nat \ {0}, pending_dropped : Nat]]

\* An update of one tap keeps their type.
LEMMA TapUpdate ==
  ASSUME tap \in TapType, NEW s \in Sessions, NEW b \in BOOLEAN, NEW n \in Nat
  PROVE  /\ [tap EXCEPT ![s].announced = b] \in TapType
         /\ [tap EXCEPT ![s].ended = b] \in TapType
         /\ [tap EXCEPT ![s].next_seq = @ + 1, ![s].pending_dropped = n] \in TapType
         /\ tap[s].announced \in BOOLEAN /\ tap[s].ended \in BOOLEAN
         /\ tap[s].next_seq \in Nat \ {0} /\ tap[s].pending_dropped \in Nat
<1>1. [tap EXCEPT ![s].announced = b] \in TapType
  BY DEF TapType
<1>2. [tap EXCEPT ![s].ended = b] \in TapType
  BY DEF TapType
<1>3. [tap EXCEPT ![s].next_seq = @ + 1, ![s].pending_dropped = n] \in TapType
  <2>1. tap[s].next_seq + 1 \in Nat \ {0}
    BY DEF TapType
  <2>2. \A k \in Nat \ {0} : [tap EXCEPT ![s].next_seq = k, ![s].pending_dropped = n] \in TapType
    BY DEF TapType
  <2> QED
    BY <2>1, <2>2
<1>4. /\ tap[s].announced \in BOOLEAN /\ tap[s].ended \in BOOLEAN
      /\ tap[s].next_seq \in Nat \ {0} /\ tap[s].pending_dropped \in Nat
  BY DEF TapType
<1> QED
  BY <1>1, <1>2, <1>3, <1>4

\* What a connection tells its tap keeps the types.
LEMMA ConnectionSteps ==
  ASSUME ConnectionType, NEW s \in Sessions,
         \/ BeginSession(s) \/ ObserveJoined(s) \/ ObserveChat(s) \/ ObserveRoster(s)
         \/ ObserveLeft(s) \/ ObserveRemoved(s) \/ RejectChannel(s) \/ Maintain(s) \/ EndSession(s)
  PROVE  ConnectionType'
<1>0. \A calls \in Seq(Calls) : Does(s, calls) => outbox' \in [Sessions -> Seq(Calls)]
  BY DEF Does, ConnectionType
<1>1. ASSUME Observes(s), joined' \in [Sessions -> SUBSET Channels], projector' \in ProjectorType,
             sync' \in SyncType, outbox' \in [Sessions -> Seq(Calls)]
      PROVE  ConnectionType'
  <2>1. observed' \in [Sessions -> Nat] /\ \A t \in Sessions : observed'[t] <= MaxObserved[t]
    <3>1. /\ observed \in [Sessions -> Nat] /\ observed[s] + 1 <= MaxObserved[s]
          /\ observed' = [observed EXCEPT ![s] = @ + 1]
          /\ \A t \in Sessions : observed[t] <= MaxObserved[t]
      <4>1. observed \in [Sessions -> Nat] /\ \A t \in Sessions : observed[t] <= MaxObserved[t]
        BY DEF ConnectionType
      <4>2. observed[s] < MaxObserved[s] /\ observed' = [observed EXCEPT ![s] = @ + 1]
        BY <1>1 DEF Observes
      <4>3. MaxObserved[s] \in Nat /\ observed[s] \in Nat
        BY <4>1, BoundAssumption
      <4>4. observed[s] + 1 <= MaxObserved[s]
        BY <4>2, <4>3
      <4> QED
        BY <4>1, <4>2, <4>4
    <3> QED
      BY <3>1
  <2>2. /\ tap' = tap /\ life' = life /\ enabled' = enabled /\ toggles' = toggles
    BY <1>1 DEF Observes
  <2> QED
    BY <1>1, <2>1, <2>2 DEF ConnectionType, ProjectorType, SyncType
<1> DEFINE c0 == projector[s].channels
           r0 == projector[s].roster_sent
<1>2. CASE BeginSession(s)
  BY <1>0, <1>2, CallTypes DEF BeginSession, ConnectionType, Kinds
<1>3. CASE ObserveJoined(s)
  <2>1. PICK c \in Channels :
          /\ joined' = [joined EXCEPT ![s] = @ \cup {c}]
          /\ projector' = [projector EXCEPT ![s].channels = c0 \cup {c}, ![s].roster_sent = r0 \ {c}]
    BY <1>3 DEF ObserveJoined, ConnectionType
  <2>2. projector' \in ProjectorType /\ joined' \in [Sessions -> SUBSET Channels]
    <3>1. projector' \in ProjectorType
      BY <2>1, ProjectorUpdate
    <3>2. joined \in [Sessions -> SUBSET Channels]
      BY DEF ConnectionType
    <3>3. joined' \in [Sessions -> SUBSET Channels]
      BY <2>1, <3>2
    <3> QED
      BY <3>1, <3>3
  <2> QED
    BY <1>0, <1>1, <1>3, <2>2, CallTypes DEF ObserveJoined, ConnectionType, SyncType
<1>4. CASE ObserveChat(s)
  <2>1. outbox' \in [Sessions -> Seq(Calls)]
    BY <1>0, <1>4, CallTypes DEF ObserveChat
  <2>2. projector' = projector /\ sync' = sync /\ joined' = joined
    BY <1>4 DEF ObserveChat
  <2>3. /\ projector \in ProjectorType /\ sync \in SyncType
        /\ joined \in [Sessions -> SUBSET Channels]
    BY DEF ConnectionType, ProjectorType, SyncType
  <2> QED
    BY <1>1, <1>4, <2>1, <2>2, <2>3 DEF ObserveChat
<1>5. CASE ObserveRoster(s)
  <2>1. PICK c \in Channels :
          LET resolved == sync[s].resolved \cup {c}
              whole == sync[s].complete \/ resolved = Channels
          IN /\ projector' = [projector EXCEPT ![s].roster_sent = r0 \cup {c}]
             /\ sync' = [sync EXCEPT ![s].resolved = resolved, ![s].complete = whole]
             /\ Does(s, IF whole THEN Reconcile(Rosters(s) \cup {c}) ELSE <<>>)
    BY <1>5 DEF ObserveRoster, ConnectionType
  <2>2. projector' \in ProjectorType
    BY <2>1, ProjectorUpdate
  <2>3. sync' \in SyncType
    <3> DEFINE resolved == sync[s].resolved \cup {c}
               whole == sync[s].complete \/ resolved = Channels
    <3>1. resolved \in SUBSET Channels /\ whole \in BOOLEAN
      BY SyncUpdate
    <3> QED
      BY <2>1, <3>1, SyncUpdate
  <2>4. outbox' \in [Sessions -> Seq(Calls)]
    BY <1>0, <2>1, CallTypes, RostersType, ReconcileType
  <2> QED
    BY <1>1, <1>5, <2>2, <2>3, <2>4 DEF ObserveRoster, ConnectionType
<1>6. ASSUME NEW c \in Channels, Forgets(s, c)
      PROVE  projector' \in ProjectorType
  BY <1>6, ProjectorUpdate DEF Forgets, ConnectionType
<1>7. CASE ObserveLeft(s)
  <2>1. sync \in SyncType /\ joined \in [Sessions -> SUBSET Channels]
    BY DEF ConnectionType, SyncType
  <2>2. sync' \in SyncType /\ joined' \in [Sessions -> SUBSET Channels]
    BY <1>7, <2>1 DEF ObserveLeft
  <2>3. projector' \in ProjectorType
    BY <1>6, <1>7, <2>1 DEF ObserveLeft
  <2>4. outbox' \in [Sessions -> Seq(Calls)]
    BY <1>0, <1>7, CallTypes DEF ObserveLeft
  <2> QED
    BY <1>1, <1>7, <2>2, <2>3, <2>4 DEF ObserveLeft
<1>8. CASE ObserveRemoved(s)
  <2>0. /\ projector \in ProjectorType /\ sync \in SyncType
        /\ joined \in [Sessions -> SUBSET Channels]
    BY DEF ConnectionType, ProjectorType, SyncType
  <2>1. sync' \in SyncType /\ joined' \in [Sessions -> SUBSET Channels]
    BY <1>8, <2>0 DEF ObserveRemoved
  <2>2. projector' \in ProjectorType
    BY <1>6, <1>8, <2>0 DEF ObserveRemoved
  <2>3. outbox' \in [Sessions -> Seq(Calls)]
    BY <1>0, <1>8, CallTypes, Zenon DEF ObserveRemoved, ConnectionType
  <2> QED
    BY <1>1, <1>8, <2>1, <2>2, <2>3 DEF ObserveRemoved
<1>9. CASE RejectChannel(s)
  <2>1. PICK c \in Channels :
          LET resolved == sync[s].resolved \cup {c}
              completes == ~sync[s].complete /\ resolved = Channels
          IN /\ sync' = [sync EXCEPT ![s].resolved = resolved,
                                     ![s].complete = sync[s].complete \/ completes]
             /\ Does(s, IF completes THEN Reconcile(Rosters(s)) ELSE <<>>)
    BY <1>9, Zenon DEF RejectChannel, ConnectionType
  <2>2. sync' \in SyncType
    <3> DEFINE resolved == sync[s].resolved \cup {c}
               whole == sync[s].complete \/ (~sync[s].complete /\ resolved = Channels)
    <3>1. resolved \in SUBSET Channels /\ whole \in BOOLEAN
      BY SyncUpdate
    <3> QED
      BY <2>1, <3>1, SyncUpdate
  <2>3. outbox' \in [Sessions -> Seq(Calls)]
    BY <1>0, <2>1, CallTypes, RostersType, ReconcileType
  <2>4. projector' = projector /\ joined' = joined
    BY <1>9 DEF RejectChannel
  <2>5. projector \in ProjectorType /\ joined \in [Sessions -> SUBSET Channels]
    BY DEF ConnectionType, ProjectorType
  <2>6. Observes(s)
    BY <1>9 DEF RejectChannel
  <2> QED
    BY <1>1, <2>2, <2>3, <2>4, <2>5, <2>6
<1>10. CASE Maintain(s)
  <2> DEFINE resolves == ~sync[s].once /\ ~sync[s].complete /\ sync[s].resolved # Channels
  <2>1. PICK rosters \in SUBSET joined[s], complete \in SUBSET joined[s] :
          LET known == IF enabled THEN complete \cap c0 ELSE {}
          IN /\ sync' = [sync EXCEPT ![s] =
                  [resolved |-> IF resolves THEN Channels ELSE sync[s].resolved,
                   complete |-> sync[s].complete \/ resolves, once |-> TRUE]]
             /\ projector' = [projector EXCEPT ![s].roster_sent = r0 \cup known]
             /\ Does(s, (IF resolves THEN Reconcile(Rosters(s)) ELSE <<>>)
                         \o (IF enabled /\ rosters # {} THEN Reconcile(Rosters(s) \cup known) ELSE <<>>)
                         \o <<Call("heartbeat", "heartbeat")>>)
    BY <1>10 DEF Maintain, ConnectionType
  <2> DEFINE known == IF enabled THEN complete \cap c0 ELSE {}
  <2>2. known \in SUBSET Channels
    BY ProjectorUpdate
  <2>3. projector' \in ProjectorType
    BY <2>1, <2>2, ProjectorUpdate
  <2>4. sync' \in SyncType
    BY <2>1, SyncUpdate
  <2>5. outbox' \in [Sessions -> Seq(Calls)]
    <3>1. /\ (IF resolves THEN Reconcile(Rosters(s)) ELSE <<>>) \in Seq(Calls)
          /\ (IF enabled /\ rosters # {} THEN Reconcile(Rosters(s) \cup known) ELSE <<>>) \in Seq(Calls)
          /\ <<Call("heartbeat", "heartbeat")>> \in Seq(Calls)
      BY <2>2, CallTypes, RostersType, ReconcileType DEF Kinds
    <3> QED
      BY <1>0, <2>1, <3>1, ConcatProperties
  <2> QED
    BY <1>1, <1>10, <2>3, <2>4, <2>5 DEF Maintain, ConnectionType
<1>11. CASE EndSession(s)
  <2>1. tap' \in TapType
    <3> DEFINE e == tap[s].ended \/ (tap[s].announced /\ ~tap[s].ended)
    <3>1. tap \in TapType
      BY DEF ConnectionType, TapType
    <3>2. e \in BOOLEAN
      OBVIOUS
    <3>3. tap' = [tap EXCEPT ![s].ended = e]
      BY <1>11, <3>1 DEF EndSession, TapType
    <3> QED
      BY <3>1, <3>2, <3>3, TapUpdate
  <2>2. outbox' \in [Sessions -> Seq(Calls)]
    BY <1>0, <1>11, CallTypes DEF EndSession, Kinds
  <2> QED
    BY <1>11, <2>1, <2>2 DEF EndSession, ConnectionType, TapType
<1> QED
  BY <1>2, <1>3, <1>4, <1>5, <1>7, <1>8, <1>9, <1>10, <1>11

-----------------------------------------------------------------------------
\* The account of a session: what the uplink thread holds of it fits and is in order,
\* and no number is missing from held, channel and settled together.
AccountOf(held, c, s, next, settled) ==
  /\ Len(held) <= MaxPending
  /\ Ordered(held, c, s, next)
  /\ next - 1 <= settled + Len(held) + Cardinality(Of(c, s))

\* The numbers of buffered events are numbers.
LEMMA DtoNumbers ==
  ASSUME NEW held \in Seq(Dtos)
  PROVE  \A i \in DOMAIN held : i \in Nat /\ held[i].seq \in Nat
<1>1. DOMAIN held = 1 .. Len(held) /\ \A i \in DOMAIN held : held[i] \in Dtos
  OBVIOUS
<1> QED
  BY <1>1 DEF Dtos

\* The numbers of events in the channel are numbers.
LEMMA MessageNumbers ==
  ASSUME NEW c \in Seq(Messages), NEW s
  PROVE  \A i \in Of(c, s) : i \in Nat /\ c[i].dto.seq \in Nat
<1>1. DOMAIN c = 1 .. Len(c) /\ \A i \in DOMAIN c : c[i] \in Messages
  OBVIOUS
<1>2. \A m \in Messages : m.dto.seq \in Nat
  BY DEF Messages, Dtos, Session, Dto
<1> QED
  BY <1>1, <1>2 DEF Of

\* The tap numbers an event and the channel takes it.
LEMMA NumberedAndSent ==
  ASSUME NEW held \in Seq(Dtos), NEW c \in Seq(Messages), NEW s \in Sessions, NEW next \in Nat \ {0},
         NEW settled \in Nat, NEW kind \in Kinds, AccountOf(held, c, s, next, settled)
  PROVE  AccountOf(held, Append(c, Event(s, next, kind)), s, next + 1, settled)
<1> DEFINE m == Event(s, next, kind)
<1>1. m \in Messages /\ m.session = s /\ m.dto.kind # "session" /\ m.dto.seq = next
  BY DEF Event, Dto, Messages, Dtos, Kinds
<1> HIDE DEF m
<1>2. /\ Of(Append(c, m), s) = Of(c, s) \cup {Len(c) + 1}
      /\ Cardinality(Of(Append(c, m), s)) = Cardinality(Of(c, s)) + 1
  BY <1>1, OfAppendEvent
<1>3. /\ \A i \in Of(c, s) : i \in 1 .. Len(c) /\ Append(c, m)[i] = c[i] /\ c[i] \in Messages
      /\ Append(c, m)[Len(c) + 1] = m
  BY <1>1, AppendProperties DEF Of
<1>4. \A i \in DOMAIN held : held[i].seq \in Nat
  BY DtoNumbers
<1>5. \A i \in Of(c, s) : c[i].dto.seq \in Nat
  BY MessageNumbers
<1>6. Ordered(held, Append(c, m), s, next + 1)
  <2>1. Ordered(held, c, s, next)
    BY DEF AccountOf
  <2>2. \A i \in Of(Append(c, m), s) :
           \/ i \in Of(c, s) /\ i < Len(c) + 1 /\ Append(c, m)[i] = c[i]
           \/ i = Len(c) + 1 /\ Append(c, m)[i].dto.seq = next
    BY <1>1, <1>2, <1>3
  <2>3. ASSUME NEW i \in Of(Append(c, m), s) PROVE Append(c, m)[i].dto.seq < next + 1
    <3>1. CASE i \in Of(c, s) /\ Append(c, m)[i] = c[i]
      <4>1. c[i].dto.seq < next /\ c[i].dto.seq \in Nat
        BY <1>5, <2>1, <3>1 DEF Ordered
      <4> QED
        BY <3>1, <4>1
    <3>2. CASE Append(c, m)[i].dto.seq = next
      BY <3>2
    <3> QED
      BY <2>2, <3>1, <3>2
  <2>4. ASSUME NEW i \in Of(Append(c, m), s), NEW j \in Of(Append(c, m), s), i < j
        PROVE  Append(c, m)[i].dto.seq < Append(c, m)[j].dto.seq
    <3>1. i \in Of(c, s) /\ Append(c, m)[i] = c[i]
      BY <1>3, <2>2, <2>4
    <3> QED
      BY <2>1, <2>2, <2>4, <3>1 DEF Ordered
  <2>5. \A i \in DOMAIN held, j \in Of(Append(c, m), s) : held[i].seq < Append(c, m)[j].dto.seq
    BY <2>1, <2>2 DEF Ordered
  <2>6. \A i \in DOMAIN held : held[i].seq < next + 1
    BY <1>4, <2>1 DEF Ordered
  <2>7. \A i, j \in DOMAIN held : i < j => held[i].seq < held[j].seq
    BY <2>1 DEF Ordered
  <2> QED
    BY <2>3, <2>4, <2>5, <2>6, <2>7 DEF Ordered
<1>7. Cardinality(Of(c, s)) \in Nat /\ Len(held) \in Nat
  BY OfFinite
<1> QED
  BY <1>2, <1>6, <1>7 DEF AccountOf, m

\* The tap numbers an event, the channel is full, and the loss is counted.
LEMMA NumberedAndLost ==
  ASSUME NEW held \in Seq(Dtos), NEW c \in Seq(Messages), NEW s \in Sessions, NEW next \in Nat \ {0},
         NEW settled \in Nat, AccountOf(held, c, s, next, settled)
  PROVE  AccountOf(held, c, s, next + 1, settled + 1)
<1>1. \A i \in DOMAIN held : held[i].seq \in Nat
  BY DtoNumbers
<1>2. \A i \in Of(c, s) : c[i].dto.seq \in Nat
  BY MessageNumbers
<1>3. Cardinality(Of(c, s)) \in Nat /\ Len(held) \in Nat
  BY OfFinite
<1>4. Ordered(held, c, s, next + 1)
  BY <1>1, <1>2 DEF AccountOf, Ordered
<1>5. Len(held) <= MaxPending /\ next - 1 <= settled + Len(held) + Cardinality(Of(c, s))
  BY DEF AccountOf
<1>6. next + 1 - 1 <= settled + 1 + Len(held) + Cardinality(Of(c, s))
  BY <1>3, <1>5
<1> QED
  BY <1>4, <1>5, <1>6 DEF AccountOf

\* The channel takes something that is not an event of s.
LEMMA SentForAnother ==
  ASSUME NEW held \in Seq(Dtos), NEW c \in Seq(Messages), NEW s \in Sessions, NEW next, NEW settled,
         NEW m \in Messages, m.session # s \/ m.dto.kind = "session",
         AccountOf(held, c, s, next, settled)
  PROVE  AccountOf(held, Append(c, m), s, next, settled)
<1>1. Of(Append(c, m), s) = Of(c, s)
  BY OfAppendOther
<1>2. \A i \in Of(c, s) : Append(c, m)[i] = c[i]
  BY AppendProperties DEF Of
<1> QED
  BY <1>1, <1>2 DEF AccountOf, Ordered

\* Receiving a message keeps what is left in order.
LEMMA OrderedTail ==
  ASSUME NEW held, NEW c \in Seq(Messages), c # <<>>, NEW s, NEW next, Ordered(held, c, s, next)
  PROVE  Ordered(held, Tail(c), s, next)
<1>1. \A i \in Of(Tail(c), s) : i \in Nat /\ i + 1 \in Of(c, s) /\ Tail(c)[i] = c[i + 1]
  BY OfTail, HeadTailProperties DEF Of
<1>2. \A i, j \in Of(Tail(c), s) : i < j => Tail(c)[i].dto.seq < Tail(c)[j].dto.seq
  <2>1. ASSUME NEW i \in Of(Tail(c), s), NEW j \in Of(Tail(c), s), i < j
        PROVE  Tail(c)[i].dto.seq < Tail(c)[j].dto.seq
    <3>1. i + 1 \in Of(c, s) /\ j + 1 \in Of(c, s) /\ i + 1 < j + 1
      BY <1>1, <2>1
    <3> QED
      BY <1>1, <3>1 DEF Ordered
  <2> QED
    BY <2>1
<1> QED
  BY <1>1, <1>2 DEF Ordered

\* The thread receives something that is not an event of s.
LEMMA ReceivedForAnother ==
  ASSUME NEW held \in Seq(Dtos), NEW c \in Seq(Messages), c # <<>>, NEW s, NEW next, NEW settled,
         Head(c).session # s \/ Head(c).dto.kind = "session",
         AccountOf(held, c, s, next, settled)
  PROVE  AccountOf(held, Tail(c), s, next, settled)
<1>1. 1 \notin Of(c, s)
  BY DEF Of
<1> QED
  BY <1>1, OfTail, OrderedTail DEF AccountOf

\* The thread receives an event of s, which has no sink.
LEMMA ReceivedNowhere ==
  ASSUME NEW held \in Seq(Dtos), NEW c \in Seq(Messages), c # <<>>, NEW s, NEW next \in Nat,
         NEW settled \in Nat,
         Head(c).session = s, Head(c).dto.kind # "session",
         AccountOf(held, c, s, next, settled)
  PROVE  AccountOf(held, Tail(c), s, next, settled + 1)
<1>1. 1 \in Of(c, s)
  BY DEF Of
<1>2. Cardinality(Of(c, s)) \in Nat /\ Len(held) \in Nat
  BY OfFinite
<1> QED
  BY <1>1, <1>2, OfTail, OrderedTail DEF AccountOf

\* The thread receives an event of s into the buffer, and counts what this pushes out.
LEMMA ReceivedAndKept ==
  ASSUME NEW held \in Seq(Dtos), NEW c \in Seq(Messages), c # <<>>, NEW s \in Sessions, NEW next \in Nat,
         NEW settled \in Nat,
         Head(c).session = s, Head(c).dto.kind # "session",
         AccountOf(held, c, s, next, settled)
  PROVE  LET kept == Push(held, Head(c).dto)
         IN AccountOf(kept, Tail(c), s, next, settled + (Len(held) + 1 - Len(kept)))
<1> DEFINE dto == Head(c).dto
           kept == Push(held, dto)
           gone == Len(held) + 1 - Len(kept)
<1>0. Head(c) = c[1] /\ Len(held) <= MaxPending
  BY DEF AccountOf
<1>1. dto \in Dtos
  <2>1. Head(c) \in Messages
    BY HeadTailProperties
  <2> QED
    BY <2>1 DEF Messages, Session, Dto
<1>2. /\ kept \in Seq(Dtos)
      /\ Len(kept) \in 1 .. MaxPending
      /\ gone \in Nat
      /\ \A i \in 1 .. Len(kept) - 1 : kept[i] = held[i + gone]
      /\ kept[Len(kept)] = dto
  BY <1>0, <1>1, PushProperties
<1>3. 1 \in Of(c, s)
  BY <1>0 DEF Of
<1>4. \A i \in Of(Tail(c), s) : i \in Nat \ {0} /\ i + 1 \in Of(c, s) /\ Tail(c)[i] = c[i + 1]
  BY OfTail, HeadTailProperties DEF Of
<1>5. Ordered(held, c, s, next)
  BY DEF AccountOf
<1> HIDE DEF dto, kept
<1>6. \A i \in DOMAIN kept : i \in 1 .. Len(kept) - 1 \/ i = Len(kept)
  BY <1>2
<1>7. \A i \in 1 .. Len(kept) - 1 : i + gone \in DOMAIN held
  BY <1>2
<1>8. c[1].dto = dto
  BY <1>0 DEF dto
<1>9. Ordered(kept, Tail(c), s, next)
  <2>1. ASSUME NEW i \in DOMAIN kept, NEW j \in DOMAIN kept, i < j
        PROVE  kept[i].seq < kept[j].seq
    <3>0. i \in 1 .. Len(kept) - 1
      <4>1. DOMAIN kept = 1 .. Len(kept) /\ Len(kept) \in Nat
        BY <1>2
      <4> HIDE DEF gone
      <4> QED
        BY <2>1, <4>1
    <3>1. kept[i] = held[i + gone] /\ i + gone \in DOMAIN held
      BY <1>2, <1>7, <3>0
    <3>2. CASE j = Len(kept)
      BY <1>2, <1>3, <1>5, <1>8, <3>1, <3>2 DEF Ordered
    <3>3. CASE j \in 1 .. Len(kept) - 1
      <4>1. kept[j] = held[j + gone] /\ j + gone \in DOMAIN held
        BY <1>2, <1>7, <3>3
      <4> HIDE DEF gone
      <4>2. i + gone < j + gone
        BY <1>2, <2>1, <3>0, <3>3
      <4> QED
        BY <1>5, <3>1, <4>1, <4>2 DEF Ordered
    <3> QED
      BY <1>6, <3>2, <3>3
  <2>2. \A i \in DOMAIN kept : kept[i].seq < next
    BY <1>2, <1>3, <1>5, <1>6, <1>7, <1>8 DEF Ordered
  <2>3. ASSUME NEW i \in DOMAIN kept, NEW j \in Of(Tail(c), s)
        PROVE  kept[i].seq < Tail(c)[j].dto.seq
    <3>0. j \in Nat \ {0} /\ j + 1 \in Of(c, s) /\ Tail(c)[j] = c[j + 1]
      BY <1>4
    <3>1. \A k \in Nat \ {0} : 1 < k + 1
      OBVIOUS
    <3>2. CASE i = Len(kept)
      BY <1>2, <1>3, <1>5, <1>8, <3>0, <3>1, <3>2 DEF Ordered
    <3>3. CASE i \in 1 .. Len(kept) - 1
      <4>1. kept[i] = held[i + gone] /\ i + gone \in DOMAIN held
        BY <1>2, <1>7, <3>3
      <4> HIDE DEF gone
      <4> QED
        BY <1>5, <3>0, <4>1 DEF Ordered
    <3> QED
      BY <1>6, <3>2, <3>3
  <2>4. Ordered(held, Tail(c), s, next)
    BY <1>5, OrderedTail
  <2> QED
    BY <2>1, <2>2, <2>3, <2>4 DEF Ordered
<1>10. Cardinality(Of(Tail(c), s)) = Cardinality(Of(c, s)) - 1 /\ Cardinality(Of(c, s)) \in Nat
  BY <1>3, OfTail, OfFinite
<1>11. next - 1 <= settled + gone + Len(kept) + Cardinality(Of(Tail(c), s))
  BY <1>2, <1>10 DEF AccountOf
<1> QED
  BY <1>2, <1>9, <1>11 DEF AccountOf, kept, dto

\* The oldest n events held are acknowledged or dropped, and counted.
LEMMA OldestSettled ==
  ASSUME NEW held \in Seq(Dtos), NEW rest \in Seq(Dtos), NEW n \in Nat, NEW c \in Seq(Messages), NEW s,
         NEW next \in Nat, NEW settled \in Nat,
         Len(rest) = Len(held) - n, \A i \in DOMAIN rest : rest[i] = held[i + n],
         AccountOf(held, c, s, next, settled)
  PROVE  AccountOf(rest, c, s, next, settled + n)
<1>1. \A i \in DOMAIN rest : i \in Nat /\ i + n \in DOMAIN held
  OBVIOUS
<1>2. Ordered(rest, c, s, next)
  <2>0. Ordered(held, c, s, next)
    BY DEF AccountOf
  <2>1. ASSUME NEW i \in DOMAIN rest, NEW j \in DOMAIN rest, i < j
        PROVE  rest[i].seq < rest[j].seq
    <3>1. /\ rest[i] = held[i + n] /\ i + n \in DOMAIN held
          /\ rest[j] = held[j + n] /\ j + n \in DOMAIN held
      BY <1>1
    <3>2. i + n < j + n
      BY <1>1, <2>1, SMTT(30)
    <3> QED
      BY <2>0, <3>1, <3>2 DEF Ordered
  <2>2. \A i \in DOMAIN rest : rest[i].seq < next
    BY <1>1, <2>0 DEF Ordered
  <2>3. \A i \in DOMAIN rest, j \in Of(c, s) : rest[i].seq < c[j].dto.seq
    BY <1>1, <2>0 DEF Ordered
  <2> QED
    BY <2>0, <2>1, <2>2, <2>3 DEF Ordered
<1>3. Cardinality(Of(c, s)) \in Nat /\ Len(held) \in Nat /\ Len(rest) \in Nat
  BY OfFinite
<1>4. Len(held) <= MaxPending /\ next - 1 <= settled + Len(held) + Cardinality(Of(c, s))
  BY DEF AccountOf
<1>5. Len(rest) <= MaxPending /\ next - 1 <= settled + n + Len(rest) + Cardinality(Of(c, s))
  BY <1>3, <1>4, CapacityAssumption
<1> QED
  BY <1>2, <1>5 DEF AccountOf

-----------------------------------------------------------------------------
\* The account of a session in a state, and the inductive invariant.
Account(t) == AccountOf(Held(t), channel, t, tap[t].next_seq, counted[t] + nowhere[t])
Accounts == \A t \in Sessions : Account(t)
IInv == TypeOK /\ HandInv /\ HeldFits /\ InOrder /\ NoLossUncounted

\* What the thread holds of a session is a sequence of events.
LEMMA HeldType ==
  ASSUME WorkerType, NEW t \in Sessions
  PROVE  /\ sinks[t].pending \in Seq(Dtos) /\ Len(sinks[t].pending) <= MaxPending
         /\ hand.events \in Seq(Dtos)
         /\ Held(t) \in Seq(Dtos)
         /\ hand = NoBatch => Held(t) = sinks[t].pending
         /\ hand.session # t => Held(t) = sinks[t].pending
<1>1. /\ sinks[t].pending \in Seq(Dtos) /\ Len(sinks[t].pending) <= MaxPending
      /\ hand.events \in Seq(Dtos)
  BY DEF WorkerType, Sinks
<1>2. <<>> \in Seq(Dtos) /\ <<>> \o sinks[t].pending = sinks[t].pending
  BY <1>1, ConcatEmptySeq
<1>3. (IF hand.session = t THEN hand.events ELSE <<>>) \in Seq(Dtos)
  BY <1>1, <1>2
<1>4. Held(t) \in Seq(Dtos)
  BY <1>1, <1>3, ConcatProperties DEF Held
<1>5. hand = NoBatch \/ hand.session # t => (IF hand.session = t THEN hand.events ELSE <<>>) = <<>>
  BY DEF NoBatch
<1>6. hand = NoBatch \/ hand.session # t => Held(t) = sinks[t].pending
  BY <1>2, <1>5 DEF Held
<1> QED
  BY <1>1, <1>4, <1>6

\* The accounts of all sessions are the properties that the runs check.
LEMMA AccountParts == Accounts <=> HeldFits /\ InOrder /\ NoLossUncounted
<1>1. \A t : InChannel(t) = Of(channel, t)
  BY DEF InChannel, Of
<1>2. InOrder <=> \A t \in Sessions : Ordered(Held(t), channel, t, tap[t].next_seq)
  BY <1>1 DEF InOrder, Ordered
<1> QED
  BY <1>1, <1>2 DEF Accounts, Account, AccountOf, HeldFits, NoLossUncounted

\* A step that touches neither the numbers nor what is under way keeps the accounts.
LEMMA NothingUnderWay ==
  ASSUME Accounts, channel' = channel, counted' = counted, sinks' = sinks, hand' = hand, nowhere' = nowhere,
         \A t \in Sessions : tap'[t].next_seq = tap[t].next_seq
  PROVE  Accounts'
<1>1. ASSUME NEW t \in Sessions PROVE Account(t)'
  <2>1. Account(t) /\ Held(t)' = Held(t) /\ tap'[t].next_seq = tap[t].next_seq
    BY DEF Accounts, Held
  <2> QED
    BY <2>1 DEF Account
<1> QED
  BY <1>1 DEF Accounts

\* What a connection tells its tap keeps the invariant.
LEMMA ConnectionAccounts ==
  ASSUME TypeOK, HandInv, Accounts, NEW s \in Sessions,
         \/ BeginSession(s) \/ ObserveJoined(s) \/ ObserveChat(s) \/ ObserveRoster(s)
         \/ ObserveLeft(s) \/ ObserveRemoved(s) \/ RejectChannel(s) \/ Maintain(s) \/ EndSession(s)
  PROVE  TypeOK' /\ HandInv' /\ Accounts'
<1>1. channel' = channel /\ counted' = counted /\ token' = token /\ worker' = worker
  BY SMTT(30) DEF BeginSession, ObserveJoined, ObserveChat, ObserveRoster, ObserveLeft, ObserveRemoved,
         RejectChannel, Maintain, EndSession, Observes
<1>2. \A t \in Sessions : tap'[t].next_seq = tap[t].next_seq
  <2>1. CASE EndSession(s)
    BY <2>1 DEF EndSession, TypeOK
  <2>2. CASE tap' = tap
    BY <2>2
  <2> QED
    BY <2>1, <2>2 DEF BeginSession, ObserveJoined, ObserveChat, ObserveRoster, ObserveLeft,
         ObserveRemoved, RejectChannel, Maintain, Observes
<1>3. WorkerType' /\ HandInv'
  BY <1>1, TypeParts DEF WorkerType, HandInv, worker
<1>4. Accounts'
  BY <1>1, <1>2, NothingUnderWay DEF worker
<1>5. ConnectionType'
  BY TypeParts, ConnectionSteps
<1>6. TypeOK'
  BY <1>3, <1>5 DEF TypeOK, ConnectionType, WorkerType
<1> QED
  BY <1>3, <1>4, <1>6, SMTT(30)

\* The calls of a tap keep the invariant: the one place that uses up numbers.
LEMMA TapAccounts ==
  ASSUME TypeOK, HandInv, Accounts, NEW s \in Sessions, TapCalls(s)
  PROVE  TypeOK' /\ HandInv' /\ Accounts'
<1> USE DEF TapCalls
<1>1. /\ outbox[s] # <<>> /\ outbox[s] \in Seq(Calls)
      /\ connection' = connection /\ enabled' = enabled /\ token' = token
      /\ worker' = worker /\ toggles' = toggles
  BY DEF Announce, EmitMarker, EmitEvent, Heartbeat, Calling, TypeOK
<1>2. Head(outbox[s]) \in Calls /\ Tail(outbox[s]) \in Seq(Calls) /\ Kind(s) \in Kinds
  <2>1. Head(outbox[s]) \in Calls /\ Tail(outbox[s]) \in Seq(Calls)
    BY <1>1, HeadTailProperties
  <2> QED
    BY <2>1 DEF Kind, Calls
<1>3. \A calls \in Seq(Calls) : Then(s, calls) => outbox' \in [Sessions -> Seq(Calls)]
  BY <1>2, ConcatProperties DEF Then, TypeOK
<1>4. tap \in TapType
  BY DEF TypeOK, TapType
<1>5. ASSUME outbox' \in [Sessions -> Seq(Calls)], tap' \in TapType, channel' \in Seq(Messages),
             Len(channel') <= Capacity, counted' \in [Sessions -> Nat]
      PROVE  TypeOK' /\ HandInv'
  BY <1>1, <1>5 DEF TypeOK, HandInv, TapType, connection, worker
<1>6. /\ channel \in Seq(Messages) /\ Len(channel) \in Nat /\ Len(channel) <= Capacity
      /\ counted \in [Sessions -> Nat] /\ nowhere \in [Sessions -> Nat]
      /\ Capacity \in Nat
      /\ \A t \in Sessions : tap[t].next_seq \in Nat \ {0} /\ tap[t].pending_dropped \in Nat
      /\ \A t \in Sessions : counted[t] + nowhere[t] \in Nat
  <2>1. /\ channel \in Seq(Messages) /\ Len(channel) \in Nat /\ Len(channel) <= Capacity
        /\ counted \in [Sessions -> Nat] /\ nowhere \in [Sessions -> Nat]
        /\ Capacity \in Nat
    BY CapacityAssumption, SMTT(30) DEF TypeOK
  <2> QED
    BY <1>4, <2>1 DEF TapType
<1>7. \A t \in Sessions : Held(t) \in Seq(Dtos) /\ Held(t)' = Held(t) /\ Account(t)
  BY <1>1, HeldType, TypeParts DEF Held, worker, Accounts
<1>8. \A n \in Nat : Counts(s, n) =>
        counted' \in [Sessions -> Nat] /\ counted'[s] = counted[s] + n
          /\ \A t \in Sessions \ {s} : counted'[t] = counted[t]
  BY <1>6 DEF Counts
<1>9. ASSUME NEW kind \in Kinds, NEW fitting \in Nat, Numbers(s, kind, fitting),
             outbox' \in [Sessions -> Seq(Calls)]
      PROVE  TypeOK' /\ HandInv' /\ Accounts'
  <2> DEFINE m == Event(s, tap[s].next_seq, kind)
  <2>1. tap[s].next_seq \in Nat \ {0} /\ tap[s].pending_dropped + 1 \in Nat
    BY <1>6
  <2>2. m \in Messages /\ m.session = s /\ m.dto.kind # "session"
    BY <2>1 DEF Event, Dto, Messages, Dtos, Kinds
  <2>3. /\ tap' \in TapType /\ tap'[s].next_seq = tap[s].next_seq + 1
        /\ \A t \in Sessions \ {s} : tap'[t] = tap[t]
    <3>1. PICK n \in Nat : tap' = [tap EXCEPT ![s].next_seq = @ + 1, ![s].pending_dropped = n]
      BY <1>4, <1>9, <2>1 DEF Numbers, TapType
    <3>2. tap' \in TapType
      BY <1>4, <3>1, TapUpdate
    <3> QED
      BY <1>4, <3>1, <3>2 DEF TapType
  <2>4. CASE Full
    <3>1. channel' = channel /\ Counts(s, 1)
      BY <1>9, <2>4 DEF Numbers
    <3>2. TypeOK' /\ HandInv'
      BY <1>5, <1>6, <1>8, <1>9, <2>3, <3>1
    <3>3. Account(s)'
      <4>1. AccountOf(Held(s), channel, s, tap[s].next_seq + 1, counted[s] + nowhere[s] + 1)
        BY <1>6, <1>7, <2>1, NumberedAndLost DEF Account
      <4>2. counted'[s] + nowhere'[s] = counted[s] + nowhere[s] + 1
        <5>1. counted'[s] = counted[s] + 1 /\ nowhere' = nowhere
          BY <1>1, <1>8, <3>1 DEF worker
        <5>2. counted[s] \in Nat /\ nowhere[s] \in Nat
          BY <1>6
        <5> QED
          BY <5>1, <5>2
      <4> QED
        BY <1>7, <2>3, <3>1, <4>1, <4>2 DEF Account
    <3>4. ASSUME NEW t \in Sessions \ {s} PROVE Account(t)'
      BY <1>1, <1>7, <1>8, <2>3, <3>1 DEF Account, worker
    <3> QED
      BY <3>2, <3>3, <3>4 DEF Accounts
  <2>5. CASE ~Full
    <3>1. channel' = Append(channel, m) /\ counted' = counted
      BY <1>9, <2>5 DEF Numbers
    <3>2. channel' \in Seq(Messages) /\ Len(channel') <= Capacity
      BY <1>6, <2>2, <2>5, <3>1, AppendProperties DEF Full
    <3>3. TypeOK' /\ HandInv'
      BY <1>5, <1>6, <1>9, <2>3, <3>1, <3>2
    <3>4. Account(s)'
      <4>1. AccountOf(Held(s), Append(channel, m), s, tap[s].next_seq + 1, counted[s] + nowhere[s])
        BY <1>6, <1>7, <2>1, NumberedAndSent DEF Account
      <4> QED
        BY <1>1, <1>7, <2>3, <3>1, <4>1 DEF Account, worker
    <3>5. ASSUME NEW t \in Sessions \ {s} PROVE Account(t)'
      <4>1. AccountOf(Held(t), Append(channel, m), t, tap[t].next_seq, counted[t] + nowhere[t])
        BY <1>6, <1>7, <2>2, SentForAnother DEF Account
      <4> QED
        BY <1>1, <1>7, <2>3, <3>1, <4>1 DEF Account, worker
    <3> QED
      BY <3>3, <3>4, <3>5 DEF Accounts
  <2> QED
    BY <2>4, <2>5
<1>10. CASE EmitMarker(s)
  BY <1>2, <1>3, <1>9, <1>10, CallTypes DEF EmitMarker, Kinds
<1>11. CASE EmitEvent(s)
  BY <1>2, <1>3, <1>6, <1>9, <1>11, CallTypes DEF EmitEvent
<1>12. CASE Heartbeat(s)
  <2>1. outbox' \in [Sessions -> Seq(Calls)]
    <3>1. Reconcile(Rosters(s)) \in Seq(Calls)
      BY TypeParts, RostersType, ReconcileType
    <3>2. \A kind \in {"session_started", "session_ended", "heartbeat"} : <<Call("emit", kind)>> \in Seq(Calls)
      BY CallTypes DEF Kinds
    <3>3. <<Call("emit", "session_started")>> \o Reconcile(Rosters(s)) \in Seq(Calls)
      BY <3>1, <3>2, ConcatProperties
    <3> QED
      BY <1>3, <1>12, <3>2, <3>3, CallTypes DEF Heartbeat
  <2>2. tap' \in TapType /\ \A t \in Sessions : tap'[t].next_seq = tap[t].next_seq
    <3>1. tap' = tap \/ \E b \in BOOLEAN : tap' = [tap EXCEPT ![s].ended = b]
      BY <1>12 DEF Heartbeat
    <3>2. tap' \in TapType
      BY <1>4, <3>1, TapUpdate
    <3> QED
      BY <1>4, <3>1, <3>2 DEF TapType
  <2>3. channel' = channel /\ counted' = counted
    BY <1>12 DEF Heartbeat
  <2>4. Accounts'
    BY <1>1, <2>2, <2>3, NothingUnderWay DEF worker
  <2> QED
    BY <1>5, <1>6, <2>1, <2>2, <2>3, <2>4
<1>13. CASE Announce(s)
  <2> DEFINE event == IF Head(outbox[s]).op = "announce" THEN <<>> ELSE <<Call("emit", Kind(s))>>
  <2>1. event \in Seq(Calls) /\ <<Call("emit", "session_started")>> \o event \in Seq(Calls)
    <3>1. event \in Seq(Calls) /\ <<Call("emit", "session_started")>> \in Seq(Calls)
      BY <1>2, CallTypes DEF Kinds
    <3> QED
      BY <3>1, ConcatProperties
  <2>2. outbox' \in [Sessions -> Seq(Calls)]
    BY <1>3, <1>13, <2>1, CallTypes DEF Announce
  <2>3. CASE UNCHANGED <<tap, channel, counted>>
    <3>1. Accounts'
      BY <1>1, <2>3, NothingUnderWay DEF worker
    <3> QED
      BY <1>4, <1>5, <1>6, <2>2, <2>3, <3>1
  <2>4. CASE Counts(s, 1) /\ UNCHANGED <<tap, channel>>
    <3>1. Account(s)'
      <4>1. AccountOf(Held(s), channel, s, tap[s].next_seq, counted[s] + nowhere[s] + 1)
        <5>1. /\ tap[s].next_seq \in Nat /\ counted[s] + nowhere[s] \in Nat
              /\ Cardinality(Of(channel, s)) \in Nat /\ Len(Held(s)) \in Nat
          BY <1>6, <1>7, OfFinite
        <5> QED
          BY <1>7, <5>1 DEF Account, AccountOf
      <4>2. counted'[s] + nowhere'[s] = counted[s] + nowhere[s] + 1
        <5>1. counted'[s] = counted[s] + 1 /\ nowhere' = nowhere
          BY <1>1, <1>8, <2>4 DEF worker
        <5>2. counted[s] \in Nat /\ nowhere[s] \in Nat
          BY <1>6
        <5> QED
          BY <5>1, <5>2
      <4> QED
        BY <1>7, <2>4, <4>1, <4>2 DEF Account
    <3>2. ASSUME NEW t \in Sessions \ {s} PROVE Account(t)'
      BY <1>1, <1>7, <1>8, <2>4 DEF Account, worker
    <3> QED
      BY <1>4, <1>5, <1>6, <1>8, <2>2, <2>4, <3>1, <3>2 DEF Accounts
  <2>5. CASE /\ ~Full /\ channel' = Append(channel, Session(s))
             /\ tap' = [tap EXCEPT ![s].announced = TRUE] /\ counted' = counted
    <3>1. Session(s) \in Messages /\ Session(s).dto.kind = "session"
      BY DEF Session, Messages, Dto
    <3>2. channel' \in Seq(Messages) /\ Len(channel') <= Capacity
      BY <1>6, <2>5, <3>1, AppendProperties DEF Full
    <3>3. tap' \in TapType
      BY <1>4, <2>5, TapUpdate
    <3>4. ASSUME NEW t \in Sessions PROVE Account(t)'
      <4>1. AccountOf(Held(t), Append(channel, Session(s)), t, tap[t].next_seq, counted[t] + nowhere[t])
        BY <1>6, <1>7, <3>1, SentForAnother DEF Account
      <4>2. tap'[t].next_seq = tap[t].next_seq
        BY <1>4, <2>5 DEF TapType
      <4> QED
        BY <1>1, <1>7, <2>5, <4>1, <4>2 DEF Account, worker
    <3> QED
      BY <1>5, <1>6, <2>2, <2>5, <3>2, <3>3, <3>4 DEF Accounts
  <2> QED
    BY <1>13, <2>3, <2>4, <2>5 DEF Announce
<1> QED
  BY <1>10, <1>11, <1>12, <1>13

\* The retain at the end of flush_all drops no event.
LEMMA SinksAfterVisit ==
  ASSUME NEW after \in [Sessions -> Sinks], todo \subseteq Sessions,
         Visits(after) \/ (\E s \in Sessions : Visited(s, after))
  PROVE  /\ sinks' \in [Sessions -> Sinks]
         /\ \A t \in Sessions : sinks'[t].pending = after[t].pending
         /\ pc' \in {"recv", "flush"}
         /\ todo' \subseteq Sessions
<1>1. /\ sinks' = after \/ sinks' = Retain(after)
      /\ pc' \in {"recv", "flush"} /\ todo' \subseteq Sessions
  BY DEF Visits, Visited
<1>2. NoSink \in Sinks /\ NoSink.pending = <<>>
  BY DEF NoSink, Sinks
<1>3. Retain(after) \in [Sessions -> Sinks]
  BY <1>2 DEF Retain
<1>4. \A t \in Sessions : Retain(after)[t].pending = after[t].pending
  BY <1>2 DEF Retain
<1> QED
  BY <1>1, <1>3, <1>4

\* The sinks after an update of one of them.
WithPending(s, p) == [sinks EXCEPT ![s].pending = p]
WithLast(s, b, p) == [sinks EXCEPT ![s].ended = b, ![s].pending = p]
WithSink(s) == [sinks EXCEPT ![s].there = TRUE]

\* An update of one buffer leaves the others alone.
LEMMA SinkUpdate ==
  ASSUME sinks \in [Sessions -> Sinks], NEW s \in Sessions, NEW p \in Seq(Dtos)
  PROVE  /\ WithPending(s, p) \in [Sessions -> Sinks]
         /\ WithPending(s, p)[s].pending = p
         /\ \A t \in Sessions \ {s} : WithPending(s, p)[t].pending = sinks[t].pending
<1>1. WithPending(s, p) \in [Sessions -> Sinks] /\ WithPending(s, p)[s].pending = p
  BY DEF Sinks, WithPending
<1>2. \A t \in Sessions \ {s} : WithPending(s, p)[t].pending = sinks[t].pending
  BY DEF Sinks, WithPending
<1> QED
  BY <1>1, <1>2

\* The same with the mark for the end of the session.
LEMMA SinkLast ==
  ASSUME sinks \in [Sessions -> Sinks], NEW s \in Sessions, NEW p \in Seq(Dtos), NEW b \in BOOLEAN
  PROVE  /\ WithLast(s, b, p) \in [Sessions -> Sinks]
         /\ WithLast(s, b, p)[s].pending = p
         /\ \A t \in Sessions \ {s} : WithLast(s, b, p)[t].pending = sinks[t].pending
<1>1. WithLast(s, b, p) \in [Sessions -> Sinks] /\ WithLast(s, b, p)[s].pending = p
  BY DEF Sinks, WithLast
<1>2. \A t \in Sessions \ {s} : WithLast(s, b, p)[t].pending = sinks[t].pending
  BY DEF Sinks, WithLast
<1> QED
  BY <1>1, <1>2

\* A new sink leaves all buffers alone.
LEMMA SinkThere ==
  ASSUME sinks \in [Sessions -> Sinks], NEW s \in Sessions
  PROVE  /\ WithSink(s) \in [Sessions -> Sinks]
         /\ \A t \in Sessions : WithSink(s)[t].pending = sinks[t].pending
<1>1. WithSink(s) \in [Sessions -> Sinks]
  BY DEF Sinks, WithSink
<1>2. \A t \in Sessions : WithSink(s)[t].pending = sinks[t].pending
  BY DEF Sinks, WithSink
<1> QED
  BY <1>1, <1>2

\* What the thread holds, of any batch in hand and any buffer.
HeldOf(batch, pending, s) == (IF batch.session = s THEN batch.events ELSE <<>>) \o pending

\* The batch in hand comes before the buffer of its session.
LEMMA HeldOfItself ==
  ASSUME NEW pending \in Seq(Dtos), NEW events \in Seq(Dtos), NEW s
  PROVE  HeldOf([session |-> s, events |-> events], pending, s) = events \o pending
  BY DEF HeldOf

\* The batch in hand is nothing to another session.
LEMMA HeldOfOther ==
  ASSUME NEW pending \in Seq(Dtos), NEW batch, NEW t, batch.session # t
  PROVE  HeldOf(batch, pending, t) = pending
<1>1. <<>> \o pending = pending
  BY ConcatEmptySeq
<1> QED
  BY <1>1 DEF HeldOf

\* What the invariant says of the variables that the thread's steps read.
LEMMA WorkerFacts ==
  ASSUME TypeOK, HandInv, Accounts
  PROVE  /\ channel \in Seq(Messages) /\ Len(channel) \in Nat /\ Len(channel) <= Capacity
         /\ counted \in [Sessions -> Nat] /\ nowhere \in [Sessions -> Nat]
         /\ sinks \in [Sessions -> Sinks] /\ todo \subseteq Sessions
         /\ \A t \in Sessions : sinks[t].pending \in Seq(Dtos)
         /\ \A t \in Sessions : tap[t].next_seq \in Nat
         /\ \A t \in Sessions : counted[t] + nowhere[t] \in Nat
         /\ \A t \in Sessions : Account(t)
         /\ \A t \in Sessions : pc # "post" => Held(t) = sinks[t].pending
<1>1. /\ channel \in Seq(Messages) /\ Len(channel) \in Nat /\ Len(channel) <= Capacity
      /\ counted \in [Sessions -> Nat] /\ nowhere \in [Sessions -> Nat]
      /\ sinks \in [Sessions -> Sinks] /\ todo \subseteq Sessions
  BY DEF TypeOK
<1>2. \A t \in Sessions : tap[t].next_seq \in Nat
  BY DEF TypeOK
<1>3. \A t \in Sessions : sinks[t].pending \in Seq(Dtos)
  BY <1>1 DEF Sinks
<1>4. \A t \in Sessions : pc # "post" => Held(t) = sinks[t].pending
  BY <1>3, HeldType, TypeParts DEF HandInv
<1> QED
  BY <1>1, <1>2, <1>3, <1>4 DEF Accounts

\* A step of the thread keeps the invariant if it keeps types and accounts.
LEMMA WorkerStep ==
  ASSUME TypeOK, HandInv, Accounts, connection' = connection, tap' = tap, outbox' = outbox,
         enabled' \in BOOLEAN, toggles' \in 0 .. MaxToggles,
         channel' \in Seq(Messages), Len(channel') <= Capacity, token' \in BOOLEAN,
         counted' \in [Sessions -> Nat], pc' \in {"recv", "flush", "post", "shutdown", "done"},
         sinks' \in [Sessions -> Sinks], todo' \subseteq Sessions,
         hand' \in [session : Sessions \cup {"none"}, events : Seq(Dtos)],
         waiting' \in BOOLEAN, nowhere' \in [Sessions -> Nat], HandInv',
         \A t \in Sessions :
           AccountOf(HeldOf(hand', sinks'[t].pending, t), channel', t, tap[t].next_seq,
                     counted'[t] + nowhere'[t])
  PROVE  TypeOK' /\ HandInv' /\ Accounts'
<1>1. ASSUME NEW t \in Sessions PROVE Account(t)' /\ Len(sinks'[t].pending) <= MaxPending
  <2>1. Held(t)' = HeldOf(hand', sinks'[t].pending, t)
    BY DEF Held, HeldOf
  <2>2. Account(t)'
    BY <2>1 DEF Account
  <2>3. sinks'[t].pending \in Seq(Dtos) /\ (IF hand'.session = t THEN hand'.events ELSE <<>>) \in Seq(Dtos)
    BY DEF Sinks
  <2>4. /\ Len(HeldOf(hand', sinks'[t].pending, t)) >= Len(sinks'[t].pending)
        /\ Len(HeldOf(hand', sinks'[t].pending, t)) \in Nat /\ Len(sinks'[t].pending) \in Nat
    <3> DEFINE first == IF hand'.session = t THEN hand'.events ELSE <<>>
               last == sinks'[t].pending
    <3>1. first \in Seq(Dtos) /\ last \in Seq(Dtos)
      BY <2>3
    <3>2. HeldOf(hand', last, t) = first \o last
      BY DEF HeldOf
    <3> HIDE DEF first, last
    <3>3. Len(first \o last) = Len(first) + Len(last) /\ Len(first) \in Nat /\ Len(last) \in Nat
      BY <3>1, ConcatProperties
    <3> QED
      BY <3>2, <3>3 DEF last
  <2>5. Len(HeldOf(hand', sinks'[t].pending, t)) <= MaxPending
    BY DEF AccountOf
  <2> QED
    BY <2>2, <2>4, <2>5, CapacityAssumption
<1>2. TypeOK'
  BY <1>1 DEF TypeOK, connection
<1> QED
  BY <1>1, <1>2 DEF Accounts

\* A look at the sinks that takes nothing keeps the accounts.
LEMMA NothingTaken ==
  ASSUME TypeOK, HandInv, Accounts, NEW t \in Sessions, pc # "post", hand' = hand,
         channel' = channel, counted' = counted, nowhere' = nowhere, sinks'[t].pending = sinks[t].pending
  PROVE  AccountOf(HeldOf(hand', sinks'[t].pending, t), channel', t, tap[t].next_seq, counted'[t] + nowhere'[t])
  BY DEF Accounts, Account, Held, HeldOf

\* recv_timeout, with a message or without, keeps the invariant.
LEMMA RecvAccounts ==
  ASSUME TypeOK, HandInv, Accounts, Recv \/ RecvTimeout
  PROVE  TypeOK' /\ HandInv' /\ Accounts'
<1>1. pc = "recv" /\ hand = NoBatch /\ hand' = hand /\ token' = token /\ waiting' = waiting
  BY DEF Recv, RecvTimeout, Working, HandInv
<1>2. /\ connection' = connection /\ tap' = tap /\ outbox' = outbox
      /\ enabled' \in BOOLEAN /\ toggles' \in 0 .. MaxToggles
      /\ hand' \in [session : Sessions \cup {"none"}, events : Seq(Dtos)]
      /\ waiting' \in BOOLEAN /\ token' \in BOOLEAN
  BY <1>1 DEF Recv, RecvTimeout, Working, TypeOK
<1>3. HandInv /\ pc' # "post" => HandInv'
  BY <1>1 DEF HandInv
<1>4. CASE RecvTimeout
  <2>1. /\ sinks' \in [Sessions -> Sinks] /\ pc' \in {"recv", "flush"} /\ todo' \subseteq Sessions
        /\ \A t \in Sessions : sinks'[t].pending = sinks[t].pending
        /\ channel' = channel /\ counted' = counted /\ nowhere' = nowhere
    BY <1>4, WorkerFacts, SinksAfterVisit DEF RecvTimeout
  <2>2. \A t \in Sessions :
          AccountOf(HeldOf(hand', sinks'[t].pending, t), channel', t, tap[t].next_seq, counted'[t] + nowhere'[t])
    BY <1>1, <2>1, NothingTaken
  <2> QED
    BY <1>2, <1>3, <2>1, <2>2, WorkerFacts, WorkerStep
<1>5. CASE Recv
  <2> DEFINE s == Head(channel).session
             dto == Head(channel).dto
             kept == Push(sinks[s].pending, dto)
  <2>1. channel # <<>> /\ channel' = Tail(channel)
    BY <1>5 DEF Recv
  <2>2. Head(channel) \in Messages /\ channel' \in Seq(Messages) /\ Len(channel') <= Capacity
    BY <2>1, WorkerFacts, CapacityAssumption, HeadTailProperties
  <2>3. s \in Sessions /\ (dto.kind # "session" => dto \in Dtos)
    BY <2>2 DEF Messages, Session, Dto
  <2>4. ASSUME NEW t \in Sessions, t # s \/ dto.kind = "session"
        PROVE  AccountOf(sinks[t].pending, channel', t, tap[t].next_seq, counted[t] + nowhere[t])
    <3>1. AccountOf(sinks[t].pending, channel, t, tap[t].next_seq, counted[t] + nowhere[t])
      BY <1>1, WorkerFacts DEF Account
    <3> QED
      BY <2>1, <2>4, <3>1, WorkerFacts, ReceivedForAnother
  <2>5. AccountOf(sinks[s].pending, channel, s, tap[s].next_seq, counted[s] + nowhere[s])
    BY <1>1, <2>3, WorkerFacts DEF Account
  <2>6. ASSUME sinks' \in [Sessions -> Sinks], pc' \in {"recv", "flush"}, todo' \subseteq Sessions,
               counted' \in [Sessions -> Nat], nowhere' \in [Sessions -> Nat],
               \A t \in Sessions :
                 AccountOf(sinks'[t].pending, channel', t, tap[t].next_seq, counted'[t] + nowhere'[t])
        PROVE  TypeOK' /\ HandInv' /\ Accounts'
    <3>1. ASSUME NEW t \in Sessions
          PROVE  HeldOf(hand', sinks'[t].pending, t) = sinks'[t].pending
      <4>1. sinks'[t].pending \in Seq(Dtos)
        BY <2>6 DEF Sinks
      <4> QED
        BY <1>1, <4>1, ConcatEmptySeq DEF HeldOf, NoBatch
    <3> QED
      BY <1>2, <1>3, <2>2, <2>6, <3>1, WorkerStep
  <2> HIDE DEF s, dto, kept
  <2>7. CASE /\ dto.kind = "session" /\ Visits([sinks EXCEPT ![s].there = TRUE])
             /\ UNCHANGED <<counted, nowhere>>
    <3>1. /\ WithSink(s) \in [Sessions -> Sinks]
          /\ \A t \in Sessions : WithSink(s)[t].pending = sinks[t].pending
      BY <2>3, WorkerFacts, SinkThere
    <3>2. /\ sinks' \in [Sessions -> Sinks] /\ pc' \in {"recv", "flush"} /\ todo' \subseteq Sessions
          /\ \A t \in Sessions : sinks'[t].pending = sinks[t].pending
      BY <2>7, <3>1, WorkerFacts, SinksAfterVisit DEF WithSink
    <3> QED
      BY <2>4, <2>6, <2>7, <3>2, WorkerFacts
  <2>8. CASE /\ dto.kind # "session"
             /\ Visits([sinks EXCEPT ![s].ended = @ \/ dto.kind = "session_ended", ![s].pending = kept])
             /\ Counts(s, Len(sinks[s].pending) + 1 - Len(kept))
             /\ UNCHANGED nowhere
    <3> DEFINE b == sinks[s].ended \/ dto.kind = "session_ended"
               after == WithLast(s, b, kept)
               gone == Len(sinks[s].pending) + 1 - Len(kept)
    <3>1. kept \in Seq(Dtos) /\ gone \in Nat
      <4>1. sinks[s].pending \in Seq(Dtos) /\ Len(sinks[s].pending) <= MaxPending
        BY <2>3, HeldType, TypeParts
      <4> QED
        BY <2>3, <2>8, <4>1, PushProperties DEF kept
    <3>2. b \in BOOLEAN
      OBVIOUS
    <3>3. /\ after \in [Sessions -> Sinks] /\ after[s].pending = kept
          /\ \A t \in Sessions \ {s} : after[t].pending = sinks[t].pending
      <4> HIDE DEF b
      <4> QED
        BY <2>3, <3>1, <3>2, WorkerFacts, SinkLast, SMTT(30)
    <3>4. Visits(after)
      BY <2>8 DEF WithLast
    <3> HIDE DEF after
    <3>5. /\ sinks' \in [Sessions -> Sinks] /\ pc' \in {"recv", "flush"} /\ todo' \subseteq Sessions
          /\ sinks'[s].pending = kept
          /\ \A t \in Sessions \ {s} : sinks'[t].pending = sinks[t].pending
      BY <2>3, <3>3, <3>4, WorkerFacts, SinksAfterVisit
    <3>6. /\ counted' \in [Sessions -> Nat] /\ counted'[s] = counted[s] + gone
          /\ \A t \in Sessions \ {s} : counted'[t] = counted[t]
      BY <2>3, <2>8, <3>1, WorkerFacts, SMTT(30) DEF Counts
    <3>7. AccountOf(kept, channel', s, tap[s].next_seq, counted[s] + nowhere[s] + gone)
      BY <2>1, <2>3, <2>5, <2>8, WorkerFacts, ReceivedAndKept DEF kept, s, dto
    <3>8. counted'[s] + nowhere'[s] = counted[s] + nowhere[s] + gone
      <4>1. counted[s] \in Nat /\ nowhere[s] \in Nat
        BY <2>3, WorkerFacts
      <4> HIDE DEF gone
      <4> QED
        BY <2>8, <3>1, <3>6, <4>1
    <3> QED
      BY <2>3, <2>4, <2>6, <2>8, <3>5, <3>6, <3>7, <3>8, WorkerFacts
  <2>9. CASE dto.kind # "session" /\ nowhere' = [nowhere EXCEPT ![s] = @ + 1] /\ Visits(sinks)
             /\ UNCHANGED counted
    <3>1. /\ sinks' \in [Sessions -> Sinks] /\ pc' \in {"recv", "flush"} /\ todo' \subseteq Sessions
          /\ \A t \in Sessions : sinks'[t].pending = sinks[t].pending
      BY <2>9, WorkerFacts, SinksAfterVisit
    <3>2. /\ nowhere' \in [Sessions -> Nat] /\ nowhere'[s] = nowhere[s] + 1
          /\ \A t \in Sessions \ {s} : nowhere'[t] = nowhere[t]
      BY <2>3, <2>9, WorkerFacts
    <3>3. AccountOf(sinks[s].pending, channel', s, tap[s].next_seq, counted[s] + nowhere[s] + 1)
      BY <2>1, <2>3, <2>5, <2>9, WorkerFacts, ReceivedNowhere DEF s, dto
    <3>4. counted'[s] + nowhere'[s] = counted[s] + nowhere[s] + 1
      <4>1. counted[s] \in Nat /\ nowhere[s] \in Nat
        BY <2>3, WorkerFacts
      <4> QED
        BY <2>9, <3>2, <4>1
    <3> QED
      BY <2>3, <2>4, <2>6, <2>9, <3>1, <3>2, <3>3, <3>4, WorkerFacts
  <2> QED
    BY <1>5, <2>7, <2>8, <2>9 DEF Recv, s, dto, kept
<1> QED
  BY <1>4, <1>5

\* A visit of flush_all keeps the invariant: the batch is settled, restored or in hand.
LEMMA FlushAccounts ==
  ASSUME TypeOK, HandInv, Accounts, NEW s \in Sessions, FlushNothing(s) \/ FlushBatch(s)
  PROVE  TypeOK' /\ HandInv' /\ Accounts'
<1> DEFINE pending == sinks[s].pending
           batch == Batch(pending)
           taken == WithPending(s, Rest(pending))
<1>1. pc = "flush" /\ hand = NoBatch /\ token' = token /\ channel' = channel /\ nowhere' = nowhere
  BY DEF FlushNothing, FlushBatch, Working, HandInv
<1>2. /\ connection' = connection /\ tap' = tap /\ outbox' = outbox
      /\ enabled' \in BOOLEAN /\ toggles' \in 0 .. MaxToggles /\ token' \in BOOLEAN
      /\ waiting \in BOOLEAN /\ hand \in [session : Sessions \cup {"none"}, events : Seq(Dtos)]
  BY <1>1 DEF FlushNothing, FlushBatch, Working, TypeOK
<1>3. pc' # "post" /\ hand' = hand => HandInv'
  BY <1>1 DEF HandInv
<1>4. pending \in Seq(Dtos) /\ Rest(pending) \in Seq(Dtos) /\ batch \in Seq(Dtos)
  BY WorkerFacts, BatchProperties
<1>5. /\ taken \in [Sessions -> Sinks] /\ taken[s].pending = Rest(pending)
      /\ \A t \in Sessions \ {s} : taken[t].pending = sinks[t].pending
  BY <1>4, WorkerFacts, SinkUpdate
<1>6. ASSUME NEW t \in Sessions
      PROVE  AccountOf(sinks[t].pending, channel, t, tap[t].next_seq, counted[t] + nowhere[t])
  BY <1>1, WorkerFacts DEF Account
<1>7. ASSUME NEW after \in [Sessions -> Sinks], \A t \in Sessions : after[t].pending = sinks[t].pending,
             Visited(s, after), UNCHANGED <<counted, hand>>, waiting' \in BOOLEAN
      PROVE  TypeOK' /\ HandInv' /\ Accounts'
  <2>1. /\ sinks' \in [Sessions -> Sinks] /\ pc' \in {"recv", "flush"} /\ todo' \subseteq Sessions
        /\ \A t \in Sessions : sinks'[t].pending = sinks[t].pending
    BY <1>7, WorkerFacts, SinksAfterVisit
  <2>2. \A t \in Sessions :
          AccountOf(HeldOf(hand', sinks'[t].pending, t), channel', t, tap[t].next_seq, counted'[t] + nowhere'[t])
    BY <1>1, <1>7, <2>1, NothingTaken
  <2> QED
    BY <1>1, <1>2, <1>3, <1>7, <2>1, <2>2, WorkerFacts, WorkerStep
<1> HIDE DEF batch, taken, pending
<1>8. CASE FlushNothing(s)
  BY <1>2, <1>7, <1>8, WorkerFacts DEF FlushNothing
<1>9. CASE Counts(s, Len(batch)) /\ Visited(s, taken) /\ UNCHANGED <<hand, waiting>>
  <2> DEFINE n == Len(batch)
  <2>0. n = ReadyCount(pending) /\ n \in Nat
    BY <1>4, BatchProperties DEF batch
  <2>1. n \in Nat /\ Len(Rest(pending)) = Len(pending) - n
        /\ \A i \in DOMAIN Rest(pending) : Rest(pending)[i] = pending[i + n]
    <3> HIDE DEF n
    <3> QED
      BY <1>4, <2>0, BatchProperties
  <2>2. /\ sinks' \in [Sessions -> Sinks] /\ pc' \in {"recv", "flush"} /\ todo' \subseteq Sessions
        /\ sinks'[s].pending = Rest(pending)
        /\ \A t \in Sessions \ {s} : sinks'[t].pending = sinks[t].pending
    BY <1>5, <1>9, WorkerFacts, SinksAfterVisit
  <2>3. /\ counted' \in [Sessions -> Nat] /\ counted'[s] = counted[s] + n
        /\ \A t \in Sessions \ {s} : counted'[t] = counted[t]
    BY <1>9, <2>1, WorkerFacts DEF Counts
  <2> HIDE DEF n
  <2>4. AccountOf(Rest(pending), channel, s, tap[s].next_seq, counted[s] + nowhere[s] + n)
    BY <1>4, <1>6, <2>1, WorkerFacts, OldestSettled DEF pending
  <2>5. counted'[s] + nowhere'[s] = counted[s] + nowhere[s] + n
    <3>1. counted[s] \in Nat /\ nowhere[s] \in Nat
      BY WorkerFacts
    <3> QED
      BY <1>1, <2>1, <2>3, <3>1
  <2>6. ASSUME NEW t \in Sessions
        PROVE  AccountOf(HeldOf(hand', sinks'[t].pending, t), channel', t, tap[t].next_seq,
                         counted'[t] + nowhere'[t])
    <3>1. HeldOf(hand', sinks'[t].pending, t) = sinks'[t].pending
      <4>1. sinks'[t].pending \in Seq(Dtos)
        BY <2>2 DEF Sinks
      <4> QED
        BY <1>1, <1>9, <4>1, ConcatEmptySeq DEF HeldOf, NoBatch
    <3> QED
      BY <1>1, <1>6, <2>2, <2>3, <2>4, <2>5, <3>1
  <2> QED
    BY <1>1, <1>2, <1>3, <1>9, <2>2, <2>3, <2>6, WorkerFacts, WorkerStep
<1>10. CASE Visited(s, [taken EXCEPT ![s].pending = Restore(@, batch)]) /\ waiting' = TRUE
            /\ UNCHANGED <<counted, hand>>
  <2> DEFINE after == [taken EXCEPT ![s].pending = Restore(@, batch)]
  <2>1. Restore(Rest(pending), batch) = pending
    BY <1>4, BatchProperties DEF Restore, batch
  <2>2. after = [taken EXCEPT ![s].pending = pending]
    BY <1>5, <2>1
  <2>3. after \in [Sessions -> Sinks] /\ after[s].pending = pending
    BY <1>4, <1>5, <2>2, SMTT(30) DEF Sinks
  <2>4. \A t \in Sessions \ {s} : after[t].pending = sinks[t].pending
    BY <1>5, <2>2
  <2> HIDE DEF after
  <2>5. \A t \in Sessions : after[t].pending = sinks[t].pending
    BY <2>3, <2>4 DEF pending
  <2> QED
    BY <1>7, <1>10, <2>3, <2>5 DEF after
<1>11. CASE sinks' = taken /\ hand' = [session |-> s, events |-> batch] /\ pc' = "post"
            /\ UNCHANGED <<counted, todo, waiting>>
  <2>1. HandInv'
    BY <1>11 DEF HandInv
  <2>2. hand' \in [session : Sessions \cup {"none"}, events : Seq(Dtos)]
    BY <1>4, <1>11
  <2>3. ASSUME NEW t \in Sessions
        PROVE  HeldOf(hand', sinks'[t].pending, t) = sinks[t].pending
    <3>1. CASE t = s
      <4>1. batch \o Rest(pending) = pending
        BY <1>4, BatchProperties DEF batch
      <4>2. HeldOf([session |-> s, events |-> batch], Rest(pending), s) = batch \o Rest(pending)
        BY <1>4, HeldOfItself
      <4> QED
        BY <1>5, <1>11, <3>1, <4>1, <4>2 DEF pending
    <3>2. CASE t # s
      <4>1. sinks[t].pending \in Seq(Dtos)
        BY WorkerFacts
      <4>2. HeldOf([session |-> s, events |-> batch], sinks[t].pending, t) = sinks[t].pending
        <5> DEFINE h == [session |-> s, events |-> batch]
        <5>1. h.session # t
          BY <3>2
        <5> HIDE DEF h
        <5> QED
          BY <4>1, <5>1, HeldOfOther DEF h
      <4> QED
        BY <1>5, <1>11, <3>2, <4>2
    <3> QED
      BY <3>1, <3>2
  <2> QED
    BY <1>1, <1>2, <1>5, <1>6, <1>11, <2>1, <2>2, <2>3, WorkerFacts, WorkerStep
<1> QED
  BY <1>8, <1>9, <1>10, <1>11 DEF FlushBatch, batch, taken, pending, WithPending

\* The answer to a POST keeps the invariant: the batch is settled or restored.
LEMMA PostAccounts ==
  ASSUME TypeOK, HandInv, Accounts, PostAccepted \/ PostDeferred \/ PostRejected
  PROVE  TypeOK' /\ HandInv' /\ Accounts'
<1> DEFINE s == hand.session
           events == hand.events
<1>1. /\ pc = "post" /\ s \in Sessions /\ hand' = NoBatch
      /\ channel' = channel /\ nowhere' = nowhere /\ token' \in BOOLEAN /\ waiting' \in BOOLEAN
  BY DEF PostAccepted, PostDeferred, PostRejected, Answered, Working, HandInv, TypeOK
<1>2. /\ connection' = connection /\ tap' = tap /\ outbox' = outbox
      /\ enabled' \in BOOLEAN /\ toggles' \in 0 .. MaxToggles
  BY DEF PostAccepted, PostDeferred, PostRejected, Answered, Working, TypeOK
<1>3. events \in Seq(Dtos) /\ \A t \in Sessions : sinks[t].pending \in Seq(Dtos)
  BY <1>1, WorkerFacts DEF TypeOK
<1>4. hand = [session |-> s, events |-> events]
  BY DEF TypeOK
<1> HIDE DEF s, events
<1>5. /\ Held(s) = events \o sinks[s].pending
      /\ \A t \in Sessions \ {s} : Held(t) = sinks[t].pending
  <2>1. \A t : Held(t) = HeldOf(hand, sinks[t].pending, t)
    BY DEF Held, HeldOf
  <2> QED
    <3>1. HeldOf(hand, sinks[s].pending, s) = events \o sinks[s].pending
      BY <1>1, <1>3, <1>4, HeldOfItself
    <3>2. ASSUME NEW t \in Sessions \ {s} PROVE HeldOf(hand, sinks[t].pending, t) = sinks[t].pending
      <4>1. hand.session # t
        BY DEF s
      <4> QED
        BY <1>3, <4>1, HeldOfOther
    <3> QED
      BY <2>1, <3>1, <3>2
<1>6. ASSUME sinks' \in [Sessions -> Sinks], pc' \in {"recv", "flush"}, todo' \subseteq Sessions,
             counted' \in [Sessions -> Nat],
             AccountOf(sinks'[s].pending, channel, s, tap[s].next_seq, counted'[s] + nowhere[s]),
             \A t \in Sessions \ {s} : sinks'[t].pending = sinks[t].pending /\ counted'[t] = counted[t]
      PROVE  TypeOK' /\ HandInv' /\ Accounts'
  <2>1. HandInv' /\ hand' \in [session : Sessions \cup {"none"}, events : Seq(Dtos)]
    BY <1>1, <1>6 DEF HandInv, NoBatch
  <2>2. ASSUME NEW t \in Sessions
        PROVE  AccountOf(HeldOf(hand', sinks'[t].pending, t), channel', t, tap[t].next_seq,
                         counted'[t] + nowhere'[t])
    <3>1. HeldOf(hand', sinks'[t].pending, t) = sinks'[t].pending
      <4>1. sinks'[t].pending \in Seq(Dtos)
        BY <1>6 DEF Sinks
      <4> QED
        BY <1>1, <4>1, ConcatEmptySeq DEF HeldOf, NoBatch
    <3>2. t # s => AccountOf(sinks[t].pending, channel, t, tap[t].next_seq, counted[t] + nowhere[t])
      BY <1>5, WorkerFacts DEF Account
    <3> QED
      BY <1>1, <1>6, <3>1, <3>2
  <2> QED
    BY <1>1, <1>2, <1>6, <2>1, <2>2, WorkerFacts, WorkerStep
<1>7. AccountOf(events \o sinks[s].pending, channel, s, tap[s].next_seq, counted[s] + nowhere[s])
  BY <1>1, <1>5, WorkerFacts DEF Account
<1>8. CASE PostAccepted \/ PostRejected
  <2> DEFINE n == Len(events)
             pending == sinks[s].pending
  <2>1. Visited(s, sinks) /\ Counts(s, n)
    BY <1>8 DEF PostAccepted, PostRejected, Answered, s, events
  <2>2. /\ sinks' \in [Sessions -> Sinks] /\ pc' \in {"recv", "flush"} /\ todo' \subseteq Sessions
        /\ \A t \in Sessions : sinks'[t].pending = sinks[t].pending
    BY <1>1, <2>1, WorkerFacts, SinksAfterVisit
  <2>3. n \in Nat /\ pending \in Seq(Dtos) /\ Len(pending) = Len(events \o pending) - n
        /\ events \o pending \in Seq(Dtos)
        /\ \A i \in DOMAIN pending : pending[i] = (events \o pending)[i + n]
    <3>1. pending \in Seq(Dtos) /\ n \in Nat /\ DOMAIN pending = 1 .. Len(pending) /\ Len(pending) \in Nat
      BY <1>1, <1>3
    <3> HIDE DEF pending
    <3>2. /\ events \o pending \in Seq(Dtos) /\ Len(events \o pending) = n + Len(pending)
          /\ \A i \in 1 .. n + Len(pending) :
               (events \o pending)[i] = IF i <= n THEN events[i] ELSE pending[i - n]
      BY <1>3, <3>1, ConcatProperties
    <3> HIDE DEF n
    <3>3. ASSUME NEW i \in DOMAIN pending PROVE pending[i] = (events \o pending)[i + n]
      BY <3>1, <3>2
    <3> QED
      BY <3>1, <3>2, <3>3
  <2>4. /\ counted' \in [Sessions -> Nat] /\ counted'[s] = counted[s] + n
        /\ \A t \in Sessions \ {s} : counted'[t] = counted[t]
    BY <1>1, <2>1, <2>3, WorkerFacts DEF Counts
  <2>5. AccountOf(pending, channel, s, tap[s].next_seq, counted[s] + nowhere[s] + n)
    <3> HIDE DEF n, pending
    <3> QED
      BY <1>1, <1>7, <2>3, WorkerFacts, OldestSettled DEF pending
  <2>6. counted'[s] + nowhere[s] = counted[s] + nowhere[s] + n
    <3>1. counted[s] \in Nat /\ nowhere[s] \in Nat
      BY <1>1, WorkerFacts
    <3> HIDE DEF n
    <3> QED
      BY <2>3, <2>4, <3>1
  <2> QED
    BY <1>1, <1>6, <2>2, <2>4, <2>5, <2>6
<1>9. CASE PostDeferred
  <2> DEFINE p == Restore(sinks[s].pending, events)
             after == WithPending(s, p)
  <2>1. p = events \o sinks[s].pending /\ p \in Seq(Dtos)
    BY <1>1, <1>3, ConcatProperties DEF Restore
  <2>2. Visited(s, after) /\ counted' = counted
    BY <1>9 DEF PostDeferred, Answered, s, events, WithPending
  <2>3. /\ after \in [Sessions -> Sinks] /\ after[s].pending = p
        /\ \A t \in Sessions \ {s} : after[t].pending = sinks[t].pending
    <3> HIDE DEF p
    <3> QED
      BY <1>1, <2>1, WorkerFacts, SinkUpdate
  <2> HIDE DEF after, p
  <2>4. /\ sinks' \in [Sessions -> Sinks] /\ pc' \in {"recv", "flush"} /\ todo' \subseteq Sessions
        /\ sinks'[s].pending = p
        /\ \A t \in Sessions \ {s} : sinks'[t].pending = sinks[t].pending
    BY <1>1, <2>2, <2>3, WorkerFacts, SinksAfterVisit
  <2> QED
    BY <1>1, <1>6, <1>7, <2>1, <2>2, <2>4, WorkerFacts
<1> QED
  BY <1>8, <1>9

\* The last flush keeps the invariant.
LEMMA ShutdownAccounts ==
  ASSUME TypeOK, HandInv, Accounts, NEW s \in Sessions, ShutdownSends(s) \/ ShutdownDrops(s)
  PROVE  TypeOK' /\ HandInv' /\ Accounts'
<1> DEFINE pending == sinks[s].pending
<1>1. /\ pc = "shutdown" /\ hand = NoBatch /\ hand' = hand /\ pc' = pc /\ todo' = todo
      /\ waiting' = waiting /\ channel' = channel /\ nowhere' = nowhere
  BY DEF ShutdownSends, ShutdownDrops, Working, HandInv
<1>2. /\ connection' = connection /\ tap' = tap /\ outbox' = outbox
      /\ enabled' \in BOOLEAN /\ toggles' \in 0 .. MaxToggles /\ token' \in BOOLEAN
      /\ waiting' \in BOOLEAN /\ hand' \in [session : Sessions \cup {"none"}, events : Seq(Dtos)]
  BY <1>1 DEF ShutdownSends, ShutdownDrops, Working, TypeOK
<1>3. HandInv'
  BY <1>1 DEF HandInv
<1>4. pending \in Seq(Dtos)
  BY WorkerFacts
<1> HIDE DEF pending
<1>5. PICK n \in Nat, rest \in Seq(Dtos) :
        /\ Counts(s, n) /\ sinks' = WithPending(s, rest)
        /\ Len(rest) = Len(pending) - n /\ \A i \in DOMAIN rest : rest[i] = pending[i + n]
  <2>1. CASE ShutdownSends(s)
    <3>1. ReadyCount(pending) \in Nat
      BY <1>4, ReadyCountBounds
    <3>2. Counts(s, ReadyCount(pending)) /\ sinks' = WithPending(s, Rest(pending))
      BY <2>1 DEF ShutdownSends, WithPending, pending
    <3> QED
      BY <1>4, <3>1, <3>2, BatchProperties
  <2>2. CASE ShutdownDrops(s)
    <3>1. Counts(s, Len(pending)) /\ sinks' = WithPending(s, <<>>)
      BY <2>2 DEF ShutdownDrops, WithPending, pending
    <3>2. Len(pending) \in Nat /\ <<>> \in Seq(Dtos) /\ Len(<<>>) = Len(pending) - Len(pending)
          /\ DOMAIN <<>> = {}
      BY <1>4
    <3> QED
      BY <3>1, <3>2
  <2> QED
    BY <2>1, <2>2
<1>6. /\ sinks' \in [Sessions -> Sinks] /\ sinks'[s].pending = rest
      /\ \A t \in Sessions \ {s} : sinks'[t].pending = sinks[t].pending
  BY <1>5, WorkerFacts, SinkUpdate
<1>7. /\ counted' \in [Sessions -> Nat] /\ counted'[s] = counted[s] + n
      /\ \A t \in Sessions \ {s} : counted'[t] = counted[t]
  BY <1>5, WorkerFacts DEF Counts
<1>8. ASSUME NEW t \in Sessions
      PROVE  AccountOf(sinks[t].pending, channel, t, tap[t].next_seq, counted[t] + nowhere[t])
  BY <1>1, WorkerFacts DEF Account
<1>9. AccountOf(rest, channel, s, tap[s].next_seq, counted[s] + nowhere[s] + n)
  BY <1>4, <1>5, <1>8, WorkerFacts, OldestSettled DEF pending
<1>10. counted'[s] + nowhere'[s] = counted[s] + nowhere[s] + n
  <2>1. counted[s] \in Nat /\ nowhere[s] \in Nat
    BY WorkerFacts
  <2> QED
    BY <1>1, <1>7, <2>1
<1>11. ASSUME NEW t \in Sessions
       PROVE  AccountOf(HeldOf(hand', sinks'[t].pending, t), channel', t, tap[t].next_seq,
                        counted'[t] + nowhere'[t])
  <2>1. HeldOf(hand', sinks'[t].pending, t) = sinks'[t].pending
    <3>1. sinks'[t].pending \in Seq(Dtos)
      BY <1>6 DEF Sinks
    <3> QED
      BY <1>1, <3>1, ConcatEmptySeq DEF HeldOf, NoBatch
  <2> QED
    BY <1>1, <1>6, <1>7, <1>8, <1>9, <1>10, <2>1
<1> QED
  BY <1>1, <1>2, <1>3, <1>6, <1>7, <1>11, WorkerFacts, WorkerStep

\* Registration, time, the switch and the ends of the thread keep the invariant.
LEMMA QuietAccounts ==
  ASSUME TypeOK, HandInv, Accounts,
         Register \/ ShutdownDone \/ RecvDisconnected \/ ClockPasses \/ Toggle
  PROVE  TypeOK' /\ HandInv' /\ Accounts'
<1>1. /\ channel' = channel /\ counted' = counted /\ sinks' = sinks /\ hand' = hand
      /\ nowhere' = nowhere /\ tap' = tap
  BY DEF Register, ShutdownDone, RecvDisconnected, ClockPasses, Toggle, Working, worker
<1>2. Accounts'
  BY <1>1, NothingUnderWay
<1>3. HandInv'
  BY <1>1 DEF Register, ShutdownDone, RecvDisconnected, ClockPasses, Toggle, Working, worker, HandInv
<1>4. TypeOK'
  <2>1. CASE Toggle
    <3>1. enabled' \in BOOLEAN
      BY <2>1 DEF Toggle, TypeOK
    <3>2. toggles' \in 0 .. MaxToggles
      BY <2>1, BoundAssumption DEF Toggle, TypeOK
    <3> QED
      BY <2>1, <3>1, <3>2 DEF Toggle, worker, connection, TypeOK
  <2>2. CASE Register \/ ShutdownDone \/ RecvDisconnected \/ ClockPasses
    BY <2>2 DEF Register, ShutdownDone, RecvDisconnected, ClockPasses, Working, worker, connection, TypeOK
  <2> QED
    BY <2>1, <2>2
<1> QED
  BY <1>2, <1>3, <1>4

\* The invariant holds at the start.
LEMMA Initially == Init => IInv
<1> SUFFICES ASSUME Init PROVE IInv
  OBVIOUS
<1>1. TypeOK
  <2>1. ConnectionType
    BY BoundAssumption DEF Init, ConnectionType
  <2>2. NoSink \in Sinks /\ NoSink.pending = <<>>
    BY DEF NoSink, Sinks
  <2>3. WorkerType
    <3>1. sinks \in [Sessions -> Sinks] /\ \A s \in Sessions : Len(sinks[s].pending) <= MaxPending
      BY <2>2, CapacityAssumption DEF Init
    <3>2. channel \in Seq(Messages) /\ Len(channel) <= Capacity
      BY CapacityAssumption DEF Init
    <3>3. hand \in [session : Sessions \cup {"none"}, events : Seq(Dtos)]
      BY DEF Init, NoBatch
    <3> QED
      BY <3>1, <3>2, <3>3 DEF Init, WorkerType
  <2> QED
    BY <2>1, <2>3, TypeParts
<1>2. HandInv
  BY DEF Init, HandInv
<1>3. ASSUME NEW t \in Sessions PROVE Account(t)
  <2>1. Held(t) = <<>>
    BY <1>1, HeldType, TypeParts DEF Init, NoSink
  <2>2. Of(channel, t) = {}
    BY DEF Init, Of
  <2>3. tap[t].next_seq = 1 /\ counted[t] = 0 /\ nowhere[t] = 0
    BY DEF Init
  <2> QED
    BY <2>1, <2>2, <2>3, FS_EmptySet, CapacityAssumption DEF Account, AccountOf, Ordered
<1> QED
  BY <1>1, <1>2, <1>3, AccountParts DEF IInv, Accounts

\* Every step keeps the invariant.
LEMMA Inductive == IInv /\ [Next]_vars => IInv'
<1> SUFFICES ASSUME IInv, [Next]_vars PROVE IInv'
  OBVIOUS
<1>1. TypeOK /\ HandInv /\ Accounts
  BY AccountParts DEF IInv
<1>2. TypeOK' /\ HandInv' /\ Accounts'
  <2>1. CASE UNCHANGED vars
    <3>1. Accounts'
      BY <1>1, <2>1, NothingUnderWay DEF vars, worker
    <3>2. TypeOK' /\ HandInv'
      BY <1>1, <2>1 DEF vars, worker, connection, TypeOK, HandInv
    <3> QED
      BY <3>1, <3>2
  <2>2. CASE Next
    BY <1>1, <2>2, ConnectionAccounts, TapAccounts, RecvAccounts, FlushAccounts, PostAccounts,
       ShutdownAccounts, QuietAccounts DEF Next, WorkerSteps
  <2> QED
    BY <2>1, <2>2
<1>3. (Accounts <=> HeldFits /\ InOrder /\ NoLossUncounted)'
  BY AccountParts, PTL
<1> QED
  BY <1>2, <1>3 DEF IInv

\* The state is well-typed; in particular the channel and each buffer keep to
\* CHANNEL_CAPACITY and MAX_PENDING_EVENTS, for any number of sessions and any bounds.
THEOREM TypeCorrect == Spec => []TypeOK
<1> QED
  BY Initially, Inductive, PTL DEF Spec, IInv

\* The numbers of each session rise from the batch in flight to the buffer and the
\* channel, below the tap's next one: retries, overflow and full channels never reorder.
THEOREM NumbersInOrder == Spec => []InOrder
<1> QED
  BY Initially, Inductive, PTL DEF Spec, IInv

\* Of every session, the events that its tap numbered are at most those sent or
\* dropped as the settings count them, those that found no sink, and those under way.
THEOREM NothingLostUncounted == Spec => []NoLossUncounted
<1> QED
  BY Initially, Inductive, PTL DEF Spec, IInv
=============================================================================
