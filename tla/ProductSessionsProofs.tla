------------------------ MODULE ProductSessionsProofs ------------------------
EXTENDS ProductSessions, FiniteSetTheorems, SequenceTheorems, WellFoundedInduction, TLAPS

(***************************************************************************)
(* What the application shows of three products is carried to it by events *)
(* that are handled long after they were sent, so none of the properties   *)
(* is inductive by itself.  The invariant IInv speaks of the events under  *)
(* way: a worker that waits for the login page has the page, or a request  *)
(* for it among its events; what an idle worker sent ends in Disconnected  *)
(* (Settles), however many of the events are handled and whatever the user *)
(* did in between; an account that is proved is an account; a catalogue    *)
(* belongs to an account; and the queue holds licensed products once.      *)
(***************************************************************************)

-----------------------------------------------------------------------------
(* Retained, which connect_queue and ALL are made with.                    *)

\* The order of the natural numbers as a relation, and that it is well-founded.
Less == {pair \in Nat \X Nat : pair[1] < pair[2]}

LEMMA LessWellFounded == IsWellFoundedOn(Less, Nat)
  BY Zenon, NatLessThanWellFounded DEF OpToRel, Less

\* A non-empty set of numbers has a least one.
LEMMA LeastNumber ==
  ASSUME NEW S \in SUBSET Nat, S # {}
  PROVE  \E x \in S : \A y \in S : x <= y
<1>1. PICK x \in S : \A y \in S : ~(<<y, x>> \in Less)
  BY LessWellFounded, WFMin
<1>2. ASSUME NEW y \in S
      PROVE  x <= y
  <2>1. <<y, x>> \in Nat \X Nat /\ <<y, x>>[1] = y /\ <<y, x>>[2] = x
    OBVIOUS
  <2> QED
    BY <1>1, <2>1 DEF Less
<1> QED
  BY <1>2

\* Among finitely many numbers there is one with n - 1 others below it: the
\* first m up to which n of them have been counted.
LEMMA PlaceExists ==
  ASSUME NEW top \in Nat, NEW kept \in SUBSET (1 .. top), NEW n \in 1 .. Cardinality(kept)
  PROVE  \E i \in kept : Cardinality({j \in kept : j < i}) = n - 1
<1> DEFINE UpTo(m) == {j \in kept : j <= m}
           reached == {m \in 0 .. top : Cardinality(UpTo(m)) >= n}
<1>0. IsFiniteSet(kept) /\ Cardinality(kept) \in Nat
  <2>1. IsFiniteSet(1 .. top)
    BY FS_Interval, top \in Int, 1 \in Int
  <2>2. IsFiniteSet(kept)
    BY <2>1, FS_Subset
  <2> QED
    BY <2>2, FS_CardinalityType
<1>1. ASSUME NEW m \in Nat
      PROVE  IsFiniteSet(UpTo(m)) /\ Cardinality(UpTo(m)) \in Nat
  <2>1. UpTo(m) \in SUBSET kept
    OBVIOUS
  <2> HIDE DEF UpTo
  <2>2. IsFiniteSet(UpTo(m))
    BY <1>0, <2>1, FS_Subset
  <2> QED
    BY <2>2, FS_CardinalityType
<1>2. \A j \in kept : j \in Nat /\ 1 <= j /\ j <= top
  OBVIOUS
<1>3. top \in reached
  <2>1. UpTo(top) = kept
    BY <1>2
  <2> QED
    BY <1>0, <2>1
<1>4. PICK m \in reached : \A k \in reached : m <= k
  <2>1. reached \in SUBSET Nat /\ reached # {}
    BY <1>3
  <2> HIDE DEF reached
  <2> QED
    BY <2>1, LeastNumber
<1>5. m \in 0 .. top /\ Cardinality(UpTo(m)) >= n
  OBVIOUS
<1>6. m # 0
  <2>1. UpTo(0) = {}
    <3>1. \A j \in kept : ~(j <= 0)
      BY <1>2
    <3> QED
      BY <3>1
  <2>2. Cardinality(UpTo(0)) = 0
    BY <2>1, FS_EmptySet
  <2> HIDE DEF UpTo
  <2> QED
    BY <1>5, <2>2
<1>7. PICK k \in 0 .. top : m = k + 1
  <2>1. m - 1 \in 0 .. top /\ m = (m - 1) + 1
    BY <1>5, <1>6
  <2> QED
    BY <2>1
<1>8. Cardinality(UpTo(k)) \in Nat /\ Cardinality(UpTo(k)) < n /\ IsFiniteSet(UpTo(k))
  <2>1. Cardinality(UpTo(k)) \in Nat /\ IsFiniteSet(UpTo(k))
    BY <1>1
  <2>2. k \notin reached
    BY <1>4, <1>7
  <2>3. ~(Cardinality(UpTo(k)) >= n)
    BY <2>2
  <2> HIDE DEF UpTo, reached
  <2> QED
    BY <2>1, <2>3
<1>9. m \in kept
  <2>1. ASSUME m \notin kept PROVE FALSE
    <3>1. UpTo(m) = UpTo(k)
      <4>1. \A j \in kept : j <= k + 1 <=> j <= k
        BY <1>2, <1>7, <2>1
      <4> QED
        BY <1>7, <4>1
    <3> HIDE DEF UpTo, reached
    <3> QED
      BY <1>5, <1>8, <3>1
  <2> QED
    BY <2>1
<1>10. UpTo(m) = UpTo(k) \cup {m} /\ m \notin UpTo(k)
  <2>1. \A j \in kept : j <= k + 1 <=> j <= k \/ j = m
    BY <1>2, <1>7
  <2>2. ~(m <= k)
    BY <1>7
  <2> QED
    BY <1>7, <1>9, <2>1, <2>2
<1>11. {j \in kept : j < m} = UpTo(k)
  <2>1. \A j \in kept : j < k + 1 <=> j <= k
    BY <1>2
  <2> QED
    BY <1>7, <2>1
<1> HIDE DEF UpTo, reached
<1>12. Cardinality(UpTo(m)) = Cardinality(UpTo(k)) + 1
  BY <1>8, <1>10, FS_AddElement
<1>13. Cardinality(UpTo(k)) = n - 1
  BY <1>5, <1>8, <1>12
<1> QED
  BY <1>9, <1>11, <1>13

\* What Retained keeps: members of the queue that are wanted, and each place once.
LEMMA RetainedProperties ==
  ASSUME NEW S, NEW queue \in Seq(S), NEW wanted
  PROVE  LET kept == Retained(queue, wanted)
         IN /\ kept \in Seq(S)
            /\ \A i \in DOMAIN kept : kept[i] \in wanted /\ \E k \in DOMAIN queue : queue[k] = kept[i]
            /\ (\A i, j \in DOMAIN queue : i # j => queue[i] # queue[j])
                 => \A i, j \in DOMAIN kept : i # j => kept[i] # kept[j]
<1> DEFINE places == {i \in DOMAIN queue : queue[i] \in wanted}
           below(i) == Cardinality({j \in places : j < i})
           place(n) == CHOOSE i \in places : below(i) = n - 1
           count == Cardinality(places)
           kept == [n \in 1 .. count |-> queue[place(n)]]
<1>1. Len(queue) \in Nat /\ DOMAIN queue = 1 .. Len(queue) /\ places \in SUBSET (1 .. Len(queue))
  OBVIOUS
<1>2. count \in Nat
  <2>1. IsFiniteSet(1 .. Len(queue))
    BY <1>1, FS_Interval, 1 \in Int, Len(queue) \in Int
  <2>2. IsFiniteSet(places)
    BY <1>1, <2>1, FS_Subset
  <2> QED
    BY <2>2, FS_CardinalityType
<1>3. \A n \in 1 .. count : \E i \in places : below(i) = n - 1
  BY <1>1, PlaceExists
<1>4. kept = Retained(queue, wanted)
  BY DEF Retained
<1> HIDE DEF below, count
<1>5. \A n \in 1 .. count : place(n) \in places /\ below(place(n)) = n - 1
  BY <1>3
<1> HIDE DEF place
<1>6. \A n \in 1 .. count : queue[place(n)] \in S /\ queue[place(n)] \in wanted /\ place(n) \in DOMAIN queue
  BY <1>1, <1>5
<1>7. kept \in Seq(S) /\ DOMAIN kept = 1 .. count
  BY <1>2, <1>6, SeqDef
<1>8. \A i, j \in 1 .. count : i # j => place(i) # place(j)
  BY <1>5
<1>9. \A i \in DOMAIN kept : kept[i] = queue[place(i)]
  BY <1>7
<1> HIDE DEF kept
<1>10. \A i \in DOMAIN kept : kept[i] \in wanted /\ \E k \in DOMAIN queue : queue[k] = kept[i]
  BY <1>6, <1>7, <1>9
<1>11. (\A i, j \in DOMAIN queue : i # j => queue[i] # queue[j])
         => \A i, j \in DOMAIN kept : i # j => kept[i] # kept[j]
  BY <1>6, <1>7, <1>8, <1>9
<1> QED
  BY <1>4, <1>7, <1>10, <1>11

\* The products in the order in which they are connected, each once.
LEMMA AllProperties ==
  /\ ALL \in Seq(Products)
  /\ \A i, j \in DOMAIN ALL : i # j => ALL[i] # ALL[j]
<1> DEFINE order == <<"S2", "S1", "W3">>
<1>1. order \in Seq({"S2", "S1", "W3"}) /\ \A i, j \in DOMAIN order : i # j => order[i] # order[j]
  OBVIOUS
<1> HIDE DEF order
<1>2. /\ ALL \in Seq({"S2", "S1", "W3"})
      /\ \A i \in DOMAIN ALL : ALL[i] \in Products
      /\ \A i, j \in DOMAIN ALL : i # j => ALL[i] # ALL[j]
  <2>1. ALL = Retained(order, Products)
    BY DEF ALL, order
  <2> QED
    BY <1>1, <2>1, RetainedProperties
<1>3. ALL \in Seq(Products)
  BY <1>2, SeqDef
<1> QED
  BY <1>2, <1>3

-----------------------------------------------------------------------------
(* The events a worker sends, whatever the state around them.              *)

\* What every event has, whoever sends it.
LEMMA EventKinds ==
  /\ \A stage \in Stages : Stage(stage) \in Events /\ Stage(stage).kind = "Stage"
  /\ Event("Authentication") \in Events /\ Event("Error") \in Events
  /\ \A p \in Products : Credential(p) \in Events
  /\ \A account \in Accounts : Account(account, FALSE, {}) \in Events
  /\ \A account \in Accounts, games \in Catalogues : Account(account, TRUE, games) \in Events
  /\ \A e \in Events : e.kind = "Stage" => e.stage \in Stages /\ e = Stage(e.stage)
  /\ \A e \in Events : e.kind = "Account" =>
       e.account \in Accounts /\ e.listed \in BOOLEAN /\ e.games \in SUBSET Products
<1>1. ASSUME NEW e \in Events, e.kind = "Stage"
      PROVE  e.stage \in Stages /\ e = Stage(e.stage)
  BY <1>1 DEF Events, Stage, Event, Credential, Account
<1>2. ASSUME NEW e \in Events, e.kind = "Account"
      PROVE  e.account \in Accounts /\ e.listed \in BOOLEAN /\ e.games \in SUBSET Products
  <2>1. PICK account \in Accounts, listed \in BOOLEAN, games \in Catalogues \cup {{}} :
          e = Account(account, listed, games)
    BY <1>2 DEF Events, Stage, Event, Credential
  <2> QED
    BY <2>1, CatalogueAssumption DEF Account
<1>3. /\ \A stage \in Stages : Stage(stage) \in Events /\ Stage(stage).kind = "Stage"
      /\ Event("Authentication") \in Events /\ Event("Error") \in Events
      /\ \A p \in Products : Credential(p) \in Events
  BY DEF Events, Stage
<1>4. ASSUME NEW account \in Accounts, NEW listed \in BOOLEAN, NEW games \in Catalogues \cup {{}}
      PROVE  Account(account, listed, games) \in Events
  <2> DEFINE all == {Account(a, l, g) : a \in Accounts, l \in BOOLEAN, g \in Catalogues \cup {{}}}
  <2>1. Account(account, listed, games) \in all
    OBVIOUS
  <2>2. all \subseteq Events
    BY DEF Events
  <2> QED
    BY <2>1, <2>2
<1>5. \A account \in Accounts : Account(account, FALSE, {}) \in Events
  BY <1>4
<1>6. \A account \in Accounts, games \in Catalogues : Account(account, TRUE, games) \in Events
  BY <1>4
<1> QED
  BY <1>1, <1>2, <1>3, <1>5, <1>6

\* A request for the login page is among the events.
Asks(evs) == \E i \in DOMAIN evs : evs[i].kind = "Authentication"
\* A stage among the events is Disconnected.
Closing(e) == e.kind = "Stage" => e.stage = "Disconnected"
Quiet(evs) == \A i \in DOMAIN evs : Closing(evs[i])
\* The events end in Disconnected.
Closes(evs) == evs # <<>> /\ evs[Len(evs)] = Stage("Disconnected")
\* Shown as stage, and with evs still to handle, a product ends up disconnected.
Settles(stage, evs) ==
  /\ stage # "Disconnected" => \E j \in DOMAIN evs : evs[j] = Stage("Disconnected")
  /\ \A i \in DOMAIN evs : Closing(evs[i]) \/ \E j \in DOMAIN evs : i < j /\ evs[j] = Stage("Disconnected")

\* Where the members of two sequences are in the two put together.
LEMMA ConcatPlaces ==
  ASSUME NEW S, NEW a \in Seq(S), NEW b \in Seq(S)
  PROVE  /\ a \o b \in Seq(S) /\ Len(a) \in Nat /\ Len(b) \in Nat
         /\ Len(a \o b) = Len(a) + Len(b)
         /\ DOMAIN (a \o b) = 1 .. Len(a) + Len(b)
         /\ \A i \in 1 .. Len(a) : (a \o b)[i] = a[i]
         /\ \A i \in 1 .. Len(b) : (a \o b)[Len(a) + i] = b[i]
  BY ConcatProperties

\* Short sequences of what has the type.
LEMMA Pair ==
  ASSUME NEW S, NEW a \in S, NEW b \in S
  PROVE  <<a>> \in Seq(S) /\ <<a, b>> \in Seq(S)
  OBVIOUS

\* Sending more events withdraws no request for the page.
LEMMA AsksMore ==
  ASSUME NEW evs \in Seq(Events), NEW sent \in Seq(Events), Asks(evs) \/ Asks(sent)
  PROVE  Asks(evs \o sent)
<1>1. /\ Len(evs \o sent) = Len(evs) + Len(sent) /\ evs \o sent \in Seq(Events)
      /\ \A i \in 1 .. Len(evs) : (evs \o sent)[i] = evs[i]
      /\ \A i \in 1 .. Len(sent) : (evs \o sent)[Len(evs) + i] = sent[i]
  BY ConcatProperties
<1>2. CASE Asks(evs)
  <2>1. PICK i \in 1 .. Len(evs) : evs[i].kind = "Authentication"
    BY <1>2 DEF Asks
  <2>2. i \in 1 .. Len(evs \o sent) /\ (evs \o sent)[i].kind = "Authentication"
    BY <1>1, <2>1
  <2> QED
    BY <1>1, <2>2 DEF Asks
<1>3. CASE Asks(sent)
  <2>1. PICK i \in 1 .. Len(sent) : sent[i].kind = "Authentication"
    BY <1>3 DEF Asks
  <2>2. Len(evs) + i \in 1 .. Len(evs \o sent) /\ (evs \o sent)[Len(evs) + i].kind = "Authentication"
    BY <1>1, <2>1
  <2> QED
    BY <1>1, <2>2 DEF Asks
<1> QED
  BY <1>2, <1>3

\* Handling an event that is no request leaves the requests behind it.
LEMMA AsksStill ==
  ASSUME NEW evs \in Seq(Events), evs # <<>>, Asks(evs), Head(evs).kind # "Authentication"
  PROVE  Asks(Tail(evs))
<1>1. PICK i \in 1 .. Len(evs) : evs[i].kind = "Authentication"
  BY DEF Asks
<1>2. i # 1
  BY <1>1
<1>3. Tail(evs) \in Seq(Events) /\ Len(Tail(evs)) = Len(evs) - 1 /\ i - 1 \in 1 .. Len(Tail(evs))
      /\ Tail(evs)[i - 1] = evs[i]
  BY <1>1, <1>2, HeadTailProperties
<1>4. i - 1 \in DOMAIN Tail(evs) /\ Tail(evs)[i - 1].kind = "Authentication"
  BY <1>1, <1>3
<1> QED
  BY <1>4 DEF Asks

\* Events sent after the others settle a product if they close it.
LEMMA SettlesMore ==
  ASSUME NEW stage, NEW evs \in Seq(Events), NEW sent \in Seq(Events),
         Closes(sent) \/ (Settles(stage, evs) /\ Quiet(sent))
  PROVE  Settles(stage, evs \o sent)
<1> DEFINE all == evs \o sent
<1>1. /\ Len(all) = Len(evs) + Len(sent) /\ all \in Seq(Events) /\ Len(evs) \in Nat /\ Len(sent) \in Nat
      /\ \A i \in 1 .. Len(evs) : all[i] = evs[i]
      /\ \A i \in 1 .. Len(sent) : all[Len(evs) + i] = sent[i]
  BY ConcatProperties
<1>2. DOMAIN all = 1 .. Len(all) /\ DOMAIN evs = 1 .. Len(evs) /\ DOMAIN sent = 1 .. Len(sent)
  BY <1>1
<1> HIDE DEF all
<1>3. CASE Closes(sent)
  <2>1. Len(all) \in DOMAIN all /\ all[Len(all)] = Stage("Disconnected")
    BY <1>1, <1>2, <1>3 DEF Closes
  <2>2. \A i \in DOMAIN all : i < Len(all) \/ i = Len(all)
    BY <1>1, <1>2
  <2>3. Closing(Stage("Disconnected"))
    BY DEF Closing, Stage
  <2> QED
    BY <2>1, <2>2, <2>3 DEF Settles, all
<1>4. CASE Settles(stage, evs) /\ Quiet(sent)
  <2>1. \A j \in DOMAIN evs : j \in DOMAIN all /\ all[j] = evs[j]
    BY <1>1, <1>2
  <2>2. ASSUME NEW i \in DOMAIN all
        PROVE  Closing(all[i]) \/ \E j \in DOMAIN all : i < j /\ all[j] = Stage("Disconnected")
    <3>1. CASE i \in DOMAIN evs
      BY <1>4, <2>1, <3>1 DEF Settles
    <3>2. CASE i \notin DOMAIN evs
      <4>1. i - Len(evs) \in DOMAIN sent /\ all[i] = sent[i - Len(evs)]
        BY <1>1, <1>2, <3>2
      <4> QED
        BY <1>4, <4>1 DEF Quiet
    <3> QED
      BY <3>1, <3>2
  <2> QED
    BY <1>4, <2>1, <2>2 DEF Settles, all
<1> QED
  BY <1>3, <1>4

\* An event is handled: a stage is shown as it is, unless it was ignored.
LEMMA SettlesStill ==
  ASSUME NEW stage, NEW next, NEW evs \in Seq(Events), evs # <<>>, Settles(stage, evs),
         next \in {stage, "Disconnected"} \/ Head(evs).kind = "Stage",
         Head(evs) = Stage("Disconnected") => next = "Disconnected"
  PROVE  Settles(next, Tail(evs))
<1> DEFINE rest == Tail(evs)
<1>1. /\ rest \in Seq(Events) /\ Len(rest) = Len(evs) - 1 /\ Len(evs) \in Nat \ {0}
      /\ \A i \in 1 .. Len(rest) : rest[i] = evs[i + 1]
      /\ Head(evs) = evs[1]
  BY HeadTailProperties
<1>2. DOMAIN rest = 1 .. Len(rest) /\ DOMAIN evs = 1 .. Len(evs) /\ 1 \in DOMAIN evs
  BY <1>1
<1> HIDE DEF rest
<1>3. \A j \in DOMAIN evs : j > 1 => j - 1 \in DOMAIN rest /\ rest[j - 1] = evs[j]
  BY <1>1, <1>2
<1>4. ASSUME NEW i \in DOMAIN rest
      PROVE  Closing(rest[i]) \/ \E j \in DOMAIN rest : i < j /\ rest[j] = Stage("Disconnected")
  <2>1. i + 1 \in DOMAIN evs /\ rest[i] = evs[i + 1]
    BY <1>1, <1>2
  <2>2. CASE Closing(evs[i + 1])
    BY <2>1, <2>2
  <2>3. CASE ~Closing(evs[i + 1])
    <3>1. PICK j \in DOMAIN evs : i + 1 < j /\ evs[j] = Stage("Disconnected")
      BY <2>1, <2>3 DEF Settles
    <3>2. j > 1 /\ i < j - 1
      BY <1>2, <3>1
    <3> QED
      BY <1>3, <3>1, <3>2
  <2> QED
    BY <2>2, <2>3
<1>5. ASSUME next # "Disconnected"
      PROVE  \E j \in DOMAIN rest : rest[j] = Stage("Disconnected")
  <2>1. evs[1] # Stage("Disconnected")
    BY <1>1, <1>5
  <2>2. \E j \in DOMAIN evs : j > 1 /\ evs[j] = Stage("Disconnected")
    <3>1. CASE next = stage
      <4>1. PICK j \in DOMAIN evs : evs[j] = Stage("Disconnected")
        BY <1>5, <3>1 DEF Settles
      <4> QED
        BY <1>2, <2>1, <4>1
    <3>2. CASE Head(evs).kind = "Stage"
      <4>1. ~Closing(evs[1])
        <5>1. evs[1] \in Events /\ evs[1].kind = "Stage"
          BY <1>1, <1>2, <3>2
        <5> QED
          BY <2>1, <5>1, EventKinds DEF Closing
      <4> QED
        BY <1>2, <4>1 DEF Settles
    <3> QED
      BY <1>5, <3>1, <3>2
  <2> QED
    BY <1>3, <2>2
<1> QED
  BY <1>4, <1>5 DEF Settles, rest

-----------------------------------------------------------------------------
(* The inductive invariant.                                                *)

\* The workers and their channels.
WorkersType ==
  /\ phase \in [Products -> Phases]
  /\ expected \in [Products -> MaybeAccount]
  /\ identity \in [Products -> MaybeAccount]
  /\ tries \in [Products -> 0 .. MaxTries]
  /\ reply \in [Products -> Accounts \cup {None, "waiting", "err"}]
  /\ commands \in [Products -> Seq(Commands)]
  /\ events \in [Products -> Seq(Events)]

\* What the application shows and knows, its queue and the login page.
ViewType ==
  /\ session \in [Products -> Sessions]
  /\ authoritative \in MaybeAccount
  /\ provisioned \subseteq Products
  /\ connectQueue \in Seq(Products)
  /\ connecting \in Products \cup {None}
  /\ page \in Products \cup {None}
  /\ warning \in {None, "open", "closing"}

\* The title bar, the timers and the count of presses.
BarType ==
  /\ focused \in Products
  /\ refreshing \in BOOLEAN
  /\ severing \in BOOLEAN
  /\ due \in BOOLEAN
  /\ actions \in 0 .. MaxActions

\* A worker whose account is proved has one.
Proved == \A p \in Products : phase[p] = "up" => identity[p] \in Accounts

\* Products are licensed to an account.
Licensed == provisioned # {} => authoritative # NoAccount

\* What an idle worker sent ends with Disconnected, however much is handled.
LastWord ==
  \A p \in Products \ {"S1"} : phase[p] = "idle" => Settles(session[p].stage, events[p])

\* All that the four theorems need, and the steps keep.
IInv ==
  /\ SystemTypeOK
  /\ Proved
  /\ Licensed
  /\ NobodyWaitsUnseen
  /\ LastWord
  /\ QueueSound

\* The type invariant in the three parts the steps disturb.
LEMMA TypeParts == SystemTypeOK <=> WorkersType /\ ViewType /\ BarType
  BY DEF SystemTypeOK, WorkersType, ViewType, BarType

-----------------------------------------------------------------------------
(* What the steps of a worker have in common.                              *)

\* The workers of the other products stay as they are.
Others(p) ==
  \A q \in Products \ {p} :
    phase'[q] = phase[q] /\ identity'[q] = identity[q] /\ reply'[q] = reply[q] /\ events'[q] = events[q]

\* What a step of the worker of p leaves: sent is added to its events.
Outcome(p, sent) ==
  /\ WorkersType'
  /\ events'[p] = events[p] \o sent
  /\ Others(p)
  /\ phase'[p] = "up" => identity'[p] \in Accounts
  /\ reply'[p] = "waiting" => reply[p] = "waiting" \/ Asks(sent)
  /\ phase'[p] = "idle" /\ p # "S1" => Closes(sent) \/ (phase[p] = "idle" /\ Quiet(sent))
  /\ UNCHANGED <<view, bar, due>>

\* The event queues keep their type when events are sent.
LEMMA EmitType ==
  ASSUME WorkersType, NEW p \in Products, NEW sent \in Seq(Events), Emit(p, sent)
  PROVE  /\ events' \in [Products -> Seq(Events)]
         /\ events'[p] = events[p] \o sent
         /\ \A q \in Products \ {p} : events'[q] = events[q]
<1>1. events[p] \o sent \in Seq(Events)
  BY ConcatProperties DEF WorkersType
<1> QED
  BY <1>1 DEF Emit, WorkersType

\* The phases keep their type when one worker changes its own.
LEMMA BecomesType ==
  ASSUME WorkersType, NEW p \in Products, NEW next \in Phases, Becomes(p, next)
  PROVE  /\ phase' \in [Products -> Phases] /\ phase'[p] = next
         /\ \A q \in Products \ {p} : phase'[q] = phase[q]
  BY DEF Becomes, WorkersType

\* The fields of an attempt keep their types when a worker sets them.
LEMMA AttemptType ==
  ASSUME WorkersType, NEW p \in Products, NEW wanted \in MaybeAccount, NEW who \in MaybeAccount,
         NEW n \in 0 .. MaxTries, Attempt(p, wanted, who, n)
  PROVE  /\ expected' \in [Products -> MaybeAccount]
         /\ identity' \in [Products -> MaybeAccount]
         /\ tries' \in [Products -> 0 .. MaxTries]
         /\ identity'[p] = who
         /\ \A q \in Products \ {p} : identity'[q] = identity[q]
  BY DEF Attempt, WorkersType

\* The command queues keep their type when a command is taken.
LEMMA TailType ==
  ASSUME WorkersType, NEW p \in Products, commands[p] # <<>>
  PROVE  /\ [commands EXCEPT ![p] = Tail(@)] \in [Products -> Seq(Commands)]
         /\ Head(commands[p]) \in Commands
<1>1. commands[p] \in Seq(Commands)
  BY DEF WorkersType
<1>2. Head(commands[p]) \in Commands /\ Tail(commands[p]) \in Seq(Commands)
  BY <1>1, HeadTailProperties
<1> QED
  BY <1>2 DEF WorkersType

\* The sequences that the workers send.
LEMMA SentTypes ==
  /\ <<>> \in Seq(Events) /\ Quiet(<<>>)
  /\ Failure \in Seq(Events) /\ Closes(Failure)
  /\ <<Event("Error")>> \in Seq(Events) /\ Quiet(<<Event("Error")>>)
  /\ \A stage \in Stages : <<Stage(stage)>> \in Seq(Events)
  /\ Closes(<<Stage("Disconnected")>>)
  /\ \A evs \in Seq(Events) : evs \o <<Stage("Disconnected")>> \in Seq(Events)
                               /\ Closes(evs \o <<Stage("Disconnected")>>)
  /\ \A evs \in Seq(Events) : evs \o Failure \in Seq(Events) /\ Closes(evs \o Failure)
<1>1. Event("Error") \in Events /\ \A stage \in Stages : Stage(stage) \in Events
  BY EventKinds
<1>2. Closing(Event("Error"))
  BY DEF Closing, Event
<1>3. "Disconnected" \in Stages
  BY DEF Stages
<1>4. Failure \in Seq(Events) /\ Len(Failure) = 2 /\ Failure[2] = Stage("Disconnected") /\ Failure # <<>>
  BY <1>1, <1>3 DEF Failure
<1>5. ASSUME NEW evs \in Seq(Events)
      PROVE  /\ evs \o <<Stage("Disconnected")>> \in Seq(Events)
             /\ Closes(evs \o <<Stage("Disconnected")>>)
  <2> DEFINE last == <<Stage("Disconnected")>>
  <2>1. last \in Seq(Events) /\ Len(last) = 1 /\ last[1] = Stage("Disconnected") /\ 1 \in 1 .. Len(last)
    BY <1>1, <1>3
  <2> HIDE DEF last
  <2>2. /\ evs \o last \in Seq(Events) /\ Len(evs \o last) = Len(evs) + 1
        /\ (evs \o last)[Len(evs) + 1] = last[1]
    <3>1. /\ evs \o last \in Seq(Events)
          /\ Len(evs \o last) = Len(evs) + Len(last)
          /\ \A i \in 1 .. Len(last) : (evs \o last)[Len(evs) + i] = last[i]
      <4>1. last \in Seq(Events)
        BY <2>1
      <4> QED
        BY <4>1, ConcatPlaces
    <3> QED
      BY <2>1, <3>1
  <2>3. evs \o last # <<>>
    BY <2>2
  <2> QED
    BY <2>1, <2>2, <2>3 DEF Closes, last
<1>6. ASSUME NEW evs \in Seq(Events)
      PROVE  evs \o Failure \in Seq(Events) /\ Closes(evs \o Failure)
  <2>2. /\ evs \o Failure \in Seq(Events) /\ Len(evs \o Failure) = Len(evs) + 2
        /\ (evs \o Failure)[Len(evs) + 2] = Failure[2]
    <3>1. Failure \in Seq(Events)
      BY <1>4
    <3>2. /\ evs \o Failure \in Seq(Events)
          /\ Len(evs \o Failure) = Len(evs) + Len(Failure)
          /\ \A i \in 1 .. Len(Failure) : (evs \o Failure)[Len(evs) + i] = Failure[i]
      BY <3>1, ConcatPlaces
    <3> QED
      BY <1>4, <3>2
  <2>3. evs \o Failure # <<>>
    BY <2>2
  <2> QED
    BY <1>4, <2>2, <2>3 DEF Closes
<1>7. Closes(<<Stage("Disconnected")>>)
  BY DEF Closes
<1>8. <<>> \in Seq(Events) /\ Quiet(<<>>) /\ <<Event("Error")>> \in Seq(Events) /\ Quiet(<<Event("Error")>>)
  BY <1>1, <1>2 DEF Quiet
<1>9. Closes(Failure) /\ \A stage \in Stages : <<Stage(stage)>> \in Seq(Events)
  BY <1>1, <1>4 DEF Closes
<1> QED
  BY <1>4, <1>5, <1>6, <1>7, <1>8, <1>9

\* A step that ends, starts or carries on an attempt, and sends.
LEMMA AttemptOutcome ==
  ASSUME WorkersType, NEW p \in Products, NEW sent \in Seq(Events), NEW next \in Phases,
         NEW wanted \in MaybeAccount, NEW who \in MaybeAccount, NEW n \in 0 .. MaxTries,
         Becomes(p, next), Attempt(p, wanted, who, n), Emit(p, sent),
         commands' \in [Products -> Seq(Commands)],
         reply' \in [Products -> Accounts \cup {None, "waiting", "err"}],
         \A q \in Products \ {p} : reply'[q] = reply[q],
         reply'[p] = "waiting" => reply[p] = "waiting" \/ Asks(sent),
         next = "up" => who \in Accounts,
         next = "idle" /\ p # "S1" => Closes(sent),
         UNCHANGED <<view, bar, due>>
  PROVE  Outcome(p, sent)
<1>1. WorkersType'
  BY EmitType, BecomesType, AttemptType DEF WorkersType
<1>2. Others(p)
  BY EmitType, BecomesType, AttemptType DEF Others
<1> QED
  BY <1>1, <1>2, EmitType, BecomesType, AttemptType DEF Outcome

\* A step outside an attempt, which sends.
LEMMA StaysOutcome ==
  ASSUME WorkersType, Proved, NEW p \in Products, NEW sent \in Seq(Events), Quiet(sent) \/ Closes(sent),
         workers' = workers, Emit(p, sent), commands' \in [Products -> Seq(Commands)],
         UNCHANGED <<view, bar, due>>
  PROVE  Outcome(p, sent)
<1>1. WorkersType'
  BY EmitType DEF WorkersType, workers
<1>2. Others(p)
  BY EmitType DEF Others, workers
<1> QED
  BY <1>1, <1>2, EmitType DEF Outcome, workers, Proved

\* A step that carries on an attempt and sends nothing.
LEMMA ContinuesOutcome ==
  ASSUME WorkersType, NEW p \in Products, NEW next \in Phases \ {"up", "idle"},
         Continues(p, next), Emit(p, <<>>), commands' \in [Products -> Seq(Commands)],
         reply' \in [Products -> Accounts \cup {None, "waiting", "err"}],
         \A q \in Products \ {p} : reply'[q] = reply[q],
         reply'[p] = "waiting" => reply[p] = "waiting",
         UNCHANGED <<view, bar, due>>
  PROVE  \E sent \in Seq(Events) : Outcome(p, sent)
<1>1. PICK sent \in Seq(Events) : sent = <<>>
  BY SentTypes
<1>2. Becomes(p, next) /\ UNCHANGED <<expected, identity, tries>> /\ Emit(p, sent)
  BY <1>1 DEF Continues
<1>3. WorkersType'
  BY <1>2, EmitType, BecomesType DEF WorkersType
<1>4. Others(p)
  BY <1>2, EmitType, BecomesType DEF Others
<1>5. Outcome(p, sent)
  BY <1>2, <1>3, <1>4, EmitType, BecomesType DEF Outcome
<1> QED
  BY <1>5

\* The authority's and a classic product's sign-in.
LEMMA SignsInOutcome ==
  ASSUME WorkersType, NEW p \in Products, NEW account \in Accounts, SignsIn(p, account),
         commands' \in [Products -> Seq(Commands)],
         reply' \in [Products -> Accounts \cup {None, "waiting", "err"}],
         \A q \in Products \ {p} : reply'[q] = reply[q],
         reply'[p] = "waiting" => reply[p] = "waiting",
         UNCHANGED <<view, bar, due>>
  PROVE  \E sent \in Seq(Events) : Outcome(p, sent)
<1>0. /\ Becomes(p, "up") /\ Attempt(p, expected[p], account, tries[p])
      /\ "up" \in Phases /\ expected[p] \in MaybeAccount /\ account \in MaybeAccount
      /\ tries[p] \in 0 .. MaxTries /\ "up" # "idle" /\ "GameUtilities" \in Stages
  BY DEF SignsIn, WorkersType, Phases, MaybeAccount, Stages
<1>1. PICK sent \in Seq(Events) : Emit(p, sent)
  <2>1. Stage("GameUtilities") \in Events /\ <<Stage("GameUtilities")>> \in Seq(Events)
    BY <1>0, EventKinds, SentTypes
  <2>2. CASE p = "S2"
    <3>1. CASE Emit(p, <<Account(account, FALSE, {}), Stage("GameUtilities")>>)
      <4>1. <<Account(account, FALSE, {}), Stage("GameUtilities")>> \in Seq(Events)
        BY <2>1, EventKinds, Pair
      <4> QED
        BY <3>1, <4>1
    <3>2. CASE \E games \in Catalogues :
                 LET minted == Retained(ALL, games \ {"S2"})
                 IN Emit(p, [i \in DOMAIN minted |-> Credential(minted[i])]
                              \o <<Account(account, TRUE, games), Stage("GameUtilities")>>)
      <4>1. PICK games \in Catalogues :
               LET minted == Retained(ALL, games \ {"S2"})
               IN Emit(p, [i \in DOMAIN minted |-> Credential(minted[i])]
                            \o <<Account(account, TRUE, games), Stage("GameUtilities")>>)
        BY <3>2
      <4> DEFINE minted == Retained(ALL, games \ {"S2"})
                 first == [i \in DOMAIN minted |-> Credential(minted[i])]
                 last == <<Account(account, TRUE, games), Stage("GameUtilities")>>
      <4>2. minted \in Seq(Products)
        BY AllProperties, RetainedProperties
      <4> HIDE DEF minted
      <4>3. first \in Seq(Events)
        <5>1. Len(minted) \in Nat /\ DOMAIN minted = 1 .. Len(minted)
          BY <4>2
        <5>2. \A i \in 1 .. Len(minted) : Credential(minted[i]) \in Events
          BY <4>2, EventKinds
        <5>3. first \in [1 .. Len(minted) -> Events]
          BY <5>1, <5>2
        <5> QED
          BY <5>1, <5>3, SeqDef
      <4>4. last \in Seq(Events)
        BY <2>1, EventKinds, Pair
      <4> HIDE DEF first, last
      <4>5. first \o last \in Seq(Events)
        BY <4>3, <4>4, ConcatPlaces
      <4> QED
        BY <4>1, <4>5 DEF minted, first, last
    <3> QED
      BY <2>2, <3>1, <3>2 DEF SignsIn
  <2>3. CASE p # "S2"
    BY <2>1, <2>3 DEF SignsIn
  <2> QED
    BY <2>2, <2>3
<1>2. Outcome(p, sent)
  BY <1>0, <1>1, AttemptOutcome
<1> QED
  BY <1>2

\* Every step of a worker.
LEMMA WorkerOutcome ==
  ASSUME WorkersType, Proved, NEW p \in Products, WorkerSteps(p) \/ WorkerLost(p)
  PROVE  \E sent \in Seq(Events) : Outcome(p, sent)
<1>1. /\ {"idle", "signing", "asking", "up", "live"} \subseteq Phases
      /\ {"Disconnected", "WebAuthentication", "GameUtilities", "Connected"} \subseteq Stages
      /\ NoAccount \in MaybeAccount /\ 0 \in 0 .. MaxTries
  BY BoundAssumption DEF Phases, Stages, MaybeAccount
<1>2. /\ reply \in [Products -> Accounts \cup {None, "waiting", "err"}]
      /\ commands \in [Products -> Seq(Commands)]
      /\ expected[p] \in MaybeAccount /\ identity[p] \in MaybeAccount /\ tries[p] \in 0 .. MaxTries
  BY DEF WorkersType
<1>3. ASSUME NEW sent \in Seq(Events), Idles(p), Emit(p, sent), p # "S1" => Closes(sent),
             commands' \in [Products -> Seq(Commands)],
             reply' \in [Products -> Accounts \cup {None, "waiting", "err"}],
             \A q \in Products \ {p} : reply'[q] = reply[q],
             reply'[p] = "waiting" => reply[p] = "waiting",
             UNCHANGED <<view, bar, due>>
      PROVE  \E s \in Seq(Events) : Outcome(p, s)
  <2>1. Outcome(p, sent)
    BY <1>1, <1>3, AttemptOutcome DEF Idles
  <2> QED
    BY <2>1
<1>4. CASE WorkerConnect(p)
  <2>1. /\ commands' \in [Products -> Seq(Commands)] /\ Head(commands[p]).account \in MaybeAccount
        /\ reply' = reply /\ UNCHANGED <<view, bar, due>>
    <3>1. Head(commands[p]) \in Commands /\ [commands EXCEPT ![p] = Tail(@)] \in [Products -> Seq(Commands)]
      BY <1>4, TailType DEF WorkerConnect
    <3>2. Head(commands[p]).account \in MaybeAccount
      BY <3>1, <1>1 DEF Commands, Connect, Plain
    <3> QED
      BY <1>4, <3>1, <3>2 DEF WorkerConnect
  <2>2. CASE /\ Becomes(p, "signing") /\ Attempt(p, Head(commands[p]).account, NoAccount, 0)
             /\ Emit(p, <<Stage("WebAuthentication")>>)
    <3>1. Outcome(p, <<Stage("WebAuthentication")>>)
      BY <1>1, <1>2, <2>1, <2>2, SentTypes, AttemptOutcome
    <3> QED
      BY <1>1, <3>1, SentTypes
  <2>3. CASE Idles(p) /\ Emit(p, Failure)
    BY <1>2, <1>3, <2>1, <2>3, SentTypes
  <2> QED
    BY <1>4, <2>2, <2>3 DEF WorkerConnect
<1>5. CASE WorkerIdleCommand(p)
  <2>1. /\ commands' \in [Products -> Seq(Commands)] /\ workers' = workers /\ UNCHANGED <<view, bar, due>>
    BY <1>5, TailType DEF WorkerIdleCommand, workers
  <2>2. PICK sent \in Seq(Events) : Emit(p, sent) /\ (Quiet(sent) \/ Closes(sent))
    <3>1. CASE Emit(p, <<>>) \/ Emit(p, <<Event("Error")>>)
      BY <3>1, SentTypes
    <3>2. CASE \E failed \in {<<>>, <<Event("Error")>>} : Emit(p, failed \o <<Stage("Disconnected")>>)
      BY <3>2, SentTypes
    <3> QED
      BY <1>5, <3>1, <3>2 DEF WorkerIdleCommand
  <2>3. Outcome(p, sent)
    BY <2>1, <2>2, StaysOutcome
  <2> QED
    BY <2>3
<1>6. CASE WorkerAsks(p)
  <2> DEFINE sent == (IF tries[p] > 0 THEN <<Stage("WebAuthentication")>> ELSE <<>>)
                       \o <<Event("Authentication")>>
  <2>1. sent \in Seq(Events) /\ Asks(sent)
    <3>1. /\ <<Event("Authentication")>> \in Seq(Events) /\ Asks(<<Event("Authentication")>>)
          /\ (IF tries[p] > 0 THEN <<Stage("WebAuthentication")>> ELSE <<>>) \in Seq(Events)
      BY <1>1, EventKinds, SentTypes DEF Asks, Event
    <3> QED
      BY <3>1, AsksMore, ConcatPlaces
  <2>2. tries[p] + 1 \in 0 .. MaxTries
    BY <1>2, <1>6, BoundAssumption DEF WorkerAsks
  <2>3. /\ Becomes(p, "asking") /\ Attempt(p, expected[p], identity[p], tries[p] + 1) /\ Emit(p, sent)
        /\ commands' = commands /\ UNCHANGED <<view, bar, due>>
        /\ reply' = [reply EXCEPT ![p] = "waiting"]
    BY <1>6 DEF WorkerAsks
  <2> HIDE DEF sent
  <2>4. Outcome(p, sent)
    BY <1>1, <1>2, <2>1, <2>2, <2>3, AttemptOutcome
  <2> QED
    BY <2>1, <2>4
<1>7. CASE WorkerSignsIn(p)
  BY <1>2, <1>7, SignsInOutcome DEF WorkerSignsIn
<1>8. CASE WorkerAnswered(p)
  <2>1. /\ commands' \in [Products -> Seq(Commands)] /\ UNCHANGED <<view, bar, due>>
        /\ reply' \in [Products -> Accounts \cup {None, "waiting", "err"}]
        /\ reply'[p] = None /\ \A q \in Products \ {p} : reply'[q] = reply[q]
        /\ None # "waiting"
    BY <1>2, <1>8 DEF WorkerAnswered, None
  <2>2. CASE reply[p] \in Accounts /\ SignsIn(p, reply[p])
    BY <2>1, <2>2, SignsInOutcome
  <2>3. CASE Continues(p, "signing") /\ Emit(p, <<>>)
    <3>1. "signing" \in Phases \ {"up", "idle"}
      BY DEF Phases
    <3> QED
      BY <2>1, <2>3, <3>1, ContinuesOutcome
  <2>4. CASE Idles(p) /\ Emit(p, Failure)
    BY <1>3, <2>1, <2>4, SentTypes
  <2> QED
    BY <1>8, <2>2, <2>3, <2>4 DEF WorkerAnswered
<1>9. CASE WorkerComesUp(p)
  <2> DEFINE published == IF p = "S2" THEN <<>> ELSE <<Account(identity[p], FALSE, {})>>
  <2>1. published \in Seq(Events)
    <3>1. identity[p] \in Accounts
      BY <1>9 DEF WorkerComesUp, Proved
    <3>2. Account(identity[p], FALSE, {}) \in Events
      BY <3>1, EventKinds
    <3>3. <<Account(identity[p], FALSE, {})>> \in Seq(Events)
      BY <3>2, Pair
    <3> QED
      BY <3>3, SentTypes
  <2>2. commands' = commands /\ reply' = reply /\ UNCHANGED <<view, bar, due>>
    BY <1>9 DEF WorkerComesUp
  <2>3. \/ /\ Becomes(p, "live") /\ Attempt(p, NoAccount, NoAccount, 0)
           /\ Emit(p, published \o <<Stage("Connected")>>)
        \/ Idles(p) /\ Emit(p, published \o Failure)
    BY <1>9 DEF WorkerComesUp
  <2> HIDE DEF published
  <2>4. CASE /\ Becomes(p, "live") /\ Attempt(p, NoAccount, NoAccount, 0)
             /\ Emit(p, published \o <<Stage("Connected")>>)
    <3>1. <<Stage("Connected")>> \in Seq(Events)
      BY <1>1, SentTypes
    <3>2. published \o <<Stage("Connected")>> \in Seq(Events)
      BY <2>1, <3>1, ConcatPlaces
    <3>3. Outcome(p, published \o <<Stage("Connected")>>)
      BY <1>1, <1>2, <2>2, <2>4, <3>2, AttemptOutcome
    <3> QED
      BY <3>2, <3>3
  <2>5. CASE Idles(p) /\ Emit(p, published \o Failure)
    BY <1>2, <1>3, <2>1, <2>2, <2>5, SentTypes
  <2> QED
    BY <2>3, <2>4, <2>5
<1>10. CASE WorkerRestarts(p)
  <2>1. tries[p] + 1 \in 0 .. MaxTries
    BY <1>2, <1>10, BoundAssumption DEF WorkerRestarts
  <2>2. Outcome(p, <<Stage("WebAuthentication")>>)
    BY <1>1, <1>2, <1>10, <2>1, SentTypes, AttemptOutcome DEF WorkerRestarts
  <2> QED
    BY <1>1, <2>2, SentTypes
<1>11. CASE WorkerBringUpFails(p)
  BY <1>2, <1>3, <1>11, SentTypes DEF WorkerBringUpFails
<1>12. CASE WorkerDisconnects(p)
  <2>1. /\ commands' \in [Products -> Seq(Commands)] /\ reply' = reply /\ Idles(p)
        /\ UNCHANGED <<view, bar, due>>
    BY <1>12, TailType DEF WorkerDisconnects
  <2>2. PICK sent \in Seq(Events) : Emit(p, sent) /\ (p # "S1" => Closes(sent))
    <3>1. CASE Emit(p, IF p = "S1" THEN <<>> ELSE <<Stage("Disconnected")>>)
      BY <1>1, <3>1, SentTypes
    <3>2. CASE Emit(p, Failure)
      BY <3>2, SentTypes
    <3> QED
      BY <1>12, <3>1, <3>2 DEF WorkerDisconnects
  <2> QED
    BY <1>2, <1>3, <2>1, <2>2
<1>13. CASE WorkerLiveCommand(p)
  <2>1. /\ commands' \in [Products -> Seq(Commands)] /\ reply' = reply
        /\ UNCHANGED <<view, bar, due>>
    BY <1>13, TailType DEF WorkerLiveCommand
  <2>2. CASE Continues(p, "live") /\ Emit(p, <<>>)
    <3>1. "live" \in Phases \ {"up", "idle"}
      BY DEF Phases
    <3> QED
      BY <1>2, <2>1, <2>2, <3>1, ContinuesOutcome
  <2>3. CASE Idles(p) /\ \E sent \in {<<Stage("Disconnected")>>, Failure} : Emit(p, sent)
    BY <1>1, <1>2, <1>3, <2>1, <2>3, SentTypes
  <2> QED
    BY <1>13, <2>2, <2>3 DEF WorkerLiveCommand
<1>14. CASE WorkerLost(p)
  BY <1>2, <1>3, <1>14, SentTypes DEF WorkerLost
<1> QED
  BY <1>4, <1>5, <1>6, <1>7, <1>8, <1>9, <1>10, <1>11, <1>12, <1>13, <1>14 DEF WorkerSteps

-----------------------------------------------------------------------------
(* The steps of the workers keep the invariant.                            *)

\* A step of a worker keeps the invariant: what it leaves to the
\* application is what the invariant promises of a worker of its phase.
LEMMA WorkersKeep ==
  ASSUME IInv, NEW p \in Products, WorkerSteps(p) \/ WorkerLost(p)
  PROVE  IInv'
<1>0. WorkersType /\ ViewType /\ BarType /\ Proved
  BY TypeParts DEF IInv
<1>1. PICK sent \in Seq(Events) : Outcome(p, sent)
  BY <1>0, WorkerOutcome
<1>2. /\ WorkersType' /\ Others(p) /\ events'[p] = events[p] \o sent
      /\ view' = view /\ bar' = bar /\ due' = due
  BY <1>1 DEF Outcome
<1>3. events[p] \in Seq(Events)
  BY <1>0 DEF WorkersType
<1>4. SystemTypeOK'
  <2>1. ViewType' /\ BarType'
    BY <1>0, <1>2 DEF ViewType, BarType, view, bar
  <2> QED
    BY <1>2, <2>1, TypeParts, PTL
<1>5. Proved'
  BY <1>0, <1>1, <1>2 DEF Proved, Outcome, Others
<1>6. Licensed' /\ QueueSound'
  BY <1>2 DEF IInv, Licensed, QueueSound, view
<1>7. NobodyWaitsUnseen'
  <2>1. ASSUME NEW q \in Products, reply'[q] = "waiting"
        PROVE  page' = q \/ Asks(events'[q])
    <3>1. CASE q = p
      <4>1. reply[p] = "waiting" \/ Asks(sent)
        BY <1>1, <2>1, <3>1 DEF Outcome
      <4>2. CASE Asks(sent)
        BY <1>2, <1>3, <3>1, <4>2, AsksMore
      <4>3. CASE reply[p] = "waiting"
        <5>1. page = p \/ Asks(events[p])
          BY <4>3 DEF IInv, NobodyWaitsUnseen, Asks
        <5> QED
          BY <1>2, <1>3, <3>1, <5>1, AsksMore DEF view
      <4> QED
        BY <4>1, <4>2, <4>3
    <3>2. CASE q # p
      BY <1>2, <2>1, <3>2 DEF IInv, NobodyWaitsUnseen, Asks, Others, view
    <3> QED
      BY <3>1, <3>2
  <2> QED
    BY <2>1 DEF NobodyWaitsUnseen, Asks
<1>8. LastWord'
  <2>1. ASSUME NEW q \in Products \ {"S1"}, phase'[q] = "idle"
        PROVE  Settles(session'[q].stage, events'[q])
    <3>1. session' = session
      BY <1>2 DEF view
    <3>2. CASE q = p
      <4>1. Closes(sent) \/ (phase[p] = "idle" /\ Quiet(sent))
        BY <1>1, <2>1, <3>2 DEF Outcome
      <4>2. phase[p] = "idle" => Settles(session[p].stage, events[p])
        BY <3>2 DEF IInv, LastWord
      <4>3. Settles(session[p].stage, events[p] \o sent)
        BY <1>3, <4>1, <4>2, SettlesMore
      <4> QED
        BY <1>2, <3>1, <3>2, <4>3
    <3>3. CASE q # p
      BY <1>2, <2>1, <3>1, <3>3 DEF IInv, LastWord, Others
    <3> QED
      BY <3>2, <3>3
  <2> QED
    BY <2>1 DEF LastWord
<1> QED
  BY <1>4, <1>5, <1>6, <1>7, <1>8 DEF IInv

-----------------------------------------------------------------------------
(* The steps of the application: what each has to show.                    *)

\* Nobody's wait is forgotten by a change of the page and the replies.
Answered == \A q \in Products : reply'[q] = "waiting" => reply[q] = "waiting" /\ (page = q => page' = q)

\* No product is shown as anything new but disconnected.
Shown(q) == session'[q].stage \in {session[q].stage, "Disconnected"}

\* A step that handles no event.
LEMMA ActKeeps ==
  ASSUME IInv, UNCHANGED <<phase, expected, identity, tries, events>>,
         reply' \in [Products -> Accounts \cup {None, "waiting", "err"}],
         commands' \in [Products -> Seq(Commands)],
         ViewType', BarType', Licensed', QueueSound', Answered, \A q \in Products : Shown(q)
  PROVE  IInv'
<1>1. WorkersType'
  BY TypeParts DEF IInv, WorkersType
<1>2. SystemTypeOK'
  BY <1>1, TypeParts, PTL
<1>3. Proved'
  BY DEF IInv, Proved
<1>4. NobodyWaitsUnseen'
  BY DEF IInv, NobodyWaitsUnseen, Answered
<1>5. LastWord'
  <2>1. ASSUME NEW q \in Products \ {"S1"}, phase'[q] = "idle"
        PROVE  Settles(session'[q].stage, events'[q])
    <3>1. Settles(session[q].stage, events[q])
      BY <2>1 DEF IInv, LastWord
    <3>2. session'[q].stage \in {session[q].stage, "Disconnected"}
      BY DEF Shown
    <3> QED
      BY <3>1, <3>2 DEF Settles
  <2> QED
    BY <2>1 DEF LastWord
<1> QED
  BY <1>2, <1>3, <1>4, <1>5 DEF IInv

\* A step that handles one event of p.
LEMMA HandledKeeps ==
  ASSUME IInv, NEW p \in Products, NEW kind, Received(p, kind),
         reply' \in [Products -> Accounts \cup {None, "waiting", "err"}],
         commands' \in [Products -> Seq(Commands)],
         ViewType', Licensed', QueueSound',
         \/ Answered /\ kind # "Authentication"
         \/ \A q \in Products : reply'[q] = "waiting" => page' = q \/ (q # p /\ page # q /\ reply[q] = "waiting"),
         \A q \in Products \ {p} : Shown(q),
         Shown(p) \/ kind = "Stage",
         Head(events[p]) = Stage("Disconnected") => session'[p].stage = "Disconnected"
  PROVE  IInv'
<1>0. WorkersType /\ BarType
  BY TypeParts DEF IInv
<1>1. /\ events[p] # <<>> /\ Head(events[p]).kind = kind
      /\ events' = [events EXCEPT ![p] = Tail(@)]
      /\ due' = TRUE /\ phase' = phase /\ expected' = expected /\ identity' = identity /\ tries' = tries
      /\ bar' = bar
  BY DEF Received
<1>2. events \in [Products -> Seq(Events)] /\ events[p] \in Seq(Events)
  BY <1>0 DEF WorkersType
<1>3. /\ events' \in [Products -> Seq(Events)] /\ events'[p] = Tail(events[p])
      /\ \A q \in Products \ {p} : events'[q] = events[q]
  BY <1>1, <1>2, HeadTailProperties
<1>4. WorkersType' /\ BarType'
  BY <1>0, <1>1, <1>3 DEF WorkersType, BarType, bar
<1>5. SystemTypeOK'
  BY <1>4, TypeParts, PTL
<1>6. Proved'
  BY <1>1 DEF IInv, Proved
<1>7. NobodyWaitsUnseen'
  <2>1. ASSUME NEW q \in Products, reply'[q] = "waiting"
        PROVE  page' = q \/ Asks(events'[q])
    <3>1. reply[q] = "waiting" => page = q \/ Asks(events[q])
      BY DEF IInv, NobodyWaitsUnseen, Asks
    <3>2. CASE Answered /\ kind # "Authentication"
      <4>1. page' = q \/ Asks(events[q])
        BY <2>1, <3>1, <3>2 DEF Answered
      <4>2. Asks(events[p]) => Asks(events'[p])
        BY <1>1, <1>2, <1>3, <3>2, AsksStill
      <4> QED
        BY <1>3, <4>1, <4>2
    <3>3. CASE page' = q \/ (q # p /\ page # q /\ reply[q] = "waiting")
      BY <1>3, <3>1, <3>3
    <3> QED
      BY <2>1, <3>2, <3>3
  <2> QED
    BY <2>1 DEF NobodyWaitsUnseen, Asks
<1>8. LastWord'
  <2>1. ASSUME NEW q \in Products \ {"S1"}, phase'[q] = "idle"
        PROVE  Settles(session'[q].stage, events'[q])
    <3>1. Settles(session[q].stage, events[q])
      BY <1>1, <2>1 DEF IInv, LastWord
    <3>2. CASE q = p
      <4>1. session'[p].stage \in {session[p].stage, "Disconnected"} \/ Head(events[p]).kind = "Stage"
        BY <1>1 DEF Shown
      <4>2. Settles(session'[p].stage, Tail(events[p]))
        BY <1>1, <1>2, <3>1, <3>2, <4>1, SettlesStill
      <4> QED
        BY <1>3, <3>2, <4>2
    <3>3. CASE q # p
      <4>1. session'[q].stage \in {session[q].stage, "Disconnected"} /\ events'[q] = events[q]
        BY <1>3, <3>3 DEF Shown
      <4> QED
        BY <3>1, <4>1 DEF Settles
    <3> QED
      BY <3>2, <3>3
  <2> QED
    BY <2>1 DEF LastWord
<1> QED
  BY <1>5, <1>6, <1>7, <1>8 DEF IInv

\* A command is sent.
LEMMA SendType ==
  ASSUME WorkersType, NEW p \in Products, NEW command \in Commands, Send(p, command)
  PROVE  commands' \in [Products -> Seq(Commands)]
<1>1. Append(commands[p], command) \in Seq(Commands)
  BY AppendProperties DEF WorkersType
<1> QED
  BY <1>1 DEF Send, WorkersType

\* The commands that are sent have their type.
LEMMA CommandTypes ==
  /\ \A account \in MaybeAccount : Connect(account) \in Commands
  /\ Plain("Disconnect") \in Commands /\ Plain("SignOut") \in Commands
  /\ Plain("InstallCredential") \in Commands
  BY DEF Commands

\* The page is closed, and who waited for it is answered.
LEMMA DismissAnswers ==
  ASSUME WorkersType, ViewType, Dismiss
  PROVE  /\ reply' \in [Products -> Accounts \cup {None, "waiting", "err"}]
         /\ page' = None /\ page' \in Products \cup {None}
         /\ Answered
<1>1. reply \in [Products -> Accounts \cup {None, "waiting", "err"}] /\ page \in Products \cup {None}
  BY DEF WorkersType, ViewType
<1>2. page' = None /\ reply' = IF page = None THEN reply ELSE [reply EXCEPT ![page] = "err"]
  BY DEF Dismiss, DismissedReplies
<1>3. None \notin Products
  BY ProductAssumption DEF None
<1>4. CASE page = None
  BY <1>1, <1>2, <1>3, <1>4 DEF Answered
<1>5. CASE page # None
  <2>1. page \in Products /\ reply' = [reply EXCEPT ![page] = "err"]
    BY <1>1, <1>2, <1>5
  <2>2. reply'[page] = "err" /\ \A q \in Products \ {page} : reply'[q] = reply[q]
    BY <1>1, <2>1
  <2> QED
    BY <1>1, <1>2, <2>1, <2>2 DEF Answered
<1> QED
  BY <1>4, <1>5

\* What a session has, and the changes made to it.
LEMMA SessionFields ==
  ASSUME NEW s \in Sessions
  PROVE  /\ s.stage \in Stages /\ s.account \in MaybeAccount
         /\ s.error \in BOOLEAN /\ s.gate \in BOOLEAN /\ s.starting \in BOOLEAN
  BY DEF Sessions

\* begin_attempt.
LEMMA SessionAttempt ==
  ASSUME NEW s \in Sessions
  PROVE  BeginAttempt(s) \in Sessions /\ BeginAttempt(s).stage = s.stage
  BY DEF Sessions, BeginAttempt

\* A stage is shown.
LEMMA SessionStage ==
  ASSUME NEW s \in Sessions, NEW stage \in Stages, NEW error \in BOOLEAN
  PROVE  /\ [s EXCEPT !.stage = stage, !.starting = FALSE, !.error = error] \in Sessions
         /\ [s EXCEPT !.stage = stage, !.starting = FALSE, !.error = error].stage = stage
  BY DEF Sessions

\* An account is shown.
LEMMA SessionAccount ==
  ASSUME NEW s \in Sessions, NEW account \in MaybeAccount
  PROVE  [s EXCEPT !.account = account] \in Sessions /\ [s EXCEPT !.account = account].stage = s.stage
  BY DEF Sessions

\* A failure is shown.
LEMMA SessionError ==
  ASSUME NEW s \in Sessions
  PROVE  /\ [s EXCEPT !.error = TRUE, !.starting = FALSE] \in Sessions
         /\ [s EXCEPT !.error = TRUE, !.starting = FALSE].stage = s.stage
  BY DEF Sessions

\* A cancelled attempt.
LEMMA SessionCancelled ==
  ASSUME NEW s \in Sessions
  PROVE  /\ [s EXCEPT !.starting = FALSE, !.error = FALSE, !.stage = "Disconnected"] \in Sessions
         /\ [s EXCEPT !.starting = FALSE, !.error = FALSE, !.stage = "Disconnected"].stage = "Disconnected"
  BY DEF Sessions, Stages

\* A session whose account is refreshed.
LEMMA SessionRefreshed ==
  ASSUME NEW s \in Sessions, NEW starting \in BOOLEAN
  PROVE  LET new == [s EXCEPT !.account = NoAccount, !.error = FALSE, !.stage = "Disconnected",
                              !.starting = starting]
         IN new \in Sessions /\ new.stage = "Disconnected"
  BY DEF Sessions, Stages, MaybeAccount

\* A session that is signed out.
LEMMA SessionSignedOut ==
  ASSUME NEW s \in Sessions
  PROVE  LET new == [s EXCEPT !.account = NoAccount, !.gate = TRUE, !.starting = FALSE,
                              !.error = FALSE, !.stage = "Disconnected"]
         IN new \in Sessions /\ new.stage = "Disconnected"
  BY DEF Sessions, Stages, MaybeAccount

-----------------------------------------------------------------------------
(* The events handled.                                                     *)

\* adopt_authoritative_account: the queue stays sound under a new catalogue.
LEMMA AdoptSound ==
  ASSUME ViewType, QueueSound, NEW account \in Accounts, NEW games \in SUBSET Products, Adopt(account, games)
  PROVE  /\ authoritative' \in MaybeAccount /\ provisioned' \subseteq Products
         /\ connectQueue' \in Seq(Products) /\ connecting' \in Products \cup {None}
         /\ Licensed' /\ QueueSound'
<1> DEFINE kept == Retained(connectQueue, games)
           joining == {p \in games \ {"S2", connecting} :
                         /\ \A i \in DOMAIN kept : kept[i] # p
                         /\ session[p].stage = "Disconnected"
                         /\ ~session[p].error}
           joined == Retained(ALL, joining)
<1>1. /\ authoritative' = account /\ provisioned' = games
      /\ connecting' = (IF connecting \in games THEN connecting ELSE None)
      /\ connectQueue' = kept \o joined
  BY DEF Adopt
<1>2. /\ connectQueue \in Seq(Products) /\ connecting \in Products \cup {None}
      /\ \A i, j \in DOMAIN connectQueue : i # j => connectQueue[i] # connectQueue[j]
      /\ \A i \in DOMAIN connectQueue : connectQueue[i] \in provisioned \ {"S2", connecting}
  BY DEF ViewType, QueueSound
<1>3. /\ kept \in Seq(Products)
      /\ \A i \in DOMAIN kept : kept[i] \in games /\ \E k \in DOMAIN connectQueue : connectQueue[k] = kept[i]
      /\ \A i, j \in DOMAIN kept : i # j => kept[i] # kept[j]
  BY <1>2, RetainedProperties
<1>4. /\ joined \in Seq(Products)
      /\ \A i \in DOMAIN joined : joined[i] \in joining
      /\ \A i, j \in DOMAIN joined : i # j => joined[i] # joined[j]
  <2> HIDE DEF joining
  <2> QED
    BY AllProperties, RetainedProperties
<1> HIDE DEF kept, joined
<1>5. \A i \in DOMAIN kept : kept[i] \in games \ {"S2", connecting}
  BY <1>2, <1>3
<1>6. \A i \in DOMAIN joined : joined[i] \in games \ {"S2", connecting} /\ \A k \in DOMAIN kept : kept[k] # joined[i]
  BY <1>4
<1> HIDE DEF joining
<1>7. /\ kept \o joined \in Seq(Products) /\ Len(kept) \in Nat /\ Len(joined) \in Nat
      /\ DOMAIN (kept \o joined) = 1 .. Len(kept) + Len(joined)
      /\ DOMAIN kept = 1 .. Len(kept) /\ DOMAIN joined = 1 .. Len(joined)
      /\ \A i \in 1 .. Len(kept) : (kept \o joined)[i] = kept[i]
      /\ \A i \in 1 .. Len(joined) : (kept \o joined)[Len(kept) + i] = joined[i]
  BY <1>3, <1>4, ConcatPlaces
<1> DEFINE queue == kept \o joined
<1>8. \A i \in DOMAIN queue :
        \/ i \in DOMAIN kept /\ queue[i] = kept[i]
        \/ \E k \in DOMAIN joined : i = Len(kept) + k /\ queue[i] = joined[k]
  <2>1. ASSUME NEW i \in DOMAIN queue, i \notin DOMAIN kept
        PROVE  \E k \in DOMAIN joined : i = Len(kept) + k /\ queue[i] = joined[k]
    <3>1. i - Len(kept) \in DOMAIN joined /\ i = Len(kept) + (i - Len(kept))
      BY <1>7, <2>1
    <3> QED
      BY <1>7, <3>1
  <2> QED
    BY <1>7, <2>1
<1> HIDE DEF queue
<1>9. \A i \in DOMAIN queue : queue[i] \in games \ {"S2", connecting'}
  <2>1. \A i \in DOMAIN queue : queue[i] \in games \ {"S2", connecting}
    BY <1>5, <1>6, <1>8
  <2>2. None \notin Products /\ connecting' \in {connecting, None}
    BY <1>1, ProductAssumption DEF None
  <2> QED
    BY <2>1, <2>2
<1>10. ASSUME NEW i \in DOMAIN queue, NEW j \in DOMAIN queue, i # j
       PROVE  queue[i] # queue[j]
  BY <1>3, <1>4, <1>6, <1>8, <1>10
<1>11. connectQueue' = queue /\ queue \in Seq(Products)
  BY <1>1, <1>7 DEF queue
<1>12. authoritative' # NoAccount /\ authoritative' \in MaybeAccount
  BY <1>1, AccountAssumption DEF MaybeAccount
<1>13. QueueSound'
  BY <1>1, <1>9, <1>10, <1>11, <1>12 DEF QueueSound
<1>14. connecting' \in Products \cup {None}
  BY <1>1
<1> QED
  BY <1>1, <1>11, <1>12, <1>13, <1>14 DEF Licensed

\* handle_client_event, for every kind of event.
LEMMA HandleKeeps ==
  ASSUME IInv, NEW p \in Products, Handle(p)
  PROVE  IInv'
<1>0. WorkersType /\ ViewType /\ BarType /\ Licensed /\ QueueSound
  BY TypeParts DEF IInv
<1>1. /\ reply \in [Products -> Accounts \cup {None, "waiting", "err"}]
      /\ commands \in [Products -> Seq(Commands)]
      /\ session \in [Products -> Sessions] /\ session[p] \in Sessions
      /\ page \in Products \cup {None} /\ warning \in {None, "open", "closing"}
  BY <1>0 DEF WorkersType, ViewType
<1>2. \A kind : Received(p, kind) => Head(events[p]) \in Events /\ Head(events[p]).kind = kind
  <2>1. events[p] \in Seq(Events)
    BY <1>0 DEF WorkersType
  <2> QED
    BY <2>1, HeadTailProperties DEF Received
<1>3. /\ page' = page /\ reply' = reply => Answered
      /\ session' = session => \A q \in Products : Shown(q)
      /\ view' = view => ViewType' /\ Licensed' /\ QueueSound'
      /\ UNCHANGED <<authoritative, provisioned, connectQueue, connecting>> => Licensed' /\ QueueSound'
  BY <1>0 DEF Answered, Shown, view, ViewType, Licensed, QueueSound
<1>4. Stage("Disconnected").kind = "Stage"
  BY DEF Stage
<1>5. ASSUME NEW new \in Sessions, session' = [session EXCEPT ![p] = new]
      PROVE  /\ session' \in [Products -> Sessions] /\ session'[p].stage = new.stage
             /\ \A q \in Products \ {p} : Shown(q)
             /\ new.stage = session[p].stage => Shown(p)
  BY <1>1, <1>5 DEF Shown
<1>6. CASE HandleProductCredential(p)
  <2>1. Received(p, "ProductCredential") /\ reply' = reply /\ view' = view
    BY <1>6 DEF HandleProductCredential
  <2>2. commands' \in [Products -> Seq(Commands)]
    BY <1>0, <1>1, <1>6, SendType, CommandTypes DEF HandleProductCredential
  <2>3. session' = session /\ page' = page /\ Head(events[p]).kind = "ProductCredential"
    BY <1>2, <2>1 DEF view
  <2> QED
    BY <1>1, <1>3, <1>4, <2>1, <2>2, <2>3, HandledKeeps
<1>7. CASE HandleStage(p)
  <2> DEFINE stage == Head(events[p]).stage
             error == IF stage \in {"WebAuthentication", "Connected"} THEN FALSE ELSE session[p].error
             new == [session[p] EXCEPT !.stage = stage, !.starting = FALSE, !.error = error]
  <2>1. Received(p, "Stage") /\ commands' = commands /\ stage \in Stages /\ Head(events[p]) = Stage(stage)
    BY <1>2, <1>7, EventKinds DEF HandleStage
  <2>2. CASE session[p].gate /\ stage # "Disconnected"
    <3>1. reply' = reply /\ view' = view
      BY <1>7, <2>2 DEF HandleStage
    <3>2. Head(events[p]) # Stage("Disconnected")
      BY <2>2 DEF Stage
    <3>3. session' = session /\ page' = page
      BY <3>1 DEF view
    <3> QED
      BY <1>1, <1>3, <2>1, <3>1, <3>2, <3>3, HandledKeeps
  <2>3. CASE ~(session[p].gate /\ stage # "Disconnected")
    <3>1. /\ session' = [session EXCEPT ![p] = new]
          /\ Dismiss \/ UNCHANGED <<page, reply>>
          /\ UNCHANGED <<authoritative, provisioned, connectQueue, connecting>>
      BY <1>7, <2>3, Zenon DEF HandleStage
    <3>2. warning' \in {None, "open", "closing"}
      BY <1>1, <1>7, <2>3, Zenon DEF HandleStage
    <3>3. new \in Sessions /\ new.stage = stage
      <4>1. error \in BOOLEAN
        BY <1>1, SessionFields
      <4> HIDE DEF error, stage
      <4> QED
        BY <1>1, <2>1, <4>1, SessionStage
    <3> HIDE DEF new
    <3>4. /\ session' \in [Products -> Sessions] /\ session'[p].stage = stage
          /\ \A q \in Products \ {p} : Shown(q)
      BY <1>5, <3>1, <3>3
    <3>5. /\ reply' \in [Products -> Accounts \cup {None, "waiting", "err"}]
          /\ page' \in Products \cup {None} /\ Answered
      BY <1>0, <1>1, <1>3, <3>1, DismissAnswers
    <3>6. ViewType'
      BY <1>0, <3>1, <3>2, <3>4, <3>5 DEF ViewType
    <3>7. Head(events[p]) = Stage("Disconnected") => stage = "Disconnected"
      BY DEF Stage
    <3>8. Licensed' /\ QueueSound'
      BY <1>3, <3>1
    <3> QED
      BY <1>1, <2>1, <3>4, <3>5, <3>6, <3>7, <3>8, HandledKeeps
  <2> QED
    BY <2>2, <2>3
<1>8. CASE HandleAuthentication(p)
  <2>1. /\ Received(p, "Authentication") /\ commands' = commands /\ session' = session /\ warning' = warning
        /\ UNCHANGED <<authoritative, provisioned, connectQueue, connecting>>
    BY <1>8 DEF HandleAuthentication
  <2>2. /\ reply' \in [Products -> Accounts \cup {None, "waiting", "err"}]
        /\ page' \in Products \cup {None}
        /\ \A q \in Products : reply'[q] = "waiting" => page' = q \/ (q # p /\ page # q /\ reply[q] = "waiting")
    <3>1. CASE session[p].gate
      <4>1. reply' = [reply EXCEPT ![p] = "err"] /\ page' = page
        BY <1>8, <3>1 DEF HandleAuthentication
      <4>2. reply'[p] = "err" /\ \A q \in Products \ {p} : reply'[q] = reply[q]
        BY <1>1, <4>1
      <4> QED
        BY <1>1, <4>1, <4>2
    <3>2. CASE ~session[p].gate
      <4>1. reply' = DismissedReplies /\ page' = p
        BY <1>8, <3>2 DEF HandleAuthentication
      <4>2. CASE page = None
        <5>1. reply' = reply /\ None \notin Products
          BY <4>1, <4>2, ProductAssumption DEF DismissedReplies, None
        <5> QED
          BY <1>1, <4>1, <4>2, <5>1
      <4>3. CASE page # None
        <5>1. page \in Products /\ reply' = [reply EXCEPT ![page] = "err"]
          BY <1>1, <4>1, <4>3 DEF DismissedReplies
        <5>2. reply'[page] = "err" /\ \A q \in Products \ {page} : reply'[q] = reply[q]
          BY <1>1, <5>1
        <5> QED
          BY <1>1, <4>1, <5>1, <5>2
      <4> QED
        BY <4>2, <4>3
    <3> QED
      BY <3>1, <3>2
  <2>3. ViewType'
    BY <1>0, <2>1, <2>2 DEF ViewType
  <2>4. Head(events[p]) # Stage("Disconnected")
    BY <1>2, <1>4, <2>1
  <2>5. Licensed' /\ QueueSound' /\ \A q \in Products : Shown(q)
    BY <1>3, <2>1
  <2> QED
    BY <1>1, <2>1, <2>2, <2>3, <2>4, <2>5, HandledKeeps
<1>9. CASE HandleAccount(p)
  <2> DEFINE e == Head(events[p])
             new == [session[p] EXCEPT !.account = e.account]
  <2>1. /\ Received(p, "Account") /\ commands' = commands /\ reply' = reply /\ page' = page /\ warning' = warning
        /\ e.account \in Accounts /\ e.games \in SUBSET Products /\ e.kind = "Account"
    BY <1>2, <1>9, EventKinds DEF HandleAccount
  <2>2. CASE session[p].gate
    <3>1. view' = view /\ session' = session
      BY <1>9, <2>1, <2>2 DEF HandleAccount, view
    <3>2. e # Stage("Disconnected")
      BY <1>4, <2>1
    <3> QED
      BY <1>1, <1>3, <2>1, <3>1, <3>2, HandledKeeps
  <2>3. CASE ~session[p].gate
    <3>1. /\ session' = [session EXCEPT ![p].account = e.account]
          /\ \/ Adopt(e.account, e.games)
             \/ UNCHANGED <<authoritative, provisioned, connectQueue, connecting>>
      BY <1>9, <2>3, Zenon DEF HandleAccount
    <3>2. session' = [session EXCEPT ![p] = new]
      BY <3>1
    <3>3. new \in Sessions /\ new.stage = session[p].stage
      BY <1>1, <2>1, SessionAccount DEF MaybeAccount
    <3> HIDE DEF new
    <3>4. /\ authoritative' \in MaybeAccount /\ provisioned' \subseteq Products
          /\ connectQueue' \in Seq(Products) /\ connecting' \in Products \cup {None}
          /\ Licensed' /\ QueueSound'
      <4>1. CASE Adopt(e.account, e.games)
        BY <1>0, <2>1, <4>1, AdoptSound
      <4>2. CASE UNCHANGED <<authoritative, provisioned, connectQueue, connecting>>
        BY <1>0, <1>3, <4>2 DEF ViewType
      <4> QED
        BY <3>1, <4>1, <4>2
    <3>5. session' \in [Products -> Sessions] /\ \A q \in Products : Shown(q)
      BY <1>5, <3>2, <3>3
    <3>6. ViewType'
      BY <1>1, <2>1, <3>4, <3>5 DEF ViewType
    <3>7. e # Stage("Disconnected")
      BY <1>4, <2>1
    <3> QED
      BY <1>1, <1>3, <2>1, <3>4, <3>5, <3>6, <3>7, HandledKeeps
  <2> QED
    BY <2>2, <2>3
<1>10. CASE HandleError(p)
  <2> DEFINE new == [session[p] EXCEPT !.error = TRUE, !.starting = FALSE]
  <2>1. /\ Received(p, "Error") /\ commands' = commands /\ reply' = reply /\ page' = page
        /\ UNCHANGED <<authoritative, provisioned, connectQueue, connecting>>
        /\ warning' \in {None, "open", "closing"}
        /\ \/ session' = session
           \/ session' = [session EXCEPT ![p].error = TRUE, ![p].starting = FALSE]
    BY <1>1, <1>10 DEF HandleError
  <2>2. new \in Sessions /\ new.stage = session[p].stage
    BY <1>1, SessionError
  <2>3. session' = session \/ session' = [session EXCEPT ![p] = new]
    BY <1>1, <2>1
  <2> HIDE DEF new
  <2>4. session' \in [Products -> Sessions] /\ \A q \in Products : Shown(q)
    BY <1>1, <1>3, <1>5, <2>2, <2>3
  <2>5. ViewType'
    BY <1>0, <2>1, <2>4 DEF ViewType
  <2>6. Head(events[p]) # Stage("Disconnected")
    BY <1>2, <1>4, <2>1
  <2> QED
    BY <1>1, <1>3, <2>1, <2>4, <2>5, <2>6, HandledKeeps
<1> QED
  BY <1>6, <1>7, <1>8, <1>9, <1>10 DEF Handle

-----------------------------------------------------------------------------
(* The queue, the title bar and the warning.                               *)

\* advance_connect_queue.
LEMMA AdvanceKeeps ==
  ASSUME IInv, AdvanceConnectQueue
  PROVE  IInv'
<1>0. WorkersType /\ ViewType /\ BarType /\ Licensed /\ QueueSound
  BY TypeParts DEF IInv
<1>1. /\ due' = FALSE /\ workers' = workers /\ events' = events /\ bar' = bar
      /\ UNCHANGED <<authoritative, provisioned, page, warning>>
  BY DEF AdvanceConnectQueue
<1>2. /\ reply \in [Products -> Accounts \cup {None, "waiting", "err"}]
      /\ commands \in [Products -> Seq(Commands)] /\ session \in [Products -> Sessions]
      /\ connectQueue \in Seq(Products) /\ connecting \in Products \cup {None}
      /\ authoritative \in MaybeAccount
  BY <1>0 DEF WorkersType, ViewType
<1>3. BarType' /\ reply' = reply /\ Answered /\ Licensed'
  BY <1>0, <1>1 DEF BarType, bar, workers, Answered, Licensed
<1>4. /\ commands' \in [Products -> Seq(Commands)] /\ session' \in [Products -> Sessions]
      /\ connectQueue' \in Seq(Products) /\ connecting' \in Products \cup {None}
      /\ QueueSound' /\ \A q \in Products : Shown(q)
  <2>1. CASE UNCHANGED <<connectQueue, connecting, session, commands>>
    BY <1>0, <1>1, <1>2, <2>1 DEF QueueSound, Shown
  <2>2. CASE connecting' = None /\ UNCHANGED <<connectQueue, session, commands>>
    <3>1. None \notin Products /\ provisioned \subseteq Products
      BY <1>0, ProductAssumption DEF None, ViewType
    <3> QED
      BY <1>0, <1>1, <1>2, <2>2, <3>1 DEF QueueSound, Shown
  <2>3. CASE connectQueue # <<>> /\ authoritative # NoAccount
             /\ LET next == Head(connectQueue)
                IN /\ connectQueue' = Tail(connectQueue)
                   /\ connecting' = next
                   /\ session' = [session EXCEPT ![next] = BeginAttempt(@)]
                   /\ Send(next, Connect(authoritative))
    <3> DEFINE next == Head(connectQueue)
               rest == Tail(connectQueue)
               new == BeginAttempt(session[next])
    <3>1. /\ next \in Products /\ rest \in Seq(Products) /\ next = connectQueue[1]
          /\ Len(rest) = Len(connectQueue) - 1 /\ Len(connectQueue) \in Nat \ {0}
          /\ DOMAIN rest = 1 .. Len(rest) /\ DOMAIN connectQueue = 1 .. Len(connectQueue)
          /\ \A i \in 1 .. Len(rest) : rest[i] = connectQueue[i + 1]
      BY <1>2, <2>3, HeadTailProperties
    <3>2. /\ connectQueue' = rest /\ connecting' = next
          /\ session' = [session EXCEPT ![next] = new]
          /\ commands' \in [Products -> Seq(Commands)]
      BY <1>0, <1>2, <2>3, <3>1, SendType, CommandTypes
    <3>3. new \in Sessions /\ new.stage = session[next].stage
      BY <1>2, <3>1, SessionAttempt
    <3> HIDE DEF new, rest, next
    <3>4. session' \in [Products -> Sessions] /\ \A q \in Products : Shown(q)
      BY <1>2, <3>1, <3>2, <3>3 DEF Shown
    <3>5. \A i \in DOMAIN rest : i + 1 \in DOMAIN connectQueue /\ i + 1 # 1 /\ 1 \in DOMAIN connectQueue
      BY <3>1
    <3>6. \A i, j \in DOMAIN rest : i # j => i + 1 # j + 1
      BY <3>1
    <3>7. /\ \A i, j \in DOMAIN rest : i # j => rest[i] # rest[j]
          /\ \A i \in DOMAIN rest : rest[i] \in provisioned \ {"S2", next}
      BY <1>0, <3>1, <3>5, <3>6, SMTT(30) DEF QueueSound
    <3>8. QueueSound'
      BY <1>1, <2>3, <3>2, <3>7 DEF QueueSound
    <3> QED
      BY <3>1, <3>2, <3>4, <3>8
  <2> QED
    BY <2>1, <2>2, <2>3 DEF AdvanceConnectQueue
<1>5. ViewType'
  BY <1>0, <1>1, <1>4 DEF ViewType
<1> QED
  BY <1>1, <1>2, <1>3, <1>4, <1>5, ActKeeps DEF workers

\* The title bar and the disconnect warning.
LEMMA BarKeeps ==
  ASSUME IInv, SettleTitlebar \/ HideWarning
  PROVE  IInv'
<1>0. WorkersType /\ ViewType /\ BarType /\ Licensed /\ QueueSound
  BY TypeParts DEF IInv
<1>1. /\ workers' = workers /\ commands' = commands /\ events' = events /\ session' = session
      /\ UNCHANGED <<authoritative, provisioned, connectQueue, connecting, page>>
      /\ warning' \in {warning, None}
      /\ UNCHANGED <<focused, due, actions>>
      /\ refreshing' \in BOOLEAN /\ severing' \in BOOLEAN
  BY <1>0 DEF SettleTitlebar, HideWarning, view, bar, BarType
<1>2. ViewType' /\ BarType' /\ Licensed' /\ QueueSound'
  BY <1>0, <1>1 DEF ViewType, BarType, Licensed, QueueSound
<1>3. Answered /\ \A q \in Products : Shown(q)
  BY <1>1 DEF Answered, Shown, workers
<1>4. /\ reply' \in [Products -> Accounts \cup {None, "waiting", "err"}]
      /\ commands' \in [Products -> Seq(Commands)]
  BY <1>0, <1>1 DEF WorkersType, workers
<1> QED
  BY <1>1, <1>2, <1>3, <1>4, ActKeeps DEF workers

\* The login page: opened, answered, closed.
LEMMA PageKeeps ==
  ASSUME IInv, AnswerPage
  PROVE  IInv'
<1>0. WorkersType /\ ViewType /\ BarType /\ Licensed /\ QueueSound
  BY TypeParts DEF IInv
<1>1. /\ UNCHANGED <<phase, expected, identity, tries, commands, events, session, bar, due>>
      /\ UNCHANGED <<authoritative, provisioned, connectQueue, connecting, warning>>
      /\ page' = None /\ page \in Products
      /\ \E answer \in Accounts \cup {"err"} : reply' = [reply EXCEPT ![page] = answer]
  BY <1>0 DEF AnswerPage, ViewType
<1>2. ViewType' /\ BarType' /\ Licensed' /\ QueueSound'
  BY <1>0, <1>1 DEF ViewType, BarType, Licensed, QueueSound, bar
<1>3. PICK answer \in Accounts \cup {"err"} : reply' = [reply EXCEPT ![page] = answer]
  BY <1>1
<1>4. /\ reply' \in [Products -> Accounts \cup {None, "waiting", "err"}]
      /\ reply'[page] = answer /\ \A q \in Products \ {page} : reply'[q] = reply[q]
  BY <1>0, <1>1, <1>3 DEF WorkersType
<1>5. answer # "waiting"
  BY AccountAssumption
<1>6. Answered /\ \A q \in Products : Shown(q)
  BY <1>1, <1>4, <1>5 DEF Answered, Shown
<1> QED
  BY <1>0, <1>1, <1>2, <1>4, <1>6, ActKeeps DEF WorkersType

-----------------------------------------------------------------------------
(* The user.                                                               *)

\* A product that is reconnected is shown as it was or as disconnected.
LEMMA ReconnectShown ==
  ASSUME ViewType, NEW p \in Products, Reconnect(p, session)
  PROVE  /\ session' \in [Products -> Sessions] /\ \A q \in Products : Shown(q)
         /\ warning' \in {None, "open", "closing"}
<1> DEFINE new == BeginAttempt(session[p])
<1>1. session \in [Products -> Sessions] /\ session' = [session EXCEPT ![p] = new]
  BY DEF ViewType, Reconnect
<1>2. new \in Sessions /\ new.stage = session[p].stage
  BY <1>1, SessionAttempt
<1> HIDE DEF new
<1>3. session' \in [Products -> Sessions] /\ \A q \in Products : Shown(q)
  BY <1>1, <1>2 DEF Shown
<1> QED
  BY <1>3 DEF Reconnect

\* What the user does.
LEMMA UserKeeps ==
  ASSUME IInv, User
  PROVE  IInv'
<1>0. WorkersType /\ ViewType /\ BarType /\ Licensed /\ QueueSound
  BY TypeParts DEF IInv
<1>1. /\ reply \in [Products -> Accounts \cup {None, "waiting", "err"}]
      /\ commands \in [Products -> Seq(Commands)]
      /\ session \in [Products -> Sessions] /\ authoritative \in MaybeAccount
      /\ focused \in Products /\ provisioned \subseteq Products
      /\ Connect(authoritative) \in Commands
  BY <1>0, CommandTypes DEF WorkersType, ViewType, BarType
<1>2. \A kind : Acts(kind) => due' = due /\ actions' \in 0 .. MaxActions
  BY <1>0, BoundAssumption DEF Acts, BarType
<1>3. /\ page' = page /\ reply' = reply => Answered
      /\ session' = session => \A q \in Products : Shown(q)
      /\ UNCHANGED <<authoritative, provisioned, connectQueue, connecting>> => Licensed' /\ QueueSound'
  BY <1>0 DEF Answered, Shown, Licensed, QueueSound
<1>4. ASSUME NEW p \in Products, TakeGameCard(p)
      PROVE  IInv'
  <2>1. /\ UNCHANGED <<phase, expected, identity, tries, events>> /\ reply' = reply /\ page' = page
        /\ UNCHANGED <<authoritative, provisioned, connectQueue, connecting>>
        /\ focused' = p /\ refreshing' = refreshing /\ severing' = severing /\ Acts("card")
    BY <1>4 DEF TakeGameCard, workers
  <2>2. BarType'
    BY <1>0, <1>2, <2>1 DEF BarType
  <2>3. /\ session' \in [Products -> Sessions] /\ (\A q \in Products : Shown(q))
        /\ warning' \in {None, "open", "closing"} /\ commands' \in [Products -> Seq(Commands)]
    <3>1. CASE session[p].error
      BY <1>0, <1>1, <1>4, <3>1, ReconnectShown, SendType DEF TakeGameCard
    <3>2. CASE ~session[p].error
      BY <1>0, <1>1, <1>3, <1>4, <3>2 DEF TakeGameCard, ViewType
    <3> QED
      BY <3>1, <3>2
  <2>4. ViewType'
    BY <1>0, <2>1, <2>3 DEF ViewType
  <2> QED
    BY <1>1, <1>3, <2>1, <2>2, <2>3, <2>4, ActKeeps
<1>5. CASE WarningReconnect
  <2>1. /\ UNCHANGED <<phase, expected, identity, tries, events>> /\ reply' = reply /\ page' = page
        /\ UNCHANGED <<authoritative, provisioned, connectQueue, connecting>>
        /\ focused' = focused /\ refreshing' = refreshing /\ severing' = severing /\ Acts("warning")
        /\ Reconnect(focused, session) /\ Send(focused, Connect(authoritative))
    BY <1>5 DEF WarningReconnect, workers
  <2>2. BarType'
    BY <1>0, <1>2, <2>1 DEF BarType
  <2>3. /\ session' \in [Products -> Sessions] /\ (\A q \in Products : Shown(q))
        /\ warning' \in {None, "open", "closing"} /\ commands' \in [Products -> Seq(Commands)]
    BY <1>0, <1>1, <2>1, ReconnectShown, SendType
  <2>4. ViewType'
    BY <1>0, <2>1, <2>3 DEF ViewType
  <2> QED
    BY <1>1, <1>3, <2>1, <2>2, <2>3, <2>4, ActKeeps
<1>6. CASE CancelConnection
  <2>1. /\ UNCHANGED <<phase, expected, identity, tries, events>>
        /\ UNCHANGED <<authoritative, provisioned, connectQueue, connecting>>
        /\ focused' = focused /\ refreshing' = refreshing /\ severing' = severing /\ Acts("cancel")
    BY <1>6 DEF CancelConnection
  <2>2. BarType'
    BY <1>0, <1>2, <2>1 DEF BarType
  <2>3. /\ session' \in [Products -> Sessions] /\ (\A q \in Products : Shown(q))
        /\ warning' \in {None, "open", "closing"} /\ commands' \in [Products -> Seq(Commands)]
        /\ reply' \in [Products -> Accounts \cup {None, "waiting", "err"}]
        /\ page' \in Products \cup {None} /\ Answered
    <3>1. CASE session[focused].error \/ session[focused].stage = "Disconnected"
      <4>1. Reconnect(focused, session) /\ Send(focused, Connect(authoritative)) /\ UNCHANGED <<page, reply>>
        BY <1>6, <3>1 DEF CancelConnection
      <4> QED
        BY <1>0, <1>1, <1>3, <4>1, ReconnectShown, SendType DEF ViewType
    <3>2. CASE ~(session[focused].error \/ session[focused].stage = "Disconnected")
      <4> DEFINE new == [session[focused] EXCEPT !.starting = FALSE, !.error = FALSE, !.stage = "Disconnected"]
      <4>1. /\ Dismiss /\ Send(focused, Plain("Disconnect")) /\ warning' = warning
            /\ session' = [session EXCEPT ![focused].starting = FALSE, ![focused].error = FALSE,
                                          ![focused].stage = "Disconnected"]
        BY <1>6, <3>2, Zenon DEF CancelConnection
      <4>2. session' = [session EXCEPT ![focused] = new]
        BY <1>1, <4>1
      <4>3. new \in Sessions /\ new.stage = "Disconnected"
        BY <1>1, SessionCancelled
      <4> HIDE DEF new
      <4>4. session' \in [Products -> Sessions] /\ \A q \in Products : Shown(q)
        BY <1>1, <4>2, <4>3 DEF Shown
      <4> QED
        BY <1>0, <4>1, <4>4, <1>1, DismissAnswers, SendType, CommandTypes DEF ViewType
    <3> QED
      BY <3>1, <3>2
  <2>4. ViewType'
    BY <1>0, <2>1, <2>3 DEF ViewType
  <2>5. Licensed' /\ QueueSound'
    BY <1>3, <2>1
  <2> QED
    BY <2>1, <2>2, <2>3, <2>4, <2>5, ActKeeps
<1>7. CASE RefreshGames
  <2> DEFINE products == {"S2"} \cup provisioned
             sent(p) == commands[p] \o <<Plain("Disconnect")>>
                          \o (IF p = "S2" THEN <<Connect(authoritative)>> ELSE <<>>)
             new(p) == [session[p] EXCEPT !.account = NoAccount, !.error = FALSE,
                                          !.stage = "Disconnected", !.starting = (p = "S2")]
  <2>1. /\ UNCHANGED <<phase, expected, identity, tries, events>>
        /\ Acts("refresh") /\ Dismiss
        /\ commands' = [p \in Products |-> IF p \notin products THEN commands[p] ELSE sent(p)]
        /\ session' = [p \in Products |-> IF p \notin products THEN session[p] ELSE new(p)]
        /\ connecting' = "S2" /\ connectQueue' = Retained(ALL, products \ {"S2"})
        /\ refreshing' = TRUE
        /\ UNCHANGED <<authoritative, provisioned, warning, focused, severing>>
    BY <1>7, Zenon DEF RefreshGames, RefreshAs
  <2>2. BarType'
    BY <1>0, <1>2, <2>1 DEF BarType
  <2>3. \A p \in Products : sent(p) \in Seq(Commands)
    <3>1. ASSUME NEW p \in Products PROVE sent(p) \in Seq(Commands)
      <4>1. <<Plain("Disconnect")>> \in Seq(Commands) /\ commands[p] \in Seq(Commands)
        BY <1>1, CommandTypes, Pair
      <4>2. (IF p = "S2" THEN <<Connect(authoritative)>> ELSE <<>>) \in Seq(Commands)
        BY <1>1
      <4> QED
        BY <4>1, <4>2, ConcatPlaces
    <3> QED
      BY <3>1
  <2>4. \A p \in Products : new(p) \in Sessions /\ new(p).stage = "Disconnected"
    BY <1>1, SessionRefreshed
  <2> HIDE DEF sent, new
  <2>5. commands' \in [Products -> Seq(Commands)]
    BY <1>1, <2>1, <2>3
  <2>6. session' \in [Products -> Sessions] /\ \A q \in Products : Shown(q)
    BY <1>1, <2>1, <2>4 DEF Shown
  <2>7. /\ reply' \in [Products -> Accounts \cup {None, "waiting", "err"}]
        /\ page' \in Products \cup {None} /\ Answered
    BY <1>0, <2>1, DismissAnswers
  <2>8. /\ connectQueue' \in Seq(Products)
        /\ \A i, j \in DOMAIN connectQueue' : i # j => connectQueue'[i] # connectQueue'[j]
        /\ \A i \in DOMAIN connectQueue' : connectQueue'[i] \in products \ {"S2"}
    <3> DEFINE wanted == products \ {"S2"}
               queue == Retained(ALL, wanted)
    <3>1. connectQueue' = queue
      BY <2>1
    <3> HIDE DEF wanted
    <3>2. /\ queue \in Seq(Products)
          /\ \A i, j \in DOMAIN queue : i # j => queue[i] # queue[j]
          /\ \A i \in DOMAIN queue : queue[i] \in wanted
      BY AllProperties, RetainedProperties
    <3> HIDE DEF queue
    <3> QED
      BY <3>1, <3>2 DEF wanted
  <2>9. connectQueue' # <<>> => provisioned # {}
    <3>1. ASSUME connectQueue' # <<>> PROVE provisioned # {}
      <4>1. 1 \in DOMAIN connectQueue'
        BY <2>8, <3>1
      <4> QED
        BY <2>8, <4>1
    <3> QED
      BY <3>1
  <2>10. Licensed' /\ QueueSound'
    BY <1>0, <2>1, <2>8, <2>9 DEF Licensed, QueueSound
  <2>11. ViewType'
    BY <1>0, <2>1, <2>6, <2>7, <2>8, ProductAssumption DEF ViewType
  <2> QED
    BY <2>1, <2>2, <2>5, <2>6, <2>7, <2>10, <2>11, ActKeeps
<1>8. CASE SignOut
  <2> DEFINE sent(p) == commands[p] \o <<Plain("SignOut")>>
                          \o (IF p = "S2" THEN <<Connect(NoAccount)>> ELSE <<>>)
             out(p) == [session[p] EXCEPT !.account = NoAccount, !.gate = TRUE, !.starting = FALSE,
                                          !.error = FALSE, !.stage = "Disconnected"]
             outs == [p \in Products |-> out(p)]
             new == BeginAttempt(outs["S2"])
  <2>1. /\ UNCHANGED <<phase, expected, identity, tries, events>>
        /\ Acts("signout") /\ Dismiss
        /\ commands' = [p \in Products |-> sent(p)]
        /\ session' = [outs EXCEPT !["S2"] = BeginAttempt(@)]
        /\ warning' = (IF warning = None THEN None ELSE "closing")
        /\ authoritative' = NoAccount /\ provisioned' = {} /\ connectQueue' = <<>> /\ connecting' = None
        /\ focused' = "S2" /\ severing' = TRUE /\ refreshing' = refreshing
    BY <1>8, Zenon DEF SignOut, Reconnect
  <2>2. BarType'
    BY <1>0, <1>2, <2>1, ProductAssumption DEF BarType
  <2>3. \A p \in Products : sent(p) \in Seq(Commands)
    <3>1. ASSUME NEW p \in Products PROVE sent(p) \in Seq(Commands)
      <4>1. <<Plain("SignOut")>> \in Seq(Commands) /\ commands[p] \in Seq(Commands)
        BY <1>1, CommandTypes, Pair
      <4>2. (IF p = "S2" THEN <<Connect(NoAccount)>> ELSE <<>>) \in Seq(Commands)
        BY CommandTypes, Pair DEF MaybeAccount
      <4> QED
        BY <4>1, <4>2, ConcatPlaces
    <3> QED
      BY <3>1
  <2>4. \A p \in Products : out(p) \in Sessions /\ out(p).stage = "Disconnected"
    BY <1>1, SessionSignedOut
  <2> HIDE DEF sent, out
  <2>5. /\ outs \in [Products -> Sessions] /\ \A q \in Products : outs[q].stage = "Disconnected"
        /\ "S2" \in Products /\ outs["S2"] \in Sessions
    BY <2>4, ProductAssumption
  <2>6. session' = [outs EXCEPT !["S2"] = new]
    BY <2>1, <2>5
  <2> HIDE DEF outs
  <2>7. new \in Sessions /\ new.stage = "Disconnected"
    BY <2>5, SessionAttempt
  <2> HIDE DEF new
  <2>8. session' \in [Products -> Sessions] /\ \A q \in Products : Shown(q)
    BY <2>5, <2>6, <2>7 DEF Shown
  <2>9. commands' \in [Products -> Seq(Commands)]
    BY <2>1, <2>3
  <2>10. /\ reply' \in [Products -> Accounts \cup {None, "waiting", "err"}]
         /\ page' \in Products \cup {None} /\ Answered
    BY <1>0, <2>1, DismissAnswers
  <2>11. Licensed' /\ QueueSound'
    BY <2>1 DEF Licensed, QueueSound
  <2>12. ViewType'
    BY <2>1, <2>8, <2>10 DEF ViewType, MaybeAccount
  <2> QED
    BY <2>1, <2>2, <2>8, <2>9, <2>10, <2>11, <2>12, ActKeeps
<1> QED
  BY <1>4, <1>5, <1>6, <1>7, <1>8 DEF User

-----------------------------------------------------------------------------
(* The theorems.                                                           *)

\* The invariant holds when the application starts.
LEMMA InitInv == Init => IInv
<1> SUFFICES ASSUME Init PROVE IInv
  OBVIOUS
<1> USE DEF Init
<1>1. Blank \in Sessions /\ Blank.stage = "Disconnected"
  BY DEF Blank, Sessions, Stages, MaybeAccount
<1> DEFINE new == BeginAttempt(Blank)
<1>2. new \in Sessions /\ new.stage = "Disconnected"
  BY <1>1, SessionAttempt
<1>3. session = [p \in Products |-> IF p = "S2" THEN new ELSE Blank]
  OBVIOUS
<1> HIDE DEF new
<1>4. session \in [Products -> Sessions] /\ \A p \in Products : session[p].stage = "Disconnected"
  BY <1>1, <1>2, <1>3
<1>5. <<Connect(NoAccount)>> \in Seq(Commands) /\ <<>> \in Seq(Commands)
  BY CommandTypes, Pair DEF MaybeAccount
<1>6. WorkersType
  BY <1>5, BoundAssumption DEF WorkersType, Phases, MaybeAccount, None
<1>7. ViewType /\ BarType
  <2>1. <<>> \in Seq(Products) /\ "S2" \in Products /\ 0 \in 0 .. MaxActions
    BY ProductAssumption, BoundAssumption
  <2>2. ViewType
    BY <1>4, <2>1 DEF ViewType, MaybeAccount
  <2>3. BarType
    BY <2>1 DEF BarType
  <2> QED
    BY <2>2, <2>3
<1>8. SystemTypeOK
  BY <1>6, <1>7, TypeParts
<1>9. Proved /\ Licensed /\ QueueSound /\ NobodyWaitsUnseen
  BY DEF Proved, Licensed, QueueSound, NobodyWaitsUnseen, None
<1>10. LastWord
  BY <1>4 DEF LastWord, Settles
<1> QED
  BY <1>8, <1>9, <1>10 DEF IInv

\* Every step keeps the invariant.
LEMMA NextInv == IInv /\ [Next]_vars => IInv'
<1> SUFFICES ASSUME IInv, [Next]_vars PROVE IInv'
  OBVIOUS
<1>1. ASSUME UNCHANGED system PROVE IInv'
  <2>1. WorkersType /\ ViewType /\ BarType /\ Licensed /\ QueueSound
    BY TypeParts DEF IInv
  <2>2. /\ workers' = workers /\ commands' = commands /\ events' = events
        /\ view' = view /\ bar' = bar /\ due' = due
    BY <1>1 DEF system
  <2>3. ViewType' /\ BarType' /\ Licensed' /\ QueueSound'
    BY <2>1, <2>2 DEF ViewType, BarType, Licensed, QueueSound, view, bar
  <2>4. Answered /\ \A q \in Products : Shown(q)
    BY <2>2 DEF Answered, Shown, view, workers
  <2> QED
    BY <2>1, <2>2, <2>3, <2>4, ActKeeps DEF workers, WorkersType
<1>2. ASSUME NEW p \in Products, WorkerSteps(p) \/ WorkerLost(p) \/ Handle(p)
      PROVE  IInv'
  BY <1>2, WorkersKeep, HandleKeeps
<1>3. (\A p \in Products : ~Hangs(p)) /\ ~Types /\ ~UNCHANGED vars => IInv'
  BY <1>2, AdvanceKeeps, BarKeeps, PageKeeps, UserKeeps
  DEF Next, Works, Loses, Drains, Advances, Hides
<1> QED
  BY <1>1, <1>3 DEF Hangs, Types, vars

\* The invariant holds in every state.
LEMMA Inductive == Spec => []IInv
  BY InitInv, NextInv, PTL DEF Spec

\* What the application and the workers hold has its type, for any accounts,
\* catalogues and bounds.
THEOREM TypeCorrect == Spec => []TypeOK
<1> DEFINE AsideTypeOK == typing \in BOOLEAN /\ stuck \subseteq Products
<1>1. Init => AsideTypeOK
  BY DEF Init
<1>2. AsideTypeOK /\ [Next]_vars => AsideTypeOK'
  BY DEF Next, Works, Loses, Drains, Advances, Hides, Hangs, Types, aside, vars, User, SettleTitlebar
<1>3. IInv /\ AsideTypeOK => TypeOK
  BY DEF IInv, TypeOK
<1> QED
  BY <1>1, <1>2, <1>3, Inductive, PTL DEF Spec

\* A worker blocked in the browser callback has its page open or still to come:
\* no page, stage, refresh or sign-out of another product leaves it there.
THEOREM NobodyWaits == Spec => []NobodyWaitsUnseen
<1>1. IInv => NobodyWaitsUnseen
  BY DEF IInv
<1> QED
  BY <1>1, Inductive, PTL

\* advance_connect_queue's queue never holds a product twice, the one in
\* flight, or one that is not licensed.
THEOREM QueueStaysSound == Spec => []QueueSound
<1>1. IInv => QueueSound
  BY DEF IInv
<1> QED
  BY <1>1, Inductive, PTL

\* A product whose worker has ended is shown as disconnected once its events
\* are handled, whatever the user did meanwhile.
THEOREM QuietProducts == Spec => []QuietMeansDisconnected
<1>1. IInv => QuietMeansDisconnected
  BY DEF IInv, LastWord, Settles, QuietMeansDisconnected
<1> QED
  BY <1>1, Inductive, PTL

-----------------------------------------------------------------------------
(***************************************************************************)
(* One account.  SameAccount does not hold of every behaviour: a user who  *)
(* signs out while an account is still among the events, or who reconnects *)
(* or refreshes before any account has been adopted, leaves a Connect that *)
(* expects nobody behind one that did, and the two may sign in as          *)
(* different people.  Without such an action the one Connect that the      *)
(* application starts with is the only one that expects nobody.  Before it *)
(* has signed in nothing in the system names an account (Fresh); from then *)
(* on, everything that does names the same one (Pledged).                  *)
(***************************************************************************)

\* The accounts that events name, and those that commands ask for.
Names(evs, who) == \A i \in DOMAIN evs : evs[i].kind = "Account" => evs[i].account \in who
Asked(cmds, who) == \A i \in DOMAIN cmds : cmds[i].kind = "Connect" => cmds[i].account \in who

\* The worker of p, its commands and its events know of nobody but who.
Bound(p, who) ==
  /\ Names(events[p], who)
  /\ Asked(commands[p], who)
  /\ phase[p] \in {"signing", "asking"} => expected[p] \in who
  /\ phase[p] = "up" => identity[p] \in who /\ (p = "W3" => expected[p] \in who)

\* Neither does the application.
Knows(who) ==
  /\ authoritative \in who \cup {NoAccount}
  /\ \A p \in Products : session[p].account \in who \cup {NoAccount}

\* StarCraft II's worker has the first Connect before it, or has taken it and
\* not signed in yet, or has failed to.
Start ==
  /\ Names(events["S2"], {})
  /\ phase["S2"] # "up"
  /\ \/ phase["S2"] = "idle" /\ commands["S2"] = <<Connect(NoAccount)>>
     \/ Asked(commands["S2"], {})

Fresh == Knows({}) /\ Start /\ \A p \in Products \ {"S2"} : Bound(p, {})
Pledged(account) == Knows({account}) /\ \A p \in Products : Bound(p, {account})
OneAccount == Fresh \/ \E account \in Accounts : Pledged(account)

\* Events put together name nobody but those that the two name.
LEMMA NamesMore ==
  ASSUME NEW who, NEW evs \in Seq(Events), NEW sent \in Seq(Events), Names(evs, who), Names(sent, who)
  PROVE  Names(evs \o sent, who)
<1> DEFINE all == evs \o sent
<1>1. /\ Len(evs) \in Nat /\ Len(sent) \in Nat /\ DOMAIN all = 1 .. Len(evs) + Len(sent)
      /\ \A i \in 1 .. Len(evs) : all[i] = evs[i]
      /\ \A i \in 1 .. Len(sent) : all[Len(evs) + i] = sent[i]
  BY ConcatPlaces
<1> HIDE DEF all
<1>2. ASSUME NEW i \in DOMAIN all, all[i].kind = "Account"
      PROVE  all[i].account \in who
  <2>1. CASE i \in 1 .. Len(evs)
    BY <1>1, <1>2, <2>1 DEF Names
  <2>2. CASE i \notin 1 .. Len(evs)
    <3>1. i - Len(evs) \in 1 .. Len(sent) /\ i = Len(evs) + (i - Len(evs))
      BY <1>1, <2>2
    <3>2. all[i] = sent[i - Len(evs)] /\ i - Len(evs) \in DOMAIN sent
      BY <1>1, <3>1
    <3> QED
      BY <1>2, <3>2 DEF Names
  <2> QED
    BY <2>1, <2>2
<1> QED
  BY <1>2 DEF Names, all

\* Handling an event leaves the names behind it, and is told one of them.
LEMMA NamesStill ==
  ASSUME NEW who, NEW evs \in Seq(Events), evs # <<>>, Names(evs, who)
  PROVE  /\ Names(Tail(evs), who)
         /\ Head(evs).kind = "Account" => Head(evs).account \in who
<1>1. /\ Len(evs) \in Nat \ {0} /\ Tail(evs) \in Seq(Events) /\ Len(Tail(evs)) = Len(evs) - 1
      /\ Head(evs) = evs[1] /\ \A i \in 1 .. Len(Tail(evs)) : Tail(evs)[i] = evs[i + 1]
  BY HeadTailProperties
<1>2. 1 \in DOMAIN evs /\ \A i \in DOMAIN Tail(evs) : i + 1 \in DOMAIN evs /\ Tail(evs)[i] = evs[i + 1]
  BY <1>1
<1> QED
  BY <1>1, <1>2 DEF Names

\* Commands put together ask for nobody but those that the two ask for.
LEMMA AskedMore ==
  ASSUME NEW who, NEW cmds \in Seq(Commands), NEW sent \in Seq(Commands), Asked(cmds, who), Asked(sent, who)
  PROVE  Asked(cmds \o sent, who)
<1> DEFINE all == cmds \o sent
<1>1. /\ Len(cmds) \in Nat /\ Len(sent) \in Nat /\ DOMAIN all = 1 .. Len(cmds) + Len(sent)
      /\ \A i \in 1 .. Len(cmds) : all[i] = cmds[i]
      /\ \A i \in 1 .. Len(sent) : all[Len(cmds) + i] = sent[i]
  BY ConcatPlaces
<1> HIDE DEF all
<1>2. ASSUME NEW i \in DOMAIN all, all[i].kind = "Connect"
      PROVE  all[i].account \in who
  <2>1. CASE i \in 1 .. Len(cmds)
    BY <1>1, <1>2, <2>1 DEF Asked
  <2>2. CASE i \notin 1 .. Len(cmds)
    <3>1. i - Len(cmds) \in 1 .. Len(sent) /\ i = Len(cmds) + (i - Len(cmds))
      BY <1>1, <2>2
    <3>2. all[i] = sent[i - Len(cmds)] /\ i - Len(cmds) \in DOMAIN sent
      BY <1>1, <3>1
    <3> QED
      BY <1>2, <3>2 DEF Asked
  <2> QED
    BY <2>1, <2>2
<1> QED
  BY <1>2 DEF Asked, all

\* Taking a command leaves those behind it, and asks for one of them.
LEMMA AskedStill ==
  ASSUME NEW who, NEW cmds \in Seq(Commands), cmds # <<>>, Asked(cmds, who)
  PROVE  /\ Asked(Tail(cmds), who)
         /\ Head(cmds).kind = "Connect" => Head(cmds).account \in who
<1>1. /\ Len(cmds) \in Nat \ {0} /\ Tail(cmds) \in Seq(Commands) /\ Len(Tail(cmds)) = Len(cmds) - 1
      /\ Head(cmds) = cmds[1] /\ \A i \in 1 .. Len(Tail(cmds)) : Tail(cmds)[i] = cmds[i + 1]
  BY HeadTailProperties
<1>2. 1 \in DOMAIN cmds /\ \A i \in DOMAIN Tail(cmds) : i + 1 \in DOMAIN cmds /\ Tail(cmds)[i] = cmds[i + 1]
  BY <1>1
<1> QED
  BY <1>1, <1>2 DEF Asked

\* What names nobody names nobody but who.
LEMMA NobodyNamed ==
  ASSUME NEW who
  PROVE  /\ \A evs : Names(evs, {}) => Names(evs, who)
         /\ \A cmds : Asked(cmds, {}) => Asked(cmds, who)
  BY DEF Names, Asked

\* The sequences that the workers send name nobody, but for an Account.
LEMMA SentNames ==
  /\ Names(<<>>, {}) /\ Names(Failure, {}) /\ Names(<<Event("Error")>>, {})
  /\ \A stage \in Stages : Names(<<Stage(stage)>>, {})
  /\ Names(<<Event("Authentication")>>, {})
  /\ \A account \in Accounts : Names(<<Account(account, FALSE, {})>>, {account})
  /\ \A account \in Accounts, listed \in BOOLEAN : \A games :
       Names(<<Account(account, listed, games), Stage("GameUtilities")>>, {account})
<1>1. Names(<<>>, {}) /\ Names(Failure, {}) /\ Names(<<Event("Error")>>, {})
  BY DEF Names, Failure, Event, Stage
<1>2. \A stage \in Stages : Names(<<Stage(stage)>>, {})
  BY DEF Names, Stage
<1>3. Names(<<Event("Authentication")>>, {})
  BY DEF Names, Event
<1>4. \A account \in Accounts : Names(<<Account(account, FALSE, {})>>, {account})
  BY DEF Names, Account
<1>5. ASSUME NEW account \in Accounts, NEW listed \in BOOLEAN, NEW games
      PROVE  Names(<<Account(account, listed, games), Stage("GameUtilities")>>, {account})
  BY DEF Names, Account, Stage
<1> QED
  BY <1>1, <1>2, <1>3, <1>4, <1>5

-----------------------------------------------------------------------------
(* The steps of a worker, by what they do with accounts.                   *)

\* The worker of p takes a command.
Takes(p) == commands[p] # <<>> /\ commands'[p] = Tail(commands[p])

\* Nothing else in the system moves.
Aside(p) ==
  /\ view' = view
  /\ \A q \in Products \ {p} :
       /\ phase'[q] = phase[q] /\ expected'[q] = expected[q] /\ identity'[q] = identity[q]
       /\ commands'[q] = commands[q] /\ events'[q] = events[q]

\* It starts to sign in as the account of a Connect, carries on with the one
\* that it expects, proves an account, or is done with the attempt.
Starts(p) ==
  /\ phase[p] = "idle" /\ Takes(p) /\ Head(commands[p]).kind = "Connect"
  /\ phase'[p] = "signing" /\ expected'[p] = Head(commands[p]).account
CarriesOn(p) ==
  /\ phase[p] \in {"signing", "asking"} \/ (phase[p] = "up" /\ p = "W3")
  /\ commands'[p] = commands[p]
  /\ phase'[p] \in {"signing", "asking"} /\ expected'[p] = expected[p]
Proves(p, account) ==
  /\ phase[p] \in {"signing", "asking"}
  /\ expected[p] \in {NoAccount, account}
  /\ commands'[p] = commands[p]
  /\ phase'[p] = "up" /\ expected'[p] = expected[p] /\ identity'[p] = account
Leaves(p) ==
  /\ phase'[p] \in {"idle", "live"}
  /\ Takes(p) \/ (commands'[p] = commands[p] /\ phase[p] # "idle")

\* Only who has proved an account names it.
Move(p, sent) ==
  /\ Aside(p)
  /\ events'[p] = events[p] \o sent
  /\ \/ (Starts(p) \/ CarriesOn(p) \/ Leaves(p)) /\ Names(sent, {})
     \/ Leaves(p) /\ phase[p] = "up" /\ p # "S2" /\ Names(sent, {identity[p]})
     \/ \E account \in Accounts : Proves(p, account) /\ Names(sent, {account})

\* The variables that a worker's step sets, at each product.
LEMMA StepSets ==
  ASSUME WorkersType, NEW p \in Products
  PROVE  /\ \A next : Becomes(p, next) =>
              phase'[p] = next /\ \A q \in Products \ {p} : phase'[q] = phase[q]
         /\ \A wanted, who, n : Attempt(p, wanted, who, n) =>
              /\ expected'[p] = wanted /\ identity'[p] = who
              /\ \A q \in Products \ {p} : expected'[q] = expected[q] /\ identity'[q] = identity[q]
         /\ \A sent : Emit(p, sent) =>
              events'[p] = events[p] \o sent /\ \A q \in Products \ {p} : events'[q] = events[q]
         /\ commands' = [commands EXCEPT ![p] = Tail(@)] =>
              commands'[p] = Tail(commands[p]) /\ \A q \in Products \ {p} : commands'[q] = commands[q]
  BY DEF WorkersType, Becomes, Attempt, Emit

\* Signing in names the account that is proved.
LEMMA SignsInNames ==
  ASSUME NEW p \in Products, NEW account \in Accounts, SignsIn(p, account)
  PROVE  \E sent \in Seq(Events) : Emit(p, sent) /\ Names(sent, {account})
<1>1. /\ "GameUtilities" \in Stages /\ Stage("GameUtilities") \in Events
      /\ <<Stage("GameUtilities")>> \in Seq(Events) /\ Names(<<Stage("GameUtilities")>>, {account})
  BY EventKinds, SentTypes, SentNames, NobodyNamed DEF Stages
<1>2. CASE p = "S2"
  <2>1. CASE Emit(p, <<Account(account, FALSE, {}), Stage("GameUtilities")>>)
    <3>1. <<Account(account, FALSE, {}), Stage("GameUtilities")>> \in Seq(Events)
      BY <1>1, EventKinds, Pair
    <3> QED
      BY <2>1, <3>1, SentNames
  <2>2. CASE \E games \in Catalogues :
               LET minted == Retained(ALL, games \ {"S2"})
               IN Emit(p, [i \in DOMAIN minted |-> Credential(minted[i])]
                            \o <<Account(account, TRUE, games), Stage("GameUtilities")>>)
    <3>1. PICK games \in Catalogues :
             LET minted == Retained(ALL, games \ {"S2"})
             IN Emit(p, [i \in DOMAIN minted |-> Credential(minted[i])]
                          \o <<Account(account, TRUE, games), Stage("GameUtilities")>>)
      BY <2>2
    <3> DEFINE minted == Retained(ALL, games \ {"S2"})
               first == [i \in DOMAIN minted |-> Credential(minted[i])]
               last == <<Account(account, TRUE, games), Stage("GameUtilities")>>
    <3>2. minted \in Seq(Products)
      BY AllProperties, RetainedProperties
    <3> HIDE DEF minted
    <3>3. first \in Seq(Events)
      <4>1. Len(minted) \in Nat /\ DOMAIN minted = 1 .. Len(minted)
        BY <3>2
      <4>2. \A i \in 1 .. Len(minted) : Credential(minted[i]) \in Events
        BY <3>2, EventKinds
      <4>3. first \in [1 .. Len(minted) -> Events]
        BY <4>1, <4>2
      <4> QED
        BY <4>1, <4>3, SeqDef
    <3>4. Names(first, {account})
      BY DEF Names, Credential
    <3>5. last \in Seq(Events) /\ Names(last, {account})
      BY <1>1, EventKinds, Pair, SentNames
    <3> HIDE DEF first, last
    <3>6. first \o last \in Seq(Events) /\ Names(first \o last, {account})
      BY <3>3, <3>4, <3>5, ConcatPlaces, NamesMore
    <3> QED
      BY <3>1, <3>6 DEF minted, first, last
  <2> QED
    BY <1>2, <2>1, <2>2 DEF SignsIn
<1>3. CASE p # "S2"
  BY <1>1, <1>3 DEF SignsIn
<1> QED
  BY <1>2, <1>3

\* Every step of a worker is one of these.
LEMMA WorkerMoves ==
  ASSUME WorkersType, Proved, NEW p \in Products, WorkerSteps(p) \/ WorkerLost(p)
  PROVE  \E sent \in Seq(Events) : Move(p, sent)
<1>1. /\ \A stage \in Stages : <<Stage(stage)>> \in Seq(Events) /\ Names(<<Stage(stage)>>, {})
      /\ <<>> \in Seq(Events) /\ Names(<<>>, {})
      /\ Failure \in Seq(Events) /\ Names(Failure, {})
      /\ <<Event("Error")>> \in Seq(Events) /\ Names(<<Event("Error")>>, {})
      /\ {"Disconnected", "WebAuthentication", "GameUtilities", "Connected"} \subseteq Stages
  BY SentTypes, SentNames DEF Stages
<1>2. ASSUME NEW evs \in Seq(Events), NEW sent \in Seq(Events), NEW who, Names(evs, who), Names(sent, {})
      PROVE  evs \o sent \in Seq(Events) /\ Names(evs \o sent, who)
  BY <1>2, ConcatPlaces, NamesMore, NobodyNamed
<1>3. ASSUME NEW account \in Accounts, SignsIn(p, account), phase[p] \in {"signing", "asking"},
             commands' = commands, view' = view
      PROVE  \E sent \in Seq(Events) : Move(p, sent)
  <2>1. PICK sent \in Seq(Events) : Emit(p, sent) /\ Names(sent, {account})
    BY <1>3, SignsInNames
  <2>2. /\ Becomes(p, "up") /\ Attempt(p, expected[p], account, tries[p])
        /\ expected[p] \in {NoAccount, account}
    BY <1>3 DEF SignsIn
  <2>3. Proves(p, account) /\ Aside(p) /\ events'[p] = events[p] \o sent
    BY <1>3, <2>1, <2>2, StepSets DEF Proves, Aside
  <2> QED
    BY <2>1, <2>3 DEF Move
<1>4. ASSUME NEW sent \in Seq(Events), Names(sent, {}), Idles(p), Emit(p, sent), view' = view,
             \/ commands[p] # <<>> /\ commands' = [commands EXCEPT ![p] = Tail(@)]
             \/ commands' = commands /\ phase[p] # "idle"
      PROVE  \E s \in Seq(Events) : Move(p, s)
  <2>1. Leaves(p) /\ Aside(p) /\ events'[p] = events[p] \o sent
    BY <1>4, StepSets DEF Leaves, Aside, Takes, Idles
  <2> QED
    BY <1>4, <2>1 DEF Move
<1>5. CASE WorkerConnect(p)
  <2>1. /\ phase[p] = "idle" /\ commands[p] # <<>> /\ Head(commands[p]).kind = "Connect"
        /\ commands' = [commands EXCEPT ![p] = Tail(@)] /\ view' = view
    BY <1>5 DEF WorkerConnect
  <2>2. CASE /\ Becomes(p, "signing") /\ Attempt(p, Head(commands[p]).account, NoAccount, 0)
             /\ Emit(p, <<Stage("WebAuthentication")>>)
    <3>1. phase'[p] = "signing" /\ \A q \in Products \ {p} : phase'[q] = phase[q]
      BY <2>2, StepSets
    <3>2. /\ expected'[p] = Head(commands[p]).account
          /\ \A q \in Products \ {p} : expected'[q] = expected[q] /\ identity'[q] = identity[q]
      BY <2>2, StepSets
    <3>3. /\ events'[p] = events[p] \o <<Stage("WebAuthentication")>>
          /\ \A q \in Products \ {p} : events'[q] = events[q]
      BY <2>2, StepSets
    <3>4. commands'[p] = Tail(commands[p]) /\ \A q \in Products \ {p} : commands'[q] = commands[q]
      BY <2>1, StepSets
    <3>5. Starts(p) /\ Aside(p)
      BY <2>1, <3>1, <3>2, <3>3, <3>4 DEF Starts, Aside, Takes
    <3> QED
      BY <1>1, <3>3, <3>5 DEF Move
  <2>3. CASE Idles(p) /\ Emit(p, Failure)
    BY <1>1, <1>4, <2>1, <2>3
  <2> QED
    BY <1>5, <2>2, <2>3 DEF WorkerConnect
<1>6. CASE WorkerIdleCommand(p)
  <2>1. /\ phase[p] = "idle" /\ commands[p] # <<>> /\ workers' = workers
        /\ commands' = [commands EXCEPT ![p] = Tail(@)] /\ view' = view
    BY <1>6 DEF WorkerIdleCommand
  <2>2. PICK sent \in Seq(Events) : Emit(p, sent) /\ Names(sent, {})
    <3>1. CASE Emit(p, <<>>) \/ Emit(p, <<Event("Error")>>)
      BY <1>1, <3>1
    <3>2. CASE \E failed \in {<<>>, <<Event("Error")>>} : Emit(p, failed \o <<Stage("Disconnected")>>)
      BY <1>1, <1>2, <3>2
    <3> QED
      BY <1>6, <3>1, <3>2 DEF WorkerIdleCommand
  <2>3. events'[p] = events[p] \o sent /\ \A q \in Products \ {p} : events'[q] = events[q]
    BY <2>2, StepSets
  <2>4. commands'[p] = Tail(commands[p]) /\ \A q \in Products \ {p} : commands'[q] = commands[q]
    BY <2>1, StepSets
  <2>5. phase' = phase /\ expected' = expected /\ identity' = identity
    BY <2>1 DEF workers
  <2>6. Leaves(p) /\ Aside(p)
    BY <2>1, <2>3, <2>4, <2>5 DEF Leaves, Aside, Takes
  <2> QED
    BY <2>2, <2>3, <2>6 DEF Move
<1>7. CASE WorkerAsks(p)
  <2>1. /\ phase[p] = "signing" /\ Becomes(p, "asking") /\ commands' = commands /\ view' = view
        /\ Attempt(p, expected[p], identity[p], tries[p] + 1)
    BY <1>7 DEF WorkerAsks
  <2>2. PICK sent \in Seq(Events) : Emit(p, sent) /\ Names(sent, {})
    <3> DEFINE first == IF tries[p] > 0 THEN <<Stage("WebAuthentication")>> ELSE <<>>
               last == <<Event("Authentication")>>
    <3>1. first \in Seq(Events) /\ Names(first, {})
      BY <1>1
    <3>2. last \in Seq(Events) /\ Names(last, {})
      BY EventKinds, Pair, SentNames
    <3>3. Emit(p, first \o last)
      BY <1>7 DEF WorkerAsks
    <3> HIDE DEF first, last
    <3> QED
      BY <1>2, <3>1, <3>2, <3>3
  <2>3. CarriesOn(p) /\ Aside(p) /\ events'[p] = events[p] \o sent
    BY <2>1, <2>2, StepSets DEF CarriesOn, Aside
  <2> QED
    BY <2>2, <2>3 DEF Move
<1>8. CASE WorkerSignsIn(p)
  BY <1>3, <1>8 DEF WorkerSignsIn
<1>9. CASE WorkerAnswered(p)
  <2>1. phase[p] = "asking" /\ commands' = commands /\ view' = view
    BY <1>9 DEF WorkerAnswered
  <2>2. CASE Continues(p, "signing") /\ Emit(p, <<>>)
    <3>1. Becomes(p, "signing") /\ expected' = expected /\ identity' = identity
      BY <2>2 DEF Continues
    <3>2. phase'[p] = "signing" /\ \A q \in Products \ {p} : phase'[q] = phase[q]
      BY <3>1, StepSets
    <3>3. events'[p] = events[p] \o <<>> /\ \A q \in Products \ {p} : events'[q] = events[q]
      BY <2>2, StepSets
    <3>4. CarriesOn(p) /\ Aside(p)
      BY <2>1, <3>1, <3>2, <3>3 DEF CarriesOn, Aside
    <3> QED
      BY <1>1, <3>3, <3>4 DEF Move
  <2>3. CASE Idles(p) /\ Emit(p, Failure)
    BY <1>1, <1>4, <2>1, <2>3
  <2>4. CASE reply[p] \in Accounts /\ SignsIn(p, reply[p])
    BY <1>3, <2>1, <2>4
  <2> QED
    BY <1>9, <2>2, <2>3, <2>4 DEF WorkerAnswered
<1>10. CASE WorkerComesUp(p)
  <2> DEFINE published == IF p = "S2" THEN <<>> ELSE <<Account(identity[p], FALSE, {})>>
  <2>1. /\ phase[p] = "up" /\ commands' = commands /\ view' = view /\ identity[p] \in Accounts
        /\ \/ Becomes(p, "live") /\ Attempt(p, NoAccount, NoAccount, 0) /\ Emit(p, published \o <<Stage("Connected")>>)
           \/ p = "S1" /\ Idles(p) /\ Emit(p, published \o Failure)
    BY <1>10 DEF WorkerComesUp, Proved
  <2>2. /\ published \in Seq(Events) /\ Names(published, {identity[p]})
        /\ p = "S2" => Names(published, {})
    <3>1. CASE p = "S2"
      BY <1>1, <3>1, NobodyNamed
    <3>2. CASE p # "S2"
      BY <2>1, <3>2, EventKinds, Pair, SentNames
    <3> QED
      BY <3>1, <3>2
  <2> HIDE DEF published
  <2>3. PICK sent \in Seq(Events) : /\ Names(sent, {identity[p]}) /\ (p = "S2" => Names(sent, {}))
                                    /\ Emit(p, sent) /\ Leaves(p) /\ Aside(p)
    <3>1. CASE Becomes(p, "live") /\ Attempt(p, NoAccount, NoAccount, 0) /\ Emit(p, published \o <<Stage("Connected")>>)
      <4>1. /\ published \o <<Stage("Connected")>> \in Seq(Events)
            /\ Names(published \o <<Stage("Connected")>>, {identity[p]})
            /\ p = "S2" => Names(published \o <<Stage("Connected")>>, {})
        BY <1>1, <1>2, <2>2
      <4>2. Leaves(p) /\ Aside(p)
        BY <2>1, <3>1, StepSets DEF Leaves, Aside
      <4> QED
        BY <3>1, <4>1, <4>2
    <3>2. CASE p = "S1" /\ Idles(p) /\ Emit(p, published \o Failure)
      <4>1. published \o Failure \in Seq(Events) /\ Names(published \o Failure, {identity[p]})
        BY <1>1, <1>2, <2>2
      <4>2. Leaves(p) /\ Aside(p)
        BY <2>1, <3>2, StepSets DEF Leaves, Aside, Idles
      <4> QED
        BY <3>2, <4>1, <4>2
    <3> QED
      BY <2>1, <3>1, <3>2
  <2>4. events'[p] = events[p] \o sent
    BY <2>3, StepSets
  <2> QED
    BY <2>1, <2>3, <2>4 DEF Move
<1>11. CASE WorkerRestarts(p)
  <2>1. /\ phase[p] = "up" /\ p = "W3" /\ Becomes(p, "signing") /\ commands' = commands /\ view' = view
        /\ Attempt(p, expected[p], NoAccount, tries[p] + 1) /\ Emit(p, <<Stage("WebAuthentication")>>)
    BY <1>11 DEF WorkerRestarts
  <2>2. phase'[p] = "signing" /\ \A q \in Products \ {p} : phase'[q] = phase[q]
    BY <2>1, StepSets
  <2>3. /\ expected'[p] = expected[p]
        /\ \A q \in Products \ {p} : expected'[q] = expected[q] /\ identity'[q] = identity[q]
    BY <2>1, StepSets
  <2>4. /\ events'[p] = events[p] \o <<Stage("WebAuthentication")>>
        /\ \A q \in Products \ {p} : events'[q] = events[q]
    BY <1>1, <2>1, EmitType
  <2>5. CarriesOn(p) /\ Aside(p)
    BY <2>1, <2>2, <2>3, <2>4 DEF CarriesOn, Aside
  <2> QED
    BY <1>1, <2>4, <2>5 DEF Move
<1>12. CASE WorkerBringUpFails(p) \/ WorkerLost(p)
  <2>1. Idles(p) /\ Emit(p, Failure) /\ commands' = commands /\ view' = view /\ phase[p] # "idle"
    BY <1>12 DEF WorkerBringUpFails, WorkerLost
  <2> QED
    BY <1>1, <1>4, <2>1
<1>13. CASE WorkerDisconnects(p)
  <2>1. /\ commands[p] # <<>> /\ commands' = [commands EXCEPT ![p] = Tail(@)] /\ view' = view /\ Idles(p)
        /\ Emit(p, <<>>) \/ Emit(p, <<Stage("Disconnected")>>) \/ Emit(p, Failure)
    BY <1>13 DEF WorkerDisconnects
  <2>2. PICK sent \in Seq(Events) : Emit(p, sent) /\ Names(sent, {})
    BY <1>1, <2>1
  <2> QED
    BY <1>4, <2>1, <2>2
<1>14. CASE WorkerLiveCommand(p)
  <2>1. /\ commands[p] # <<>> /\ commands' = [commands EXCEPT ![p] = Tail(@)] /\ view' = view
        /\ \/ Continues(p, "live") /\ Emit(p, <<>>)
           \/ Idles(p) /\ (Emit(p, <<Stage("Disconnected")>>) \/ Emit(p, Failure))
    BY <1>14 DEF WorkerLiveCommand
  <2>2. CASE Continues(p, "live") /\ Emit(p, <<>>)
    <3>1. Becomes(p, "live") /\ expected' = expected /\ identity' = identity
      BY <2>2 DEF Continues
    <3>2. phase'[p] = "live" /\ \A q \in Products \ {p} : phase'[q] = phase[q]
      BY <3>1, StepSets
    <3>3. events'[p] = events[p] \o <<>> /\ \A q \in Products \ {p} : events'[q] = events[q]
      BY <2>2, StepSets
    <3>4. commands'[p] = Tail(commands[p]) /\ \A q \in Products \ {p} : commands'[q] = commands[q]
      BY <2>1, StepSets
    <3>5. Leaves(p) /\ Aside(p)
      BY <2>1, <3>1, <3>2, <3>3, <3>4 DEF Leaves, Aside, Takes
    <3> QED
      BY <1>1, <3>3, <3>5 DEF Move
  <2>3. CASE Idles(p) /\ (Emit(p, <<Stage("Disconnected")>>) \/ Emit(p, Failure))
    <3>1. PICK sent \in Seq(Events) : Emit(p, sent) /\ Names(sent, {})
      BY <1>1, <2>3
    <3> QED
      BY <1>4, <2>1, <2>3, <3>1
  <2> QED
    BY <2>1, <2>2, <2>3
<1> QED
  BY <1>5, <1>6, <1>7, <1>8, <1>9, <1>10, <1>11, <1>12, <1>13, <1>14 DEF WorkerSteps

\* A worker that knows of nobody but who proves and names nobody else.
LEMMA MoveBound ==
  ASSUME WorkersType, NEW p \in Products, NEW sent \in Seq(Events), Move(p, sent),
         NEW who \in SUBSET Accounts, Bound(p, who)
  PROVE  Bound(p, who)'
<1>1. /\ events[p] \in Seq(Events) /\ commands[p] \in Seq(Commands) /\ NoAccount \notin who
      /\ events'[p] = events[p] \o sent
  BY AccountAssumption DEF WorkersType, Move
<1>2. /\ Names(events[p], who) /\ Asked(commands[p], who)
      /\ phase[p] \in {"signing", "asking"} => expected[p] \in who
      /\ phase[p] = "up" => identity[p] \in who /\ (p = "W3" => expected[p] \in who)
  BY DEF Bound
<1>3. Takes(p) => /\ Asked(commands'[p], who)
                  /\ Head(commands[p]).kind = "Connect" => Head(commands[p]).account \in who
  BY <1>1, <1>2, AskedStill DEF Takes
<1>4. Names(sent, who) => Names(events'[p], who)
  BY <1>1, <1>2, NamesMore
<1>5. CASE (Starts(p) \/ CarriesOn(p) \/ Leaves(p)) /\ Names(sent, {})
  <2>1. Names(events'[p], who)
    BY <1>4, <1>5, NobodyNamed
  <2>2. Asked(commands'[p], who)
    BY <1>2, <1>3, <1>5 DEF Starts, CarriesOn, Leaves
  <2>3. /\ phase'[p] \in {"signing", "asking"} => expected'[p] \in who
        /\ phase'[p] # "up"
    BY <1>2, <1>3, <1>5 DEF Starts, CarriesOn, Leaves
  <2> QED
    BY <2>1, <2>2, <2>3 DEF Bound
<1>6. CASE Leaves(p) /\ phase[p] = "up" /\ p # "S2" /\ Names(sent, {identity[p]})
  <2>1. Names(sent, who)
    BY <1>2, <1>6 DEF Names
  <2>2. Asked(commands'[p], who) /\ phase'[p] \notin {"signing", "asking", "up"}
    BY <1>2, <1>3, <1>6 DEF Leaves
  <2> QED
    BY <1>4, <2>1, <2>2 DEF Bound
<1>7. ASSUME NEW account \in Accounts, Proves(p, account), Names(sent, {account})
      PROVE  Bound(p, who)'
  <2>1. account \in who /\ expected[p] \in who
    BY <1>1, <1>2, <1>7 DEF Proves
  <2>2. Names(sent, who)
    BY <1>7, <2>1 DEF Names
  <2>3. /\ commands'[p] = commands[p] /\ phase'[p] = "up"
        /\ expected'[p] = expected[p] /\ identity'[p] = account
    BY <1>7 DEF Proves
  <2> QED
    BY <1>2, <1>4, <2>1, <2>2, <2>3 DEF Bound
<1> QED
  BY <1>5, <1>6, <1>7 DEF Move

\* StarCraft II's first sign-in names the account for everybody.
LEMMA MoveStarts ==
  ASSUME WorkersType, NEW sent \in Seq(Events), Move("S2", sent), Start
  PROVE  Start' \/ \E account \in Accounts : Bound("S2", {account})'
<1>0. "S2" \in Products
  BY ProductAssumption
<1>1. /\ events["S2"] \in Seq(Events) /\ commands["S2"] \in Seq(Commands)
      /\ events'["S2"] = events["S2"] \o sent
  BY <1>0 DEF WorkersType, Move
<1>2. /\ Names(events["S2"], {}) /\ phase["S2"] # "up"
      /\ \/ phase["S2"] = "idle" /\ commands["S2"] = <<Connect(NoAccount)>>
         \/ Asked(commands["S2"], {})
  BY DEF Start
<1>3. Takes("S2") => Asked(commands'["S2"], {})
  <2>1. CASE commands["S2"] = <<Connect(NoAccount)>>
    <3>1. Tail(<<Connect(NoAccount)>>) = <<>>
      OBVIOUS
    <3> QED
      BY <2>1, <3>1 DEF Takes, Asked
  <2>2. CASE Asked(commands["S2"], {})
    BY <1>1, <2>2, AskedStill DEF Takes
  <2> QED
    BY <1>2, <2>1, <2>2
<1>4. CASE (Starts("S2") \/ CarriesOn("S2") \/ Leaves("S2")) /\ Names(sent, {})
  <2>1. Names(events'["S2"], {})
    BY <1>1, <1>2, <1>4, NamesMore
  <2>2. Asked(commands'["S2"], {})
    BY <1>2, <1>3, <1>4 DEF Starts, CarriesOn, Leaves
  <2>3. phase'["S2"] # "up"
    BY <1>4 DEF Starts, CarriesOn, Leaves
  <2> QED
    BY <2>1, <2>2, <2>3 DEF Start
<1>5. ASSUME NEW account \in Accounts, Proves("S2", account), Names(sent, {account})
      PROVE  Bound("S2", {account})'
  <2>1. /\ commands'["S2"] = commands["S2"] /\ phase'["S2"] = "up" /\ identity'["S2"] = account
        /\ Asked(commands["S2"], {})
    BY <1>2, <1>5 DEF Proves
  <2>2. Asked(commands'["S2"], {account})
    BY <2>1, NobodyNamed
  <2>3. Names(events["S2"], {account})
    BY <1>2, NobodyNamed
  <2>4. Names(events'["S2"], {account})
    BY <1>1, <1>5, <2>3, NamesMore
  <2> QED
    BY <2>1, <2>2, <2>4 DEF Bound
<1> QED
  BY <1>4, <1>5 DEF Move

\* A worker's step keeps the account.
LEMMA WorkersAgree ==
  ASSUME WorkersType, Proved, NEW p \in Products, WorkerSteps(p) \/ WorkerLost(p), OneAccount
  PROVE  OneAccount'
<1>1. PICK sent \in Seq(Events) : Move(p, sent)
  BY WorkerMoves
<1>2. ASSUME NEW who PROVE Knows(who) => Knows(who)'
  BY <1>1 DEF Move, Aside, Knows, view
<1>3. ASSUME NEW who, NEW q \in Products \ {p} PROVE Bound(q, who) => Bound(q, who)'
  BY <1>1 DEF Move, Aside, Bound
<1>4. ASSUME NEW account \in Accounts, Pledged(account)
      PROVE  Pledged(account)'
  <2>1. Bound(p, {account})'
    BY <1>1, <1>4, MoveBound DEF Pledged
  <2> QED
    BY <1>2, <1>3, <1>4, <2>1 DEF Pledged
<1>5. CASE Fresh
  <2>0. "S2" \in Products
    BY ProductAssumption
  <2>1. CASE p # "S2"
    <3>1. Bound(p, {})'
      BY <1>1, <1>5, <2>1, MoveBound DEF Fresh
    <3>2. Start'
      <4>1. /\ phase'["S2"] = phase["S2"] /\ commands'["S2"] = commands["S2"]
            /\ events'["S2"] = events["S2"]
        BY <1>1, <2>0, <2>1 DEF Move, Aside
      <4> QED
        BY <1>5, <4>1 DEF Fresh, Start
    <3> QED
      BY <1>2, <1>3, <1>5, <3>1, <3>2 DEF Fresh, OneAccount
  <2>2. CASE p = "S2"
    <3>1. Start' \/ \E account \in Accounts : Bound("S2", {account})'
      BY <1>1, <1>5, <2>2, MoveStarts DEF Fresh
    <3>2. ASSUME NEW q \in Products \ {"S2"} PROVE Bound(q, {})'
      BY <1>3, <1>5, <2>2 DEF Fresh
    <3>3. CASE Start'
      BY <1>2, <1>5, <3>2, <3>3 DEF Fresh, OneAccount
    <3>4. ASSUME NEW account \in Accounts, Bound("S2", {account})'
          PROVE  Pledged(account)'
      <4>1. ASSUME NEW q \in Products \ {"S2"} PROVE Bound(q, {account})'
        BY <3>2, NobodyNamed DEF Bound
      <4>2. Knows({account})'
        BY <1>2, <1>5 DEF Fresh, Knows
      <4> QED
        BY <3>4, <4>1, <4>2 DEF Pledged
    <3> QED
      BY <3>1, <3>3, <3>4 DEF OneAccount
  <2> QED
    BY <2>1, <2>2
<1> QED
  BY <1>4, <1>5 DEF OneAccount

-----------------------------------------------------------------------------
(* The steps of the application, by what they do with accounts.            *)

\* The next event of some product names the account.
Told(account) ==
  \E p \in Products :
    events[p] # <<>> /\ Head(events[p]).kind = "Account" /\ account = Head(events[p]).account

\* A worker is sent Connects to the authoritative account alone, and StarCraft
\* II's nothing as long as there is none.
SentSafely(p, sent) ==
  /\ \A i \in DOMAIN sent :
       sent[i].kind = "Connect" => sent[i].account = authoritative /\ authoritative # NoAccount
  /\ p = "S2" /\ authoritative = NoAccount => sent = <<>>

\* The application learns of accounts from events alone.
AppStep ==
  /\ UNCHANGED <<phase, expected, identity>>
  /\ \A p \in Products : events'[p] = events[p] \/ (events[p] # <<>> /\ events'[p] = Tail(events[p]))
  /\ \A p \in Products : \E sent \in Seq(Commands) : commands'[p] = commands[p] \o sent /\ SentSafely(p, sent)
  /\ authoritative' = authoritative \/ Told(authoritative')
  /\ \A p \in Products :
       session'[p].account \in {session[p].account, NoAccount} \/ Told(session'[p].account)

\* Such a step keeps the account.
LEMMA AppAgrees ==
  ASSUME WorkersType, AppStep, OneAccount
  PROVE  OneAccount'
<1>1. /\ events \in [Products -> Seq(Events)] /\ commands \in [Products -> Seq(Commands)]
      /\ phase' = phase /\ expected' = expected /\ identity' = identity
  BY DEF WorkersType, AppStep
<1>2. ASSUME NEW who, Knows(who), \A p \in Products : Names(events[p], who)
      PROVE  Knows(who)'
  <2>1. ASSUME NEW account, Told(account) PROVE account \in who
    <3>1. PICK p \in Products :
            events[p] # <<>> /\ Head(events[p]).kind = "Account" /\ account = Head(events[p]).account
      BY <2>1 DEF Told
    <3> QED
      BY <1>1, <1>2, <3>1, NamesStill
  <2>2. authoritative' \in who \cup {NoAccount}
    BY <1>2, <2>1 DEF AppStep, Knows
  <2>3. ASSUME NEW p \in Products PROVE session'[p].account \in who \cup {NoAccount}
    BY <1>2, <2>1 DEF AppStep, Knows
  <2> QED
    BY <2>2, <2>3 DEF Knows
<1>3. ASSUME NEW who, NEW p \in Products, Names(events[p], who) PROVE Names(events'[p], who)
  BY <1>1, <1>3, NamesStill DEF AppStep
<1>4. ASSUME NEW who, authoritative \in who \cup {NoAccount}, NEW p \in Products, Bound(p, who)
      PROVE  Bound(p, who)'
  <2>1. PICK sent \in Seq(Commands) : commands'[p] = commands[p] \o sent /\ SentSafely(p, sent)
    BY DEF AppStep
  <2>2. Asked(sent, who)
    BY <1>4, <2>1 DEF SentSafely, Asked
  <2>3. Asked(commands'[p], who)
    BY <1>1, <1>4, <2>1, <2>2, AskedMore DEF Bound
  <2> QED
    BY <1>1, <1>3, <1>4, <2>3 DEF Bound
<1>5. ASSUME NEW account \in Accounts, Pledged(account)
      PROVE  Pledged(account)'
  <2>1. Knows({account}) /\ \A p \in Products : Bound(p, {account})
    BY <1>5 DEF Pledged
  <2>2. authoritative \in {account} \cup {NoAccount} /\ \A p \in Products : Names(events[p], {account})
    BY <2>1 DEF Knows, Bound
  <2>3. Knows({account})'
    BY <1>2, <2>1, <2>2
  <2>4. ASSUME NEW p \in Products PROVE Bound(p, {account})'
    BY <1>4, <2>1, <2>2
  <2> QED
    BY <2>3, <2>4 DEF Pledged
<1>6. CASE Fresh
  <2>0. "S2" \in Products
    BY ProductAssumption
  <2>1. Knows({}) /\ Start /\ \A p \in Products \ {"S2"} : Bound(p, {})
    BY <1>6 DEF Fresh
  <2>2. authoritative = NoAccount /\ authoritative \in {} \cup {NoAccount}
    BY <2>1 DEF Knows
  <2>3. \A p \in Products : Names(events[p], {})
    BY <2>1 DEF Start, Bound
  <2>4. Knows({})'
    BY <1>2, <2>1, <2>3
  <2>5. ASSUME NEW p \in Products \ {"S2"} PROVE Bound(p, {})'
    BY <1>4, <2>1, <2>2
  <2>6. Start'
    <3>1. PICK sent \in Seq(Commands) : commands'["S2"] = commands["S2"] \o sent /\ SentSafely("S2", sent)
      BY <2>0 DEF AppStep
    <3>2. sent = <<>>
      BY <2>2, <3>1 DEF SentSafely
    <3>3. commands["S2"] \in Seq(Commands)
      BY <1>1, <2>0
    <3>4. commands'["S2"] = commands["S2"]
      BY <3>1, <3>2, <3>3
    <3>5. Names(events'["S2"], {})
      BY <1>3, <2>0, <2>3
    <3> QED
      BY <1>1, <2>1, <3>4, <3>5 DEF Start
  <2> QED
    BY <2>4, <2>5, <2>6 DEF Fresh, OneAccount
<1> QED
  BY <1>5, <1>6 DEF OneAccount

\* Three sequences put together, in either order.
LEMMA Regrouped ==
  ASSUME NEW a \in Seq(Commands), NEW b \in Seq(Commands), NEW c \in Seq(Commands)
  PROVE  (a \o b) \o c = a \o (b \o c)
<1> DEFINE left == (a \o b) \o c
           right == a \o (b \o c)
<1>1. /\ a \o b \in Seq(Commands) /\ b \o c \in Seq(Commands)
      /\ Len(a) \in Nat /\ Len(b) \in Nat /\ Len(c) \in Nat
      /\ Len(a \o b) = Len(a) + Len(b) /\ Len(b \o c) = Len(b) + Len(c)
      /\ \A i \in 1 .. Len(a) : (a \o b)[i] = a[i]
      /\ \A i \in 1 .. Len(b) : (a \o b)[Len(a) + i] = b[i]
      /\ \A i \in 1 .. Len(b) : (b \o c)[i] = b[i]
      /\ \A i \in 1 .. Len(c) : (b \o c)[Len(b) + i] = c[i]
  BY ConcatPlaces
<1> DEFINE ab == a \o b
           bc == b \o c
<1> HIDE DEF ab, bc
<1>2. /\ ab \in Seq(Commands) /\ bc \in Seq(Commands)
      /\ Len(ab) = Len(a) + Len(b) /\ Len(bc) = Len(b) + Len(c)
  BY <1>1 DEF ab, bc
<1>3. /\ left = ab \o c /\ right = a \o bc
  BY DEF ab, bc
<1> HIDE DEF left, right
<1>4. /\ left \in Seq(Commands) /\ right \in Seq(Commands)
      /\ Len(left) = Len(ab) + Len(c) /\ Len(right) = Len(a) + Len(bc)
      /\ \A i \in 1 .. Len(ab) : left[i] = ab[i]
      /\ \A i \in 1 .. Len(c) : left[Len(ab) + i] = c[i]
      /\ \A i \in 1 .. Len(a) : right[i] = a[i]
      /\ \A i \in 1 .. Len(bc) : right[Len(a) + i] = bc[i]
  <2>0. ab \in Seq(Commands) /\ bc \in Seq(Commands)
    BY <1>2
  <2>1. /\ ab \o c \in Seq(Commands) /\ Len(ab \o c) = Len(ab) + Len(c)
        /\ \A i \in 1 .. Len(ab) : (ab \o c)[i] = ab[i]
        /\ \A i \in 1 .. Len(c) : (ab \o c)[Len(ab) + i] = c[i]
    BY <2>0, ConcatPlaces
  <2>2. /\ a \o bc \in Seq(Commands) /\ Len(a \o bc) = Len(a) + Len(bc)
        /\ \A i \in 1 .. Len(a) : (a \o bc)[i] = a[i]
        /\ \A i \in 1 .. Len(bc) : (a \o bc)[Len(a) + i] = bc[i]
    BY <2>0, ConcatPlaces
  <2> QED
    BY <1>3, <2>1, <2>2
<1>5. ASSUME NEW i \in 1 .. Len(left)
      PROVE  left[i] = right[i]
  <2>1. CASE i \in 1 .. Len(a)
    <3>1. i \in 1 .. Len(ab) /\ ab[i] = a[i]
      BY <1>1, <1>2, <2>1 DEF ab
    <3> QED
      BY <1>4, <2>1, <3>1
  <2>2. CASE i \notin 1 .. Len(a) /\ i \in 1 .. Len(ab)
    <3>1. i - Len(a) \in 1 .. Len(b) /\ i = Len(a) + (i - Len(a)) /\ i - Len(a) \in 1 .. Len(bc)
      BY <1>1, <1>2, <2>2
    <3>2. ab[i] = b[i - Len(a)] /\ bc[i - Len(a)] = b[i - Len(a)]
      BY <1>1, <3>1 DEF ab, bc
    <3> QED
      BY <1>4, <2>2, <3>1, <3>2
  <2>3. CASE i \notin 1 .. Len(ab)
    <3>1. /\ i - Len(ab) \in 1 .. Len(c) /\ i = Len(ab) + (i - Len(ab))
          /\ i - Len(a) \in 1 .. Len(bc) /\ i = Len(a) + (i - Len(a))
          /\ i - Len(a) = Len(b) + (i - Len(ab))
      BY <1>1, <1>2, <1>4, <2>3
    <3>2. bc[i - Len(a)] = c[i - Len(ab)]
      BY <1>1, <3>1 DEF bc
    <3> QED
      BY <1>4, <3>1, <3>2
  <2> QED
    BY <2>1, <2>2, <2>3
<1>6. Len(left) = Len(right)
  BY <1>1, <1>2, <1>4
<1>7. left = right
  BY <1>4, <1>5, <1>6, SeqEqual
<1> QED
  BY <1>7 DEF left, right

\* Nothing is sent.
LEMMA SentNothing ==
  ASSUME WorkersType, NEW p \in Products, commands'[p] = commands[p]
  PROVE  \E sent \in Seq(Commands) : commands'[p] = commands[p] \o sent /\ SentSafely(p, sent)
<1>1. <<>> \in Seq(Commands) /\ commands[p] \in Seq(Commands)
  BY DEF WorkersType
<1>2. commands[p] \o <<>> = commands[p] /\ SentSafely(p, <<>>)
  BY <1>1 DEF SentSafely
<1> QED
  BY <1>1, <1>2

\* One command is sent.
LEMMA SentOne ==
  ASSUME WorkersType, NEW p \in Products, NEW command \in Commands, Send(p, command),
         command.kind = "Connect" => command.account = authoritative /\ authoritative # NoAccount,
         p = "S2" => authoritative # NoAccount
  PROVE  \A q \in Products :
           \E sent \in Seq(Commands) : commands'[q] = commands[q] \o sent /\ SentSafely(q, sent)
<1>1. commands \in [Products -> Seq(Commands)] /\ commands' = [commands EXCEPT ![p] = Append(@, command)]
  BY DEF WorkersType, Send
<1>2. /\ commands'[p] = Append(commands[p], command) /\ commands[p] \in Seq(Commands)
      /\ \A q \in Products \ {p} : commands'[q] = commands[q]
  BY <1>1
<1>3. <<command>> \in Seq(Commands) /\ commands'[p] = commands[p] \o <<command>>
  BY <1>2
<1>4. SentSafely(p, <<command>>)
  BY DEF SentSafely
<1> QED
  BY <1>2, <1>3, <1>4, SentNothing

\* An attempt, a stage and an error leave the account that a session shows.
LEMMA AccountKept ==
  ASSUME ViewType, NEW p \in Products, NEW new, session' = [session EXCEPT ![p] = new],
         new.account \in {session[p].account, NoAccount} \/ Told(new.account)
  PROVE  \A q \in Products :
           session'[q].account \in {session[q].account, NoAccount} \/ Told(session'[q].account)
<1>1. session'[p] = new /\ \A q \in Products \ {p} : session'[q] = session[q]
  BY DEF ViewType
<1> QED
  BY <1>1

\* Handling an event.
LEMMA HandleStep ==
  ASSUME WorkersType, ViewType, NEW p \in Products, Handle(p)
  PROVE  AppStep
<1>1. session \in [Products -> Sessions] /\ session[p] \in Sessions
  BY DEF ViewType
<1>2. ASSUME NEW kind, Received(p, kind)
      PROVE  /\ UNCHANGED <<phase, expected, identity>>
             /\ \A q \in Products : events'[q] = events[q] \/ (events[q] # <<>> /\ events'[q] = Tail(events[q]))
             /\ events[p] # <<>> /\ Head(events[p]).kind = kind
  BY <1>2 DEF Received, WorkersType
<1>3. commands' = commands =>
        \A q \in Products : \E sent \in Seq(Commands) : commands'[q] = commands[q] \o sent /\ SentSafely(q, sent)
  BY SentNothing
<1>4. session' = session =>
        \A q \in Products : session'[q].account \in {session[q].account, NoAccount} \/ Told(session'[q].account)
  OBVIOUS
<1>5. CASE HandleProductCredential(p)
  <2>1. Received(p, "ProductCredential") /\ authoritative' = authoritative /\ session' = session
    BY <1>5 DEF HandleProductCredential, view
  <2>2. \A q \in Products : \E sent \in Seq(Commands) : commands'[q] = commands[q] \o sent /\ SentSafely(q, sent)
    <3> DEFINE to == Head(events[p]).product
    <3>1. CASE to \in Products \ {"S2"} /\ Send(to, Plain("InstallCredential"))
      <4>1. Plain("InstallCredential") \in Commands /\ Plain("InstallCredential").kind # "Connect"
        BY CommandTypes DEF Plain
      <4> HIDE DEF to
      <4> QED
        BY <3>1, <4>1, SentOne
    <3>2. CASE commands' = commands
      BY <1>3, <3>2
    <3> QED
      BY <1>5, <3>1, <3>2 DEF HandleProductCredential
  <2> QED
    BY <1>2, <1>4, <2>1, <2>2 DEF AppStep
<1>6. CASE HandleStage(p)
  <2> DEFINE stage == Head(events[p]).stage
             error == IF stage \in {"WebAuthentication", "Connected"} THEN FALSE ELSE session[p].error
             new == [session[p] EXCEPT !.stage = stage, !.starting = FALSE, !.error = error]
  <2>1. Received(p, "Stage") /\ commands' = commands
    BY <1>6 DEF HandleStage
  <2>2. authoritative' = authoritative /\ (session' = session \/ session' = [session EXCEPT ![p] = new])
    <3>1. CASE session[p].gate /\ stage # "Disconnected"
      BY <1>6, <3>1 DEF HandleStage, view
    <3>2. CASE ~(session[p].gate /\ stage # "Disconnected")
      BY <1>6, <3>2, Zenon DEF HandleStage
    <3> QED
      BY <3>1, <3>2
  <2>3. new.account = session[p].account
    BY <1>1 DEF Sessions
  <2> HIDE DEF new
  <2>4. \A q \in Products : session'[q].account \in {session[q].account, NoAccount} \/ Told(session'[q].account)
    BY <1>4, <2>2, <2>3, AccountKept
  <2> QED
    BY <1>2, <1>3, <2>1, <2>2, <2>4 DEF AppStep
<1>7. CASE HandleAuthentication(p)
  <2>1. Received(p, "Authentication") /\ commands' = commands /\ session' = session /\ authoritative' = authoritative
    BY <1>7 DEF HandleAuthentication
  <2> QED
    BY <1>2, <1>3, <1>4, <2>1 DEF AppStep
<1>8. CASE HandleAccount(p)
  <2> DEFINE e == Head(events[p])
             new == [session[p] EXCEPT !.account = e.account]
  <2>1. Received(p, "Account") /\ commands' = commands
    BY <1>8 DEF HandleAccount
  <2>2. Told(e.account)
    BY <1>2, <2>1 DEF Told
  <2>3. CASE session[p].gate
    <3>1. session' = session /\ authoritative' = authoritative
      BY <1>8, <2>3 DEF HandleAccount
    <3> QED
      BY <1>2, <1>3, <1>4, <2>1, <3>1 DEF AppStep
  <2>4. CASE ~session[p].gate
    <3>1. /\ session' = [session EXCEPT ![p].account = e.account]
          /\ Adopt(e.account, e.games) \/ authoritative' = authoritative
      BY <1>8, <2>4, Zenon DEF HandleAccount
    <3>2. session' = [session EXCEPT ![p] = new]
      BY <3>1
    <3>3. new.account = e.account
      BY <1>1 DEF Sessions
    <3>4. authoritative' = authoritative \/ Told(authoritative')
      BY <2>2, <3>1 DEF Adopt
    <3> HIDE DEF new
    <3>5. \A q \in Products : session'[q].account \in {session[q].account, NoAccount} \/ Told(session'[q].account)
      BY <2>2, <3>2, <3>3, AccountKept
    <3> QED
      BY <1>2, <1>3, <2>1, <3>4, <3>5 DEF AppStep
  <2> QED
    BY <2>3, <2>4
<1>9. CASE HandleError(p)
  <2> DEFINE new == [session[p] EXCEPT !.error = TRUE, !.starting = FALSE]
  <2>1. /\ Received(p, "Error") /\ commands' = commands /\ authoritative' = authoritative
        /\ \/ session' = session
           \/ session' = [session EXCEPT ![p].error = TRUE, ![p].starting = FALSE]
    BY <1>9 DEF HandleError
  <2>2. session' = session \/ session' = [session EXCEPT ![p] = new]
    BY <1>1, <2>1
  <2>3. new.account = session[p].account
    BY <1>1 DEF Sessions
  <2> HIDE DEF new
  <2>4. \A q \in Products : session'[q].account \in {session[q].account, NoAccount} \/ Told(session'[q].account)
    BY <1>4, <2>2, <2>3, AccountKept
  <2> QED
    BY <1>2, <1>3, <2>1, <2>4 DEF AppStep
<1> QED
  BY <1>5, <1>6, <1>7, <1>8, <1>9 DEF Handle

\* begin_attempt keeps the account shown.
LEMMA AttemptAccount ==
  ASSUME NEW s \in Sessions
  PROVE  BeginAttempt(s).account = s.account
  BY DEF Sessions, BeginAttempt

\* The queue, the title bar, the warning and the login page.
LEMMA QuietStep ==
  ASSUME WorkersType, ViewType, AdvanceConnectQueue \/ SettleTitlebar \/ HideWarning \/ AnswerPage \/ UNCHANGED system
  PROVE  AppStep
<1>1. commands' = commands =>
        \A q \in Products : \E sent \in Seq(Commands) : commands'[q] = commands[q] \o sent /\ SentSafely(q, sent)
  BY SentNothing
<1>2. session' = session =>
        \A q \in Products : session'[q].account \in {session[q].account, NoAccount} \/ Told(session'[q].account)
  OBVIOUS
<1>3. UNCHANGED <<phase, expected, identity, events, authoritative>>
  BY DEF AdvanceConnectQueue, SettleTitlebar, HideWarning, AnswerPage, system, workers, view
<1>4. CASE commands' = commands /\ session' = session
  BY <1>1, <1>2, <1>3, <1>4 DEF AppStep
<1>5. CASE ~(commands' = commands /\ session' = session)
  <2>1. /\ connectQueue # <<>> /\ authoritative # NoAccount
        /\ session' = [session EXCEPT ![Head(connectQueue)] = BeginAttempt(@)]
        /\ Send(Head(connectQueue), Connect(authoritative))
    BY <1>5 DEF AdvanceConnectQueue, SettleTitlebar, HideWarning, AnswerPage, system, view
  <2> DEFINE next == Head(connectQueue)
             new == BeginAttempt(session[next])
  <2>2. /\ next \in Products /\ session \in [Products -> Sessions] /\ authoritative \in MaybeAccount
    BY <2>1, HeadTailProperties DEF ViewType
  <2> HIDE DEF next
  <2>3. session' = [session EXCEPT ![next] = new] /\ new.account = session[next].account
    BY <2>1, <2>2, AttemptAccount DEF next
  <2> HIDE DEF new
  <2>4. \A q \in Products : session'[q].account \in {session[q].account, NoAccount} \/ Told(session'[q].account)
    BY <2>2, <2>3, AccountKept
  <2>5. Connect(authoritative) \in Commands /\ Connect(authoritative).account = authoritative
    BY <2>2, CommandTypes DEF Connect
  <2>6. \A q \in Products : \E sent \in Seq(Commands) : commands'[q] = commands[q] \o sent /\ SentSafely(q, sent)
    BY <2>1, <2>2, <2>5, SentOne DEF next
  <2> QED
    BY <1>3, <2>4, <2>6 DEF AppStep
<1> QED
  BY <1>4, <1>5

\* What a careful user does.
LEMMA UserStep ==
  ASSUME WorkersType, ViewType, BarType, Licensed, User, Careful
  PROVE  AppStep
<1>1. /\ session \in [Products -> Sessions] /\ authoritative \in MaybeAccount
      /\ focused \in Products /\ provisioned \subseteq Products
      /\ Connect(authoritative) \in Commands /\ Connect(authoritative).account = authoritative
  BY CommandTypes DEF ViewType, BarType, Connect
<1>2. session' = session =>
        \A q \in Products : session'[q].account \in {session[q].account, NoAccount} \/ Told(session'[q].account)
  OBVIOUS
<1>3. ASSUME NEW p \in Products, Reconnect(p, session), Send(p, Connect(authoritative)), authoritative # NoAccount
      PROVE  /\ \A q \in Products : \E sent \in Seq(Commands) : commands'[q] = commands[q] \o sent /\ SentSafely(q, sent)
             /\ \A q \in Products : session'[q].account \in {session[q].account, NoAccount} \/ Told(session'[q].account)
  <2> DEFINE new == BeginAttempt(session[p])
  <2>1. session' = [session EXCEPT ![p] = new] /\ new.account = session[p].account
    BY <1>1, <1>3, AttemptAccount DEF Reconnect
  <2> HIDE DEF new
  <2> QED
    BY <1>1, <1>3, <2>1, AccountKept, SentOne
<1>4. ASSUME NEW p \in Products, TakeGameCard(p)
      PROVE  AppStep
  <2>1. /\ UNCHANGED <<phase, expected, identity, events, authoritative>> /\ p \in provisioned
    BY <1>4 DEF TakeGameCard, workers
  <2>2. authoritative # NoAccount
    BY <2>1 DEF Licensed
  <2>3. CASE session[p].error
    <3>1. Reconnect(p, session) /\ Send(p, Connect(authoritative))
      BY <1>4, <2>3 DEF TakeGameCard
    <3> QED
      BY <1>3, <2>1, <2>2, <3>1 DEF AppStep
  <2>4. CASE ~session[p].error
    <3>1. session' = session /\ commands' = commands
      BY <1>4, <2>4 DEF TakeGameCard
    <3> QED
      BY <1>2, <2>1, <3>1, SentNothing DEF AppStep
  <2> QED
    BY <2>3, <2>4
<1>5. CASE WarningReconnect
  <2>1. /\ UNCHANGED <<phase, expected, identity, events, authoritative>> /\ authoritative # NoAccount
        /\ Reconnect(focused, session) /\ Send(focused, Connect(authoritative))
    BY <1>5 DEF WarningReconnect, workers, Careful
  <2> QED
    BY <1>1, <1>3, <2>1 DEF AppStep
<1>6. CASE CancelConnection
  <2>1. UNCHANGED <<phase, expected, identity, events, authoritative>> /\ authoritative # NoAccount
    BY <1>6 DEF CancelConnection, Careful
  <2>2. CASE session[focused].error \/ session[focused].stage = "Disconnected"
    <3>1. Reconnect(focused, session) /\ Send(focused, Connect(authoritative))
      BY <1>6, <2>2 DEF CancelConnection
    <3> QED
      BY <1>1, <1>3, <2>1, <3>1 DEF AppStep
  <2>3. CASE ~(session[focused].error \/ session[focused].stage = "Disconnected")
    <3> DEFINE new == [session[focused] EXCEPT !.starting = FALSE, !.error = FALSE, !.stage = "Disconnected"]
    <3>1. /\ Send(focused, Plain("Disconnect"))
          /\ session' = [session EXCEPT ![focused].starting = FALSE, ![focused].error = FALSE,
                                        ![focused].stage = "Disconnected"]
      BY <1>6, <2>3, Zenon DEF CancelConnection
    <3>2. session' = [session EXCEPT ![focused] = new]
      BY <1>1, <3>1
    <3>3. new.account = session[focused].account
      BY <1>1 DEF Sessions
    <3> HIDE DEF new
    <3>4. Plain("Disconnect") \in Commands /\ Plain("Disconnect").kind # "Connect"
      BY CommandTypes DEF Plain
    <3>5. \A q \in Products : session'[q].account \in {session[q].account, NoAccount} \/ Told(session'[q].account)
      BY <1>1, <3>2, <3>3, AccountKept
    <3>6. \A q \in Products : \E sent \in Seq(Commands) : commands'[q] = commands[q] \o sent /\ SentSafely(q, sent)
      BY <1>1, <2>1, <3>1, <3>4, SentOne
    <3> QED
      BY <2>1, <3>5, <3>6 DEF AppStep
  <2> QED
    BY <2>2, <2>3
<1>7. CASE RefreshGames
  <2> DEFINE products == {"S2"} \cup provisioned
             again(p) == IF p = "S2" THEN <<Connect(authoritative)>> ELSE <<>>
             new(p) == [session[p] EXCEPT !.account = NoAccount, !.error = FALSE,
                                          !.stage = "Disconnected", !.starting = (p = "S2")]
  <2>1. /\ UNCHANGED <<phase, expected, identity, events, authoritative>> /\ authoritative # NoAccount
        /\ commands' = [p \in Products |-> IF p \notin products THEN commands[p]
                                           ELSE commands[p] \o <<Plain("Disconnect")>> \o again(p)]
        /\ session' = [p \in Products |-> IF p \notin products THEN session[p] ELSE new(p)]
    BY <1>7, Zenon DEF RefreshGames, RefreshAs, Careful
  <2>2. \A p \in Products : new(p).account = NoAccount
    BY <1>1 DEF Sessions
  <2> HIDE DEF new
  <2>3. \A q \in Products : session'[q].account \in {session[q].account, NoAccount} \/ Told(session'[q].account)
    BY <2>1, <2>2
  <2>4. ASSUME NEW p \in Products
        PROVE  \E sent \in Seq(Commands) : commands'[p] = commands[p] \o sent /\ SentSafely(p, sent)
    <3>1. CASE p \notin products
      <4>1. commands'[p] = commands[p]
        BY <2>1, <3>1
      <4> QED
        BY <4>1, SentNothing
    <3>2. CASE p \in products
      <4> DEFINE sent == <<Plain("Disconnect")>> \o again(p)
      <4>1. /\ <<Plain("Disconnect")>> \in Seq(Commands) /\ again(p) \in Seq(Commands)
            /\ commands[p] \in Seq(Commands)
        BY <1>1, CommandTypes, Pair DEF WorkersType
      <4> DEFINE first == <<Plain("Disconnect")>>
                 last == again(p)
      <4>2. /\ \A i \in 1 .. Len(first) : first[i] = Plain("Disconnect")
            /\ \A i \in 1 .. Len(last) : last[i] = Connect(authoritative)
            /\ Plain("Disconnect").kind # "Connect"
        BY DEF Plain
      <4>3. first \in Seq(Commands) /\ last \in Seq(Commands) /\ sent = first \o last
        BY <4>1
      <4> HIDE DEF first, last
      <4>4. sent \in Seq(Commands) /\ commands[p] \o first \o last = commands[p] \o sent
        <5>1. (commands[p] \o first) \o last = commands[p] \o (first \o last)
          BY <4>1, <4>3, Regrouped
        <5> QED
          BY <4>3, <5>1, ConcatPlaces
      <4>5. SentSafely(p, sent)
        <5>1. /\ Len(first) \in Nat /\ Len(last) \in Nat /\ DOMAIN sent = 1 .. Len(first) + Len(last)
              /\ \A i \in 1 .. Len(first) : sent[i] = first[i]
              /\ \A i \in 1 .. Len(last) : sent[Len(first) + i] = last[i]
          BY <4>3, ConcatPlaces
        <5> HIDE DEF sent
        <5>2. ASSUME NEW i \in DOMAIN sent
              PROVE  sent[i] = Plain("Disconnect") \/ sent[i] = Connect(authoritative)
          <6>1. CASE i \in 1 .. Len(first)
            BY <4>2, <5>1, <6>1
          <6>2. CASE i \notin 1 .. Len(first)
            <7>1. i - Len(first) \in 1 .. Len(last) /\ i = Len(first) + (i - Len(first))
              BY <5>1, <6>2
            <7> QED
              BY <4>2, <5>1, <7>1
          <6> QED
            BY <6>1, <6>2
        <5> QED
          BY <1>1, <2>1, <4>2, <5>2 DEF SentSafely
      <4>6. commands'[p] = commands[p] \o sent
        BY <2>1, <3>2, <4>4 DEF first, last
      <4> QED
        BY <4>4, <4>5, <4>6
    <3> QED
      BY <3>1, <3>2
  <2> QED
    BY <2>1, <2>3, <2>4 DEF AppStep
<1> QED
  BY <1>4, <1>5, <1>6, <1>7 DEF User, Careful

\* The account is one when the application starts.
LEMMA InitAgrees == Init => OneAccount
<1> SUFFICES ASSUME Init PROVE OneAccount
  OBVIOUS
<1> USE DEF Init
<1>1. Knows({})
  <2>1. ASSUME NEW p \in Products PROVE session[p].account = NoAccount
    BY DEF Blank, BeginAttempt
  <2> QED
    BY <2>1 DEF Knows
<1>2. Start
  BY ProductAssumption DEF Start, Names
<1>3. ASSUME NEW p \in Products \ {"S2"} PROVE Bound(p, {})
  BY DEF Bound, Names, Asked
<1> QED
  BY <1>1, <1>2, <1>3 DEF Fresh, OneAccount

\* Every careful step keeps it.
LEMMA NextAgrees == IInv /\ OneAccount /\ [Next /\ Careful]_vars => OneAccount'
<1> SUFFICES ASSUME IInv, OneAccount, [Next /\ Careful]_vars PROVE OneAccount'
  OBVIOUS
<1>1. WorkersType /\ ViewType /\ BarType /\ Licensed /\ Proved
  BY TypeParts DEF IInv
<1>2. ASSUME NEW p \in Products, WorkerSteps(p) \/ WorkerLost(p)
      PROVE  OneAccount'
  BY <1>1, <1>2, WorkersAgree
<1>3. ASSUME NEW p \in Products, Handle(p)
      PROVE  OneAccount'
  BY <1>1, <1>3, HandleStep, AppAgrees
<1>4. CASE AdvanceConnectQueue \/ SettleTitlebar \/ HideWarning \/ AnswerPage \/ UNCHANGED system
  BY <1>1, <1>4, QuietStep, AppAgrees
<1>5. CASE User /\ Careful
  BY <1>1, <1>5, UserStep, AppAgrees
<1>6. CASE Next /\ Careful /\ ~UNCHANGED system
  BY <1>2, <1>3, <1>4, <1>5, <1>6
  DEF Next, Works, Loses, Drains, Advances, Hides, Hangs, Types
<1> QED
  BY <1>4, <1>6 DEF vars

\* controller.rs:549: as long as the user neither signs out nor reconnects,
\* cancels or refreshes before an account is adopted, no two products ever show
\* different accounts, however many sign-ins fail, restart or are retried and
\* however late their events are handled.
THEOREM AccountsAgree == CarefulSpec => []SameAccount
<1>1. CarefulSpec => Spec
  <2>1. [Next /\ Careful]_vars => [Next]_vars
    OBVIOUS
  <2> QED
    BY <2>1, PTL DEF CarefulSpec, Spec
<1>2. CarefulSpec => []IInv
  BY <1>1, Inductive, PTL
<1>3. CarefulSpec => []OneAccount
  BY <1>2, InitAgrees, NextAgrees, PTL DEF CarefulSpec
<1>4. OneAccount => SameAccount
  BY DEF OneAccount, Fresh, Pledged, Knows, SameAccount
<1> QED
  BY <1>3, <1>4, PTL
=============================================================================
