------------------------- MODULE UpdateDialogProofs -------------------------
EXTENDS UpdateDialog, SequenceTheorems, TLAPS

(***************************************************************************)
(* The dialog shows what the worker said some events ago, and the worker   *)
(* serves what the user pressed some commands ago.  That the two agree     *)
(* when everything has come through is not inductive: Story says what      *)
(* holds while it is under way.  It is stated of any dialog, queue of      *)
(* events and worker, so that a step which emits, and one which handles an *)
(* event, are lemmas about sequences:                                      *)
(*   - a selected update is on screen, comes there, or is dismissed by a   *)
(*     command that waits for the worker (OnScreen);                       *)
(*   - the release that was announced last is the worker's, and a headline *)
(*     that nothing will change names it (HeadlineComes, HeadlineThere);   *)
(*   - the last word on the stage, if it is an offer, is what the worker   *)
(*     would do, or a dismissal takes it from the screen (OffersBacked);   *)
(*   - while the startup check runs nothing has been offered.              *)
(***************************************************************************)

\* The types of the queues and of the worker.
EventSet == [kind : Kinds, release : Releases \cup {None}]
CommandSet == [kind : {"Check", "PrimaryAction", "Dismiss"}, button : Stages]
Engines == [state : {"Idle", "Available", "Ready", "Installing"}, release : Releases \cup {None}, job : Jobs]

\* Events that set the release of the headline, and events that set the stage.
SetsShown == {"checking", "available", "not_found", "error"}
Model == {"checking", "available", "not_found", "error", "downloading", "extracting", "ready", "installing"}

\* No event of these kinds comes after the i-th.
NoneAfter(evs, i, K) == \A j \in DOMAIN evs : j > i => evs[j].kind \notin K

\* What the worker does belongs to its state.
EngineShape ==
  /\ engine.job \in {"connect", "download", "extract"} => engine.state = "Available"
  /\ engine.job = "launch" => engine.state = "Ready"
  /\ engine.job = "fetch" => engine.state = "Idle"

\* Whether a command that waits for the worker will dismiss what it has, or
\* everything ends.
Fate(q, cmds) == IF q \/ \E i \in DOMAIN cmds : cmds[i].kind = "Dismiss" THEN "goes" ELSE "stays"

\* A selected update is on screen, comes there, or is dismissed.
OnScreen(u, evs, fate, eng) ==
  eng.state # "Idle" =>
    \/ fate = "goes"
    \/ \E i \in DOMAIN evs : evs[i].kind = "available" /\ NoneAfter(evs, i, {"dismissed"})
    \/ u.visible /\ ~u.closing /\ NoneAfter(evs, 0, {"dismissed"})

\* While the startup check runs nothing has been offered.
StartupFirst(u, evs, eng) ==
  u.startup =>
    /\ u.stage \in {"Idle", "Checking"} /\ ~u.deadline
    /\ eng.state = "Idle" \/ \E i \in DOMAIN evs : evs[i].kind = "available"

\* The last word on the stage is this one, said by the dialog (0) or an event.
Says(u, evs, i, stage) ==
  /\ i = 0 => u.stage = stage
  /\ i # 0 => evs[i].kind = (IF stage = "Available" THEN "available" ELSE "ready")
  /\ NoneAfter(evs, i, Model)

\* The worker has an update to offer, and the dialog offers it or will.
Offering(u, evs, eng) ==
  \/ eng.state = "Available"
  \/ eng.state = "Ready" /\ \E i \in 0 .. Len(evs) : Says(u, evs, i, "Ready")

\* The release of an offer is the one that the headline will name, or names.
HeadlineComes(u, evs, eng) ==
  Offering(u, evs, eng) => \A i \in DOMAIN evs :
    evs[i].kind \in SetsShown /\ NoneAfter(evs, i, SetsShown) => evs[i] = Available(eng.release)

\* No event sets the headline any more: it is there, and the dialog is open.
HeadlineThere(u, evs, fate, eng) ==
  Offering(u, evs, eng) /\ NoneAfter(evs, 0, SetsShown) =>
    \/ fate = "goes"
    \/ /\ u.shown = eng.release
       /\ ~u.deadline /\ ~u.startup
       /\ u.visible /\ ~u.closing
       /\ u.stage \notin {"Current", "Error"}

\* The worker would do, or is about to do, what an offer says.
Backed(eng, stage) ==
  eng.state = stage /\ eng.job \in {"none", IF stage = "Available" THEN "connect" ELSE "launch"}

\* A dismissal closes the dialog after the i-th event, or it is closing already.
Withdrawn(u, evs, i) ==
  \/ \E j \in DOMAIN evs : j > i /\ evs[j].kind = "dismissed" /\ NoneAfter(evs, j, {"focus"})
  \/ i = 0 /\ (u.closing \/ ~u.visible) /\ NoneAfter(evs, 0, {"focus"})

\* An offer that is, or comes, on screen is what the worker would do, or is withdrawn.
OffersBacked(u, evs, fate, eng) ==
  \A stage \in {"Available", "Ready"}, i \in 0 .. Len(evs) :
    Says(u, evs, i, stage) => fate = "goes" \/ Backed(eng, stage) \/ Withdrawn(u, evs, i)

\* What holds of the dialog u, the events evs still to come and the worker eng.
Story(u, evs, fate, eng) ==
  /\ OnScreen(u, evs, fate, eng)
  /\ StartupFirst(u, evs, eng)
  /\ HeadlineComes(u, evs, eng)
  /\ HeadlineThere(u, evs, fate, eng)
  /\ OffersBacked(u, evs, fate, eng)

\* The inductive invariant.
IInv ==
  /\ TypeOK
  /\ EngineShape
  /\ ReadyIsVerified
  /\ Story(ui, events, Fate(quit, commands), engine)

-----------------------------------------------------------------------------
(* What the worker emits.                                                  *)

\* Where the events are when one more is emitted.
LEMMA AppendPlaces ==
  ASSUME NEW evs \in Seq(EventSet), NEW e \in EventSet
  PROVE  LET all == Append(evs, e)
         IN /\ all \in Seq(EventSet) /\ Len(evs) \in Nat /\ Len(all) = Len(evs) + 1
            /\ DOMAIN evs = 1 .. Len(evs) /\ DOMAIN all = 1 .. Len(evs) + 1
            /\ \A i \in DOMAIN evs : i \in DOMAIN all /\ all[i] = evs[i] /\ i < Len(evs) + 1
            /\ all[Len(evs) + 1] = e
            /\ \A i \in DOMAIN all : i \in DOMAIN evs \/ i = Len(evs) + 1
  BY AppendProperties

\* Nothing of a kind comes after a place, one more event emitted.
LEMMA NoneAfterAppend ==
  ASSUME NEW evs \in Seq(EventSet), NEW e \in EventSet, NEW i \in Nat, NEW K
  PROVE  NoneAfter(Append(evs, e), i, K) <=>
           NoneAfter(evs, i, K) /\ (Len(evs) + 1 > i => e.kind \notin K)
<1> DEFINE all == Append(evs, e)
<1>1. /\ \A j \in DOMAIN evs : j \in DOMAIN all /\ all[j] = evs[j]
      /\ Len(evs) + 1 \in DOMAIN all /\ all[Len(evs) + 1] = e
      /\ \A j \in DOMAIN all : j \in DOMAIN evs \/ j = Len(evs) + 1
  BY AppendPlaces
<1> HIDE DEF all
<1> QED
  BY <1>1 DEF NoneAfter, all

\* What leaves the worker at rest: it was dismissed, or there is nothing to offer.
LEMMA EmitsAtRest ==
  ASSUME NEW u \in Dialogs, NEW evs \in Seq(EventSet), NEW fate, NEW eng \in Engines, NEW e \in EventSet,
         eng.state = "Idle", u.startup => u.stage \in {"Idle", "Checking"} /\ ~u.deadline,
         e.kind \in {"dismissed", "checking", "not_found", "error"}
  PROVE  Story(u, Append(evs, e), fate, eng)
<1> DEFINE all == Append(evs, e)
<1>0. /\ Len(evs) \in Nat /\ Len(all) = Len(evs) + 1 /\ DOMAIN all = 1 .. Len(evs) + 1
      /\ all[Len(evs) + 1] = e /\ Len(evs) + 1 \in DOMAIN all
      /\ \A i \in 0 .. Len(all) : i < Len(evs) + 1 \/ i = Len(evs) + 1
  BY AppendPlaces
<1> HIDE DEF all
<1>1. OnScreen(u, all, fate, eng) /\ StartupFirst(u, all, eng)
  BY DEF OnScreen, StartupFirst
<1>2. ~Offering(u, all, eng)
  BY DEF Offering
<1>3. OffersBacked(u, all, fate, eng)
  <2>1. ASSUME NEW stage \in {"Available", "Ready"}, NEW i \in 0 .. Len(all), Says(u, all, i, stage)
        PROVE  Withdrawn(u, all, i)
    <3>1. i < Len(evs) + 1 \/ i = Len(evs) + 1
      BY <1>0
    <3>2. CASE i = Len(evs) + 1
      <4>1. i # 0 /\ all[i].kind \in {"available", "ready"}
        BY <1>0, <2>1, <3>2 DEF Says
      <4> QED
        BY <1>0, <3>2, <4>1
    <3>3. CASE i < Len(evs) + 1
      <4>1. all[Len(evs) + 1].kind \notin Model
        BY <1>0, <2>1, <3>3 DEF Says, NoneAfter
      <4>2. all[Len(evs) + 1].kind = "dismissed"
        BY <1>0, <4>1 DEF Model
      <4>3. NoneAfter(all, Len(evs) + 1, {"focus"})
        BY <1>0 DEF NoneAfter
      <4> QED
        BY <1>0, <3>3, <4>2, <4>3 DEF Withdrawn
    <3> QED
      BY <3>1, <3>2, <3>3
  <2> QED
    BY <2>1 DEF OffersBacked
<1> QED
  BY <1>1, <1>2, <1>3 DEF Story, HeadlineComes, HeadlineThere, all

\* A check ends with an update.
LEMMA EmitsAvailable ==
  ASSUME NEW u \in Dialogs, NEW evs \in Seq(EventSet), NEW fate, NEW eng \in Engines, NEW e \in EventSet,
         eng.state = "Available", eng.job = "none", e = Available(eng.release),
         u.startup => u.stage \in {"Idle", "Checking"} /\ ~u.deadline
  PROVE  Story(u, Append(evs, e), fate, eng)
<1> DEFINE all == Append(evs, e)
           n == Len(evs) + 1
<1>0. /\ n \in Nat \ {0} /\ Len(all) = n /\ DOMAIN all = 1 .. n
      /\ all[n] = e /\ n \in DOMAIN all /\ e.kind = "available"
      /\ \A i \in 0 .. n : i < n \/ i = n
      /\ \A K : NoneAfter(all, n, K)
  BY AppendPlaces DEF Available, NoneAfter
<1> HIDE DEF all, n
<1>1. OnScreen(u, all, fate, eng) /\ StartupFirst(u, all, eng)
  BY <1>0 DEF OnScreen, StartupFirst
<1>2. \A i \in 0 .. n : NoneAfter(all, i, SetsShown) \/ NoneAfter(all, i, Model) => i = n
  <2>1. \A i \in 0 .. n : i # n => i < n
    BY <1>0
  <2> QED
    BY <1>0, <2>1 DEF NoneAfter, SetsShown, Model
<1>3. HeadlineComes(u, all, eng)
  <2>1. \A i \in DOMAIN all : i \in 0 .. n
    BY <1>0
  <2> QED
    BY <1>0, <1>2, <2>1 DEF HeadlineComes
<1>4. HeadlineThere(u, all, fate, eng)
  <2>1. 0 \in 0 .. n /\ n # 0
    BY <1>0
  <2> QED
    BY <1>2, <2>1 DEF HeadlineThere
<1>5. OffersBacked(u, all, fate, eng)
  <2>1. ASSUME NEW stage \in {"Available", "Ready"}, NEW i \in 0 .. Len(all), Says(u, all, i, stage)
        PROVE  Backed(eng, stage)
    <3>1. i = n
      BY <1>0, <1>2, <2>1 DEF Says
    <3>2. stage = "Available"
      BY <1>0, <2>1, <3>1 DEF Says
    <3> QED
      BY <3>2 DEF Backed
  <2> QED
    BY <2>1 DEF OffersBacked
<1> QED
  BY <1>1, <1>3, <1>4, <1>5 DEF Story, all

\* What is said on the stage before and after an event that does not set it.
LEMMA SaysStill ==
  ASSUME NEW u, NEW evs \in Seq(EventSet), NEW e \in EventSet, e.kind \notin Model,
         NEW i \in 0 .. Len(Append(evs, e)), NEW stage \in {"Available", "Ready"},
         Says(u, Append(evs, e), i, stage)
  PROVE  i \in 0 .. Len(evs) /\ Says(u, evs, i, stage)
<1> DEFINE all == Append(evs, e)
           n == Len(evs) + 1
<1>0. /\ Len(evs) \in Nat /\ Len(all) = n /\ DOMAIN evs = 1 .. Len(evs) /\ all[n] = e
      /\ \A j \in DOMAIN evs : all[j] = evs[j]
  BY AppendPlaces
<1>1. NoneAfter(evs, i, Model)
  BY <1>0, NoneAfterAppend DEF Says
<1> HIDE DEF all
<1>2. i # n
  BY <1>0 DEF Says, Model, all
<1>3. i \in 0 .. Len(evs)
  BY <1>0, <1>2
<1>4. i # 0 => i \in DOMAIN evs
  BY <1>0, <1>3
<1> QED
  BY <1>0, <1>1, <1>3, <1>4 DEF Says, all

\* An event that sets the stage has the last word.
LEMMA SaysLast ==
  ASSUME NEW u, NEW evs \in Seq(EventSet), NEW e \in EventSet, e.kind \in Model,
         NEW i \in 0 .. Len(Append(evs, e)), NEW stage \in {"Available", "Ready"},
         Says(u, Append(evs, e), i, stage)
  PROVE  i = Len(evs) + 1 /\ e.kind = (IF stage = "Available" THEN "available" ELSE "ready")
<1> DEFINE all == Append(evs, e)
           n == Len(evs) + 1
<1>0. /\ Len(evs) \in Nat /\ Len(all) = n /\ all[n] = e
  BY AppendPlaces
<1>1. n > i => e.kind \notin Model
  BY <1>0, NoneAfterAppend DEF Says
<1>2. i = n
  BY <1>0, <1>1
<1> QED
  BY <1>0, <1>2 DEF Says

\* An update that is selected is not withdrawn by what was emitted before.
LEMMA NotWithdrawn ==
  ASSUME NEW u, NEW evs \in Seq(EventSet), NEW fate, NEW eng, OnScreen(u, evs, fate, eng), eng.state # "Idle",
         NEW i \in 0 .. Len(evs), NoneAfter(evs, i, {"available"}), fate # "goes"
  PROVE  ~Withdrawn(u, evs, i)
<1>0. DOMAIN evs = 1 .. Len(evs) /\ Len(evs) \in Nat
  OBVIOUS
<1>1. CASE u.visible /\ ~u.closing /\ NoneAfter(evs, 0, {"dismissed"})
  <2>1. \A j \in DOMAIN evs : j > 0
    BY <1>0
  <2> QED
    BY <1>1, <2>1 DEF Withdrawn, NoneAfter
<1>2. CASE \E k \in DOMAIN evs : evs[k].kind = "available" /\ NoneAfter(evs, k, {"dismissed"})
  <2>1. PICK k \in DOMAIN evs : evs[k].kind = "available" /\ NoneAfter(evs, k, {"dismissed"})
    BY <1>2
  <2>2. ~(k > i)
    BY <2>1 DEF NoneAfter
  <2>3. k <= i /\ i # 0
    BY <1>0, <2>2
  <2>4. ASSUME NEW j \in DOMAIN evs, j > i, evs[j].kind = "dismissed"
        PROVE  FALSE
    <3>1. j > k
      BY <1>0, <2>3, <2>4
    <3> QED
      BY <2>1, <2>4, <3>1 DEF NoneAfter
  <2> QED
    BY <2>3, <2>4 DEF Withdrawn
<1> QED
  BY <1>1, <1>2 DEF OnScreen

\* Offers that are emitted are still there after another event, and what was
\* on its way to the screen comes there.
LEMMA EmitsOnScreen ==
  ASSUME NEW u, NEW evs \in Seq(EventSet), NEW fate, NEW eng, NEW new, NEW e \in EventSet,
         OnScreen(u, evs, fate, eng), StartupFirst(u, evs, eng), eng.state # "Idle",
         e.kind # "dismissed"
  PROVE  OnScreen(u, Append(evs, e), fate, new) /\ StartupFirst(u, Append(evs, e), new)
<1> DEFINE all == Append(evs, e)
<1>0. /\ DOMAIN evs = 1 .. Len(evs) /\ Len(evs) \in Nat
      /\ \A i \in DOMAIN evs : i \in DOMAIN all /\ all[i] = evs[i] /\ i \in Nat
  BY AppendPlaces
<1>1. \A i \in Nat : NoneAfter(evs, i, {"dismissed"}) => NoneAfter(all, i, {"dismissed"})
  BY NoneAfterAppend
<1> HIDE DEF all
<1>2. OnScreen(u, all, fate, new)
  BY <1>0, <1>1 DEF OnScreen
<1>3. StartupFirst(u, all, new)
  BY <1>0 DEF StartupFirst
<1> QED
  BY <1>2, <1>3 DEF all

\* The worker answers with Focus, or asks the application to quit.
LEMMA EmitsOther ==
  ASSUME NEW u, NEW evs \in Seq(EventSet), NEW fate, NEW eng, NEW e \in EventSet,
         Story(u, evs, fate, eng), eng.state # "Idle", e.kind \in {"focus", "quit_requested"}
  PROVE  Story(u, Append(evs, e), fate, eng)
<1> DEFINE all == Append(evs, e)
           n == Len(evs) + 1
<1>0. /\ DOMAIN evs = 1 .. Len(evs) /\ Len(evs) \in Nat /\ Len(all) = n /\ DOMAIN all = 1 .. n /\ all[n] = e
      /\ \A i \in DOMAIN evs : all[i] = evs[i]
      /\ \A i \in DOMAIN all : i \in DOMAIN evs \/ i = n
  BY AppendPlaces
<1>1. e.kind \notin Model /\ e.kind \notin SetsShown /\ e.kind # "dismissed"
  BY DEF Model, SetsShown
<1>2. OnScreen(u, all, fate, eng) /\ StartupFirst(u, all, eng)
  BY <1>1, EmitsOnScreen DEF Story
<1>3. ASSUME NEW stage \in {"Available", "Ready"}, NEW i \in 0 .. Len(all), Says(u, all, i, stage)
      PROVE  i \in 0 .. Len(evs) /\ Says(u, evs, i, stage)
  BY <1>1, <1>3, SaysStill
<1>4. \A i \in Nat : NoneAfter(all, i, SetsShown) => NoneAfter(evs, i, SetsShown)
  BY NoneAfterAppend
<1> HIDE DEF all
<1>5. Offering(u, all, eng) => Offering(u, evs, eng)
  BY <1>3 DEF Offering
<1>6. HeadlineComes(u, all, eng)
  <2>1. \A i \in DOMAIN all : i \in Nat
    BY <1>0
  <2> QED
    BY <1>0, <1>1, <1>4, <1>5, <2>1 DEF HeadlineComes, Story
<1>7. HeadlineThere(u, all, fate, eng)
  <2>1. NoneAfter(all, 0, SetsShown) => NoneAfter(evs, 0, SetsShown)
    BY <1>4
  <2> QED
    BY <1>5, <2>1 DEF HeadlineThere, Story
<1>8. OffersBacked(u, all, fate, eng)
  <2>1. ASSUME NEW stage \in {"Available", "Ready"}, NEW i \in 0 .. Len(all), Says(u, all, i, stage),
               fate # "goes"
        PROVE  Backed(eng, stage)
    <3>1. i \in 0 .. Len(evs) /\ Says(u, evs, i, stage)
      BY <1>3, <2>1
    <3>2. NoneAfter(evs, i, {"available"})
      BY <3>1 DEF Says, NoneAfter, Model
    <3>3. ~Withdrawn(u, evs, i)
      BY <2>1, <3>1, <3>2, NotWithdrawn DEF Story
    <3> QED
      BY <2>1, <3>1, <3>3 DEF OffersBacked, Story
  <2> QED
    BY <2>1 DEF OffersBacked
<1> QED
  BY <1>2, <1>6, <1>7, <1>8 DEF Story, all

\* A selected update is downloaded and prepared.
LEMMA EmitsProgress ==
  ASSUME NEW u, NEW evs \in Seq(EventSet), NEW fate, NEW eng, NEW new, NEW e \in EventSet,
         Story(u, evs, fate, eng), eng.state = "Available",
         new.state \in {"Available", "Ready"}, new.release = eng.release,
         e.kind \in {"downloading", "extracting", "ready"},
         e.kind = "ready" => new.state = "Ready" /\ new.job = "none"
  PROVE  Story(u, Append(evs, e), fate, new)
<1> DEFINE all == Append(evs, e)
           n == Len(evs) + 1
<1>0. /\ DOMAIN evs = 1 .. Len(evs) /\ Len(evs) \in Nat /\ Len(all) = n /\ DOMAIN all = 1 .. n /\ all[n] = e
      /\ \A i \in DOMAIN evs : all[i] = evs[i]
      /\ \A i \in DOMAIN all : i \in Nat /\ (i \in DOMAIN evs \/ i = n)
  BY AppendPlaces
<1>1. e.kind \in Model /\ e.kind \notin SetsShown /\ e.kind # "dismissed" /\ Offering(u, evs, eng)
  BY DEF Model, SetsShown, Offering
<1>2. OnScreen(u, all, fate, new) /\ StartupFirst(u, all, new)
  BY <1>1, EmitsOnScreen DEF Story
<1>3. ASSUME NEW stage \in {"Available", "Ready"}, NEW i \in 0 .. Len(all), Says(u, all, i, stage)
      PROVE  e.kind = (IF stage = "Available" THEN "available" ELSE "ready")
  BY <1>1, <1>3, SaysLast
<1>4. \A i \in Nat : NoneAfter(all, i, SetsShown) => NoneAfter(evs, i, SetsShown)
  BY NoneAfterAppend
<1> HIDE DEF all
<1>6. HeadlineComes(u, all, new)
  BY <1>0, <1>1, <1>4 DEF HeadlineComes, Story
<1>7. HeadlineThere(u, all, fate, new)
  <2>1. NoneAfter(all, 0, SetsShown) => NoneAfter(evs, 0, SetsShown)
    BY <1>4
  <2> QED
    BY <1>1, <2>1 DEF HeadlineThere, Story
<1>8. OffersBacked(u, all, fate, new)
  BY <1>3 DEF OffersBacked, Backed
<1> QED
  BY <1>2, <1>6, <1>7, <1>8 DEF Story, all

\* A launch fails, or the installer has taken over.
LEMMA EmitsLaunched ==
  ASSUME NEW u, NEW evs \in Seq(EventSet), NEW fate, NEW eng, NEW new, NEW e \in EventSet,
         Story(u, evs, fate, eng), eng.state # "Idle",
         new.state \in {"Ready", "Installing"}, e.kind \in {"error", "installing"}
  PROVE  Story(u, Append(evs, e), fate, new)
<1> DEFINE all == Append(evs, e)
<1>1. e.kind \in Model /\ e.kind # "dismissed"
  BY DEF Model
<1>2. OnScreen(u, all, fate, new) /\ StartupFirst(u, all, new)
  BY <1>1, EmitsOnScreen DEF Story
<1>3. ASSUME NEW stage \in {"Available", "Ready"}, NEW i \in 0 .. Len(all), Says(u, all, i, stage)
      PROVE  FALSE
  <2>1. e.kind = (IF stage = "Available" THEN "available" ELSE "ready")
    BY <1>1, <1>3, SaysLast
  <2> QED
    BY <2>1
<1> HIDE DEF all
<1>4. ~Offering(u, all, new)
  BY <1>3 DEF Offering
<1>5. OffersBacked(u, all, fate, new)
  BY <1>3 DEF OffersBacked
<1> QED
  BY <1>2, <1>4, <1>5 DEF Story, HeadlineComes, HeadlineThere, all

\* The worker begins what the offer says, and emits nothing yet.
LEMMA BeginsJob ==
  ASSUME NEW u, NEW evs, NEW fate, NEW eng, NEW new, Story(u, evs, fate, eng),
         new.state = eng.state, new.release = eng.release,
         \/ eng.state = "Available" /\ new.job = "connect"
         \/ eng.state = "Ready" /\ new.job = "launch"
  PROVE  Story(u, evs, fate, new)
<1>1. OnScreen(u, evs, fate, new) /\ StartupFirst(u, evs, new)
  BY DEF Story, OnScreen, StartupFirst
<1>2. Offering(u, evs, new) => Offering(u, evs, eng)
  BY DEF Offering
<1>3. HeadlineComes(u, evs, new)
  BY <1>2 DEF Story, HeadlineComes
<1>4. HeadlineThere(u, evs, fate, new)
  BY <1>2 DEF Story, HeadlineThere
<1>5. \A stage \in {"Available", "Ready"} : Backed(eng, stage) => Backed(new, stage)
  BY DEF Backed
<1>6. OffersBacked(u, evs, fate, new)
  BY <1>5 DEF Story, OffersBacked
<1> QED
  BY <1>1, <1>3, <1>4, <1>6 DEF Story

-----------------------------------------------------------------------------
(* What the dialog does with it.                                           *)

\* A change of the dialog that takes no offer back which it does not have, and
\* makes none.
LEMMA DialogKeeps ==
  ASSUME NEW u, NEW v, NEW evs \in Seq(EventSet), NEW fate, NEW then \in {fate, "goes"}, NEW eng,
         Story(u, evs, fate, eng),
         v.startup => u.startup /\ v.stage \in {"Idle", "Checking"} /\ ~v.deadline,
         v.stage \in {"Available", "Ready"} =>
           v.stage = u.stage /\ (u.closing \/ ~u.visible => v.closing \/ ~v.visible),
         \/ then = "goes"
         \/ u.visible /\ ~u.closing => v.visible /\ ~v.closing,
         \/ then = "goes"
         \/ u.deadline \/ u.startup \/ ~u.visible \/ u.closing \/ u.stage \in {"Current", "Error"}
         \/ v.shown = u.shown /\ ~v.deadline /\ ~v.startup /\ v.visible /\ ~v.closing /\ v.stage = u.stage
  PROVE  Story(v, evs, then, eng)
<1>1. OnScreen(v, evs, then, eng)
  BY DEF Story, OnScreen
<1>2. StartupFirst(v, evs, eng)
  BY DEF Story, StartupFirst
<1>3. ASSUME NEW stage \in {"Available", "Ready"}, NEW i \in 0 .. Len(evs), Says(v, evs, i, stage)
      PROVE  Says(u, evs, i, stage) /\ (Withdrawn(u, evs, i) => Withdrawn(v, evs, i))
  BY <1>3 DEF Says, Withdrawn
<1>4. Offering(v, evs, eng) => Offering(u, evs, eng)
  BY <1>3 DEF Offering
<1>5. HeadlineComes(v, evs, eng)
  BY <1>4 DEF Story, HeadlineComes
<1>6. HeadlineThere(v, evs, then, eng)
  BY <1>4 DEF Story, HeadlineThere
<1>7. OffersBacked(v, evs, then, eng)
  BY <1>3 DEF Story, OffersBacked
<1> QED
  BY <1>1, <1>2, <1>5, <1>6, <1>7 DEF Story

\* The release and the stage after an event; the rest is left alone.
LEMMA AppliedFields ==
  ASSUME NEW u \in Dialogs, NEW e \in EventSet
  PROVE  LET a == apply_event(u, e)
         IN /\ a \in Dialogs
            /\ a.visible = u.visible /\ a.closing = u.closing /\ a.startup = u.startup /\ a.deadline = u.deadline
            /\ e.kind \notin Model => a.stage = u.stage
            /\ e.kind = "checking" => a.stage = "Checking"
            /\ e.kind \in Model /\ a.stage = "Available" => e.kind = "available"
            /\ e.kind \in Model /\ a.stage = "Ready" => e.kind = "ready"
            /\ a.stage \in {"Current", "Error"} /\ e.kind \in Model => e.kind \in SetsShown \ {"available"}
            /\ e.kind \notin SetsShown => a.shown = u.shown
            /\ e.kind = "available" => a.stage = "Available" /\ a.shown = e.release
<1> DEFINE a == apply_event(u, e)
<1>0. e.kind \in Kinds /\ e.release \in Releases \cup {None}
  BY DEF EventSet
<1>1. CASE e.kind = "checking"
  <2>1. a = [u EXCEPT !.stage = "Checking", !.shown = None]
    BY <1>1, Zenon DEF apply_event, begin_check
  <2> QED
    BY <1>1, <2>1 DEF Dialogs, Stages, Model, SetsShown
<1>2. CASE e.kind = "available"
  <2>1. a = [u EXCEPT !.stage = "Available", !.shown = e.release]
    BY <1>2, Zenon DEF apply_event
  <2> QED
    BY <1>0, <1>2, <2>1 DEF Dialogs, Stages, Model, SetsShown
<1>3. ASSUME NEW stage \in Stages, a = [u EXCEPT !.stage = stage],
             <<e.kind, stage>> \in {<<"downloading", "Downloading">>, <<"extracting", "Extracting">>,
                                    <<"ready", "Ready">>, <<"installing", "Installing">>}
      PROVE  /\ a \in Dialogs
             /\ a.visible = u.visible /\ a.closing = u.closing /\ a.startup = u.startup /\ a.deadline = u.deadline
             /\ a.stage = stage /\ a.shown = u.shown /\ e.kind \in Model /\ e.kind \notin SetsShown
             /\ e.kind # "available" /\ e.kind # "checking"
             /\ stage \notin {"Available", "Current", "Error"} /\ (stage = "Ready" => e.kind = "ready")
  <2>1. e.kind \in {"downloading", "extracting", "ready", "installing"}
        /\ stage \in {"Downloading", "Extracting", "Ready", "Installing"} /\ (stage = "Ready" => e.kind = "ready")
    BY <1>3
  <2>2. a \in Dialogs /\ a.stage = stage /\ a.shown = u.shown
        /\ a.visible = u.visible /\ a.closing = u.closing /\ a.startup = u.startup /\ a.deadline = u.deadline
    BY <1>3 DEF Dialogs
  <2> QED
    BY <2>1, <2>2 DEF Model, SetsShown
<1>4. CASE e.kind = "downloading"
  <2>1. a = [u EXCEPT !.stage = "Downloading"]
    BY <1>4, Zenon DEF apply_event
  <2> HIDE DEF a
  <2> QED
    BY <1>3, <1>4, <2>1 DEF Stages, a
<1>5. CASE e.kind = "extracting"
  <2>1. a = [u EXCEPT !.stage = "Extracting"]
    BY <1>5, Zenon DEF apply_event
  <2> HIDE DEF a
  <2> QED
    BY <1>3, <1>5, <2>1 DEF Stages, a
<1>6. CASE e.kind = "ready"
  <2>1. a = [u EXCEPT !.stage = "Ready"]
    BY <1>6, Zenon DEF apply_event
  <2> HIDE DEF a
  <2> QED
    BY <1>3, <1>6, <2>1 DEF Stages, a
<1>7. CASE e.kind = "installing"
  <2>1. a = [u EXCEPT !.stage = "Installing"]
    BY <1>7, Zenon DEF apply_event
  <2> HIDE DEF a
  <2> QED
    BY <1>3, <1>7, <2>1 DEF Stages, a
<1>8. CASE e.kind = "not_found"
  <2>1. a = [u EXCEPT !.stage = "Current", !.shown = None]
    BY <1>8, Zenon DEF apply_event
  <2> QED
    BY <1>8, <2>1 DEF Dialogs, Stages, Model, SetsShown
<1>9. CASE e.kind = "error"
  <2>1. a = [u EXCEPT !.stage = "Error", !.shown = None]
    BY <1>9, Zenon DEF apply_event, show_unavailable
  <2> QED
    BY <1>9, <2>1 DEF Dialogs, Stages, Model, SetsShown
<1>10. CASE e.kind \in {"dismissed", "focus", "quit_requested"}
  <2>1. a = u
    BY <1>10, Zenon DEF apply_event
  <2> QED
    BY <1>10, <2>1 DEF Model, SetsShown
<1> QED
  BY <1>0, <1>1, <1>2, <1>4, <1>5, <1>6, <1>7, <1>8, <1>9, <1>10 DEF Kinds

\* poll_update_events: what becomes of the startup check, the deadline of a
\* manual one, and the dialog.
LEMMA OnEventFields ==
  ASSUME NEW u \in Dialogs, NEW e \in EventSet
  PROVE  LET v == OnEvent(u, e)
             a == apply_event(u, e)
         IN /\ v \in Dialogs /\ v.stage = a.stage /\ v.shown = a.shown
            /\ v.startup => u.startup /\ Waiting(e)
            /\ v.deadline => u.deadline /\ Waiting(e)
            /\ e.kind = "available" => v.visible /\ ~v.closing
            /\ u.visible /\ ~u.closing /\ e.kind \notin {"dismissed", "quit_requested"}
                 => v.visible /\ ~v.closing
            /\ e.kind = "dismissed" /\ ~u.startup /\ a.stage \in {"Available", "Ready"}
                 => v.closing \/ ~v.visible
<1> DEFINE v == OnEvent(u, e)
           a == apply_event(u, e)
           heard == IF Waiting(e) THEN a ELSE [a EXCEPT !.deadline = FALSE]
           ended == [heard EXCEPT !.startup = FALSE, !.started = FALSE]
<1>1. a \in Dialogs /\ a.visible = u.visible /\ a.closing = u.closing /\ a.startup = u.startup
      /\ a.deadline = u.deadline
  BY AppliedFields
<1> HIDE DEF a
<1>2. /\ heard \in Dialogs /\ heard.stage = a.stage /\ heard.shown = a.shown
      /\ heard.visible = u.visible /\ heard.closing = u.closing /\ heard.startup = u.startup
      /\ heard.deadline => u.deadline /\ Waiting(e)
  BY <1>1 DEF Dialogs
<1>3. v = CASE heard.startup /\ Waiting(e) -> heard
            [] heard.startup /\ e.kind = "available" -> Show(ended)
            [] heard.startup /\ ~Waiting(e) /\ e.kind # "available" -> begin_startup_connection(ended)
            [] ~heard.startup /\ should_present(e) -> Show(heard)
            [] OTHER ->
                 IF ~heard.startup /\ heard.visible /\ ~heard.closing
                    /\ heard.stage \notin {"Current", "Error"}
                 THEN Hide(heard) ELSE heard
  BY Zenon DEF OnEvent, a
<1> HIDE DEF heard, v
<1>4. /\ ended \in Dialogs /\ ended.stage = heard.stage /\ ended.shown = heard.shown
      /\ ended.visible = heard.visible /\ ended.closing = heard.closing /\ ended.startup = FALSE
      /\ ended.deadline = heard.deadline
  BY <1>2 DEF Dialogs
<1> HIDE DEF ended
<1>5. CASE heard.startup /\ Waiting(e)
  <2>1. v = heard
    BY <1>3, <1>5, Zenon DEF Waiting
  <2> QED
    BY <1>2, <1>5, <2>1 DEF v, a, Waiting
<1>6. CASE heard.startup /\ e.kind = "available"
  <2>1. v = [ended EXCEPT !.visible = TRUE, !.closing = FALSE]
    BY <1>3, <1>6, Zenon DEF Waiting, Show
  <2>2. /\ v \in Dialogs /\ v.stage = ended.stage /\ v.shown = ended.shown /\ v.startup = ended.startup
        /\ v.deadline = ended.deadline /\ v.visible /\ ~v.closing
    BY <1>4, <2>1 DEF Dialogs
  <2> QED
    BY <1>2, <1>4, <1>6, <2>2 DEF v, a
<1>7. CASE heard.startup /\ ~Waiting(e) /\ e.kind # "available"
  <2>1. v = [ended EXCEPT !.connect = FALSE]
    BY <1>3, <1>7, Zenon DEF begin_startup_connection
  <2>2. /\ v \in Dialogs /\ v.stage = ended.stage /\ v.shown = ended.shown /\ v.startup = ended.startup
        /\ v.deadline = ended.deadline /\ v.visible = ended.visible /\ v.closing = ended.closing
    BY <1>4, <2>1 DEF Dialogs
  <2> QED
    BY <1>2, <1>4, <1>7, <2>2 DEF v, a
<1>8. CASE ~heard.startup /\ should_present(e)
  <2>1. v = [heard EXCEPT !.visible = TRUE, !.closing = FALSE]
    BY <1>3, <1>8, Zenon DEF Show
  <2>2. /\ v \in Dialogs /\ v.stage = heard.stage /\ v.shown = heard.shown /\ v.startup = heard.startup
        /\ v.deadline = heard.deadline /\ v.visible /\ ~v.closing
    BY <1>2, <2>1 DEF Dialogs
  <2> QED
    BY <1>2, <1>8, <2>2 DEF v, a, should_present
<1>9. CASE ~heard.startup /\ ~should_present(e)
  <2>1. v = IF heard.visible /\ ~heard.closing /\ heard.stage \notin {"Current", "Error"}
            THEN [heard EXCEPT !.closing = TRUE] ELSE heard
    BY <1>3, <1>9, Zenon DEF Hide
  <2>2. /\ v \in Dialogs /\ v.stage = heard.stage /\ v.shown = heard.shown /\ v.startup = heard.startup
        /\ v.deadline = heard.deadline
        /\ heard.stage \in {"Available", "Ready"} => v.closing \/ ~v.visible
    BY <1>2, <2>1 DEF Dialogs
  <2> QED
    BY <1>2, <1>9, <2>2 DEF v, a, should_present
<1> QED
  BY <1>5, <1>6, <1>7, <1>8, <1>9

\* Where the events that are left were before the first was taken.
LEMMA TailPlaces ==
  ASSUME NEW evs \in Seq(EventSet), evs # <<>>
  PROVE  LET rest == Tail(evs)
         IN /\ rest \in Seq(EventSet) /\ Len(rest) \in Nat /\ Len(evs) = Len(rest) + 1
            /\ Head(evs) = evs[1] /\ evs[1] \in EventSet
            /\ DOMAIN rest = 1 .. Len(rest) /\ DOMAIN evs = 1 .. Len(rest) + 1
            /\ \A i \in DOMAIN rest : i + 1 \in DOMAIN evs /\ rest[i] = evs[i + 1]
            /\ \A i \in DOMAIN evs : i # 1 => i - 1 \in DOMAIN rest /\ rest[i - 1] = evs[i]
<1>1. /\ Tail(evs) \in Seq(EventSet) /\ Len(Tail(evs)) = Len(evs) - 1 /\ Len(evs) \in Nat /\ Len(evs) # 0
      /\ \A i \in 1 .. Len(Tail(evs)) : Tail(evs)[i] = evs[i + 1]
  BY HeadTailProperties
<1>2. DOMAIN Tail(evs) = 1 .. Len(Tail(evs)) /\ DOMAIN evs = 1 .. Len(evs)
  BY <1>1
<1>3. \A i \in DOMAIN evs : i # 1 => i - 1 \in DOMAIN Tail(evs) /\ Tail(evs)[i - 1] = evs[i]
  <2>1. ASSUME NEW i \in DOMAIN evs, i # 1
        PROVE  i - 1 \in 1 .. Len(Tail(evs)) /\ (i - 1) + 1 = i
    BY <1>1, <1>2, <2>1
  <2> QED
    BY <1>1, <1>2, <2>1
<1> QED
  BY <1>1, <1>2, <1>3

\* Nothing of a kind is left after a place if nothing was, and the other way round.
LEMMA NoneAfterTail ==
  ASSUME NEW evs \in Seq(EventSet), evs # <<>>, NEW i \in Nat, NEW K
  PROVE  NoneAfter(Tail(evs), i, K) <=> NoneAfter(evs, i + 1, K)
<1> DEFINE rest == Tail(evs)
<1>0. /\ DOMAIN rest = 1 .. Len(rest) /\ DOMAIN evs = 1 .. Len(rest) + 1 /\ Len(rest) \in Nat
      /\ \A j \in DOMAIN rest : j + 1 \in DOMAIN evs /\ rest[j] = evs[j + 1]
      /\ \A j \in DOMAIN evs : j # 1 => j - 1 \in DOMAIN rest /\ rest[j - 1] = evs[j]
  BY TailPlaces
<1> HIDE DEF rest
<1>1. ASSUME NoneAfter(rest, i, K), NEW j \in DOMAIN evs, j > i + 1
      PROVE  evs[j].kind \notin K
  <2>1. j # 1 /\ j - 1 > i
    BY <1>0, <1>1
  <2> QED
    BY <1>0, <1>1, <2>1 DEF NoneAfter
<1>2. ASSUME NoneAfter(evs, i + 1, K), NEW j \in DOMAIN rest, j > i
      PROVE  rest[j].kind \notin K
  <2>1. j + 1 > i + 1
    BY <1>0, <1>2
  <2> QED
    BY <1>0, <1>2, <2>1 DEF NoneAfter
<1> QED
  BY <1>1, <1>2 DEF NoneAfter, rest

\* One event less to come and its kind.
LEMMA NoneAfterHead ==
  ASSUME NEW evs \in Seq(EventSet), evs # <<>>, NEW K
  PROVE  NoneAfter(evs, 0, K) <=> NoneAfter(evs, 1, K) /\ evs[1].kind \notin K
<1>1. DOMAIN evs = 1 .. Len(evs) /\ Len(evs) \in Nat /\ 1 \in DOMAIN evs
  BY TailPlaces
<1>2. \A j \in DOMAIN evs : j > 0 /\ (j > 1 \/ j = 1)
  BY <1>1
<1> QED
  BY <1>1, <1>2 DEF NoneAfter

\* The application handles one event.
LEMMA HandlesEvent ==
  ASSUME NEW u \in Dialogs, NEW evs \in Seq(EventSet), evs # <<>>, NEW fate, NEW eng \in Engines,
         Story(u, evs, fate, eng), NEW then \in {fate, "goes"},
         Head(evs).kind = "quit_requested" => then = "goes"
  PROVE  Story(OnEvent(u, Head(evs)), Tail(evs), then, eng)
<1> DEFINE rest == Tail(evs)
           e == Head(evs)
           v == OnEvent(u, e)
<1>0. /\ rest \in Seq(EventSet) /\ DOMAIN rest = 1 .. Len(rest) /\ DOMAIN evs = 1 .. Len(rest) + 1
      /\ Len(rest) \in Nat /\ Len(evs) = Len(rest) + 1
      /\ \A j \in DOMAIN rest : j + 1 \in DOMAIN evs /\ rest[j] = evs[j + 1]
      /\ \A j \in DOMAIN evs : j # 1 => j - 1 \in DOMAIN rest /\ rest[j - 1] = evs[j]
      /\ evs[1] = e /\ e \in EventSet /\ 1 \in DOMAIN evs
  BY TailPlaces
<1>1. /\ \A i \in Nat : \A K : NoneAfter(rest, i, K) <=> NoneAfter(evs, i + 1, K)
      /\ \A K : NoneAfter(rest, 0, K) <=> NoneAfter(evs, 1, K)
      /\ \A K : NoneAfter(evs, 0, K) <=> NoneAfter(evs, 1, K) /\ e.kind \notin K
  <2>1. \A i \in Nat : \A K : NoneAfter(rest, i, K) <=> NoneAfter(evs, i + 1, K)
    BY NoneAfterTail
  <2>2. \A K : NoneAfter(evs, 0, K) <=> NoneAfter(evs, 1, K) /\ e.kind \notin K
    BY <1>0, NoneAfterHead
  <2>3. 0 \in Nat /\ 0 + 1 = 1
    OBVIOUS
  <2> HIDE DEF rest, e
  <2> QED
    BY <2>1, <2>2, <2>3, Zenon
<1>2. /\ v \in Dialogs
      /\ e.kind \notin Model => v.stage = u.stage
      /\ e.kind = "checking" => v.stage = "Checking"
      /\ e.kind \in Model /\ v.stage = "Available" => e.kind = "available"
      /\ e.kind \in Model /\ v.stage = "Ready" => e.kind = "ready"
      /\ v.stage \in {"Current", "Error"} /\ e.kind \in Model => e.kind \in SetsShown \ {"available"}
      /\ e.kind \notin SetsShown => v.shown = u.shown
      /\ e.kind = "available" => v.stage = "Available" /\ v.shown = e.release
  <2> DEFINE a == apply_event(u, e)
  <2>1. v \in Dialogs /\ v.stage = a.stage /\ v.shown = a.shown
    BY <1>0, OnEventFields
  <2>2. /\ e.kind \notin Model => a.stage = u.stage
        /\ e.kind = "checking" => a.stage = "Checking"
        /\ e.kind \in Model /\ a.stage = "Available" => e.kind = "available"
        /\ e.kind \in Model /\ a.stage = "Ready" => e.kind = "ready"
        /\ a.stage \in {"Current", "Error"} /\ e.kind \in Model => e.kind \in SetsShown \ {"available"}
        /\ e.kind \notin SetsShown => a.shown = u.shown
        /\ e.kind = "available" => a.stage = "Available" /\ a.shown = e.release
    BY <1>0, AppliedFields
  <2> HIDE DEF a, v, e
  <2> QED
    BY <2>1, <2>2
<1>3. /\ v.startup => u.startup /\ Waiting(e)
      /\ v.deadline => u.deadline /\ Waiting(e)
      /\ e.kind = "available" => v.visible /\ ~v.closing
      /\ u.visible /\ ~u.closing /\ e.kind \notin {"dismissed", "quit_requested"} => v.visible /\ ~v.closing
      /\ e.kind = "dismissed" /\ ~u.startup /\ v.stage \in {"Available", "Ready"} => v.closing \/ ~v.visible
  BY <1>0, OnEventFields
<1>4. OnScreen(u, evs, fate, eng) /\ StartupFirst(u, evs, eng) /\ HeadlineComes(u, evs, eng)
      /\ HeadlineThere(u, evs, fate, eng) /\ OffersBacked(u, evs, fate, eng)
  BY DEF Story
<1>5. e.kind \in Kinds /\ (e.kind = "quit_requested" => then = "goes")
  BY <1>0 DEF EventSet
<1> HIDE DEF rest, e, v
<1>6. OnScreen(v, rest, then, eng)
  <2>1. SUFFICES ASSUME eng.state # "Idle", then # "goes"
                 PROVE  \/ \E i \in DOMAIN rest : rest[i].kind = "available" /\ NoneAfter(rest, i, {"dismissed"})
                        \/ v.visible /\ ~v.closing /\ NoneAfter(rest, 0, {"dismissed"})
    BY DEF OnScreen
  <2>2. CASE u.visible /\ ~u.closing /\ NoneAfter(evs, 0, {"dismissed"})
    BY <1>1, <1>3, <1>5, <2>1, <2>2
  <2>3. CASE \E k \in DOMAIN evs : evs[k].kind = "available" /\ NoneAfter(evs, k, {"dismissed"})
    <3>1. PICK k \in DOMAIN evs : evs[k].kind = "available" /\ NoneAfter(evs, k, {"dismissed"})
      BY <2>3
    <3>2. CASE k = 1
      BY <1>0, <1>1, <1>3, <3>1, <3>2
    <3>3. CASE k # 1
      <4>1. k - 1 \in DOMAIN rest /\ rest[k - 1] = evs[k] /\ k - 1 \in Nat /\ (k - 1) + 1 = k
        BY <1>0, <3>3
      <4>2. NoneAfter(rest, k - 1, {"dismissed"})
        BY <1>1, <3>1, <4>1
      <4> QED
        BY <3>1, <4>1, <4>2
    <3> QED
      BY <3>2, <3>3
  <2> QED
    BY <1>4, <2>1, <2>2, <2>3 DEF OnScreen
<1>7. StartupFirst(v, rest, eng)
  <2>1. SUFFICES ASSUME v.startup
                 PROVE  /\ v.stage \in {"Idle", "Checking"} /\ ~v.deadline
                        /\ eng.state = "Idle" \/ \E i \in DOMAIN rest : rest[i].kind = "available"
    BY DEF StartupFirst
  <2>2. u.startup /\ e.kind \in {"checking", "focus"}
    BY <1>3, <2>1 DEF Waiting
  <2>3. v.stage \in {"Idle", "Checking"} /\ ~v.deadline
    BY <1>2, <1>3, <1>4, <2>2 DEF StartupFirst, Model
  <2>4. ASSUME NEW k \in DOMAIN evs, evs[k].kind = "available"
        PROVE  \E i \in DOMAIN rest : rest[i].kind = "available"
    <3>1. k # 1
      BY <1>0, <2>2, <2>4
    <3>2. k - 1 \in DOMAIN rest /\ rest[k - 1].kind = "available"
      BY <1>0, <2>4, <3>1
    <3> QED
      BY <3>2
  <2> QED
    BY <1>4, <2>2, <2>3, <2>4 DEF StartupFirst
<1>8. ASSUME NEW stage \in {"Available", "Ready"}, NEW i \in 0 .. Len(rest), Says(v, rest, i, stage)
      PROVE  \/ i + 1 \in 0 .. Len(evs) /\ Says(u, evs, i + 1, stage)
             \/ i = 0 /\ 0 \in 0 .. Len(evs) /\ Says(u, evs, 0, stage) /\ e.kind \notin Model /\ u.stage = stage
  <2>1. i \in Nat /\ i + 1 \in Nat /\ i + 1 # 0 /\ i + 1 \in 0 .. Len(evs) /\ 0 \in 0 .. Len(evs)
        /\ (i # 0 => i \in DOMAIN rest)
    BY <1>0
  <2>2. NoneAfter(evs, i + 1, Model)
    BY <1>1, <1>8, <2>1 DEF Says
  <2>3. CASE i # 0
    <3>1. evs[i + 1].kind = (IF stage = "Available" THEN "available" ELSE "ready")
      BY <1>0, <1>8, <2>1, <2>3 DEF Says
    <3> QED
      BY <2>1, <2>2, <3>1 DEF Says
  <2>4. CASE i = 0 /\ e.kind \in Model
    <3>1. v.stage = stage
      BY <1>8, <2>4 DEF Says
    <3>2. e.kind = (IF stage = "Available" THEN "available" ELSE "ready")
      BY <1>2, <2>4, <3>1
    <3>3. evs[i + 1] = e
      BY <1>0, <2>4
    <3> QED
      BY <2>1, <2>2, <3>2, <3>3 DEF Says
  <2>5. CASE i = 0 /\ e.kind \notin Model
    <3>1. u.stage = stage
      BY <1>2, <1>8, <2>5 DEF Says
    <3>2. NoneAfter(rest, 0, Model)
      BY <1>8, <2>5 DEF Says
    <3>3. NoneAfter(evs, 0, Model)
      BY <1>1, <2>5, <3>2
    <3> QED
      BY <2>1, <2>5, <3>1, <3>3 DEF Says
  <2> QED
    BY <2>3, <2>4, <2>5
<1>9. Offering(v, rest, eng) => Offering(u, evs, eng)
  BY <1>8 DEF Offering
<1>10. HeadlineComes(v, rest, eng)
  <2>1. ASSUME Offering(v, rest, eng), NEW i \in DOMAIN rest, rest[i].kind \in SetsShown,
               NoneAfter(rest, i, SetsShown)
        PROVE  rest[i] = Available(eng.release)
    <3>1. i \in Nat /\ i + 1 \in DOMAIN evs /\ rest[i] = evs[i + 1] /\ NoneAfter(evs, i + 1, SetsShown)
      BY <1>0, <1>1, <2>1
    <3> QED
      BY <1>4, <1>9, <2>1, <3>1 DEF HeadlineComes
  <2> QED
    BY <2>1 DEF HeadlineComes
<1>11. HeadlineThere(v, rest, then, eng)
  <2>1. SUFFICES ASSUME Offering(v, rest, eng), NoneAfter(rest, 0, SetsShown), then # "goes"
                 PROVE  /\ v.shown = eng.release
                        /\ ~v.deadline /\ ~v.startup
                        /\ v.visible /\ ~v.closing
                        /\ v.stage \notin {"Current", "Error"}
    BY DEF HeadlineThere
  <2>2. NoneAfter(evs, 1, SetsShown) /\ Offering(u, evs, eng) /\ fate # "goes" /\ eng.state # "Idle"
    BY <1>1, <1>9, <2>1 DEF Offering
  <2>3. CASE e.kind \in SetsShown
    <3>1. e = Available(eng.release)
      BY <1>0, <1>4, <2>2, <2>3 DEF HeadlineComes
    <3>2. e.kind = "available" /\ e.release = eng.release
      BY <3>1 DEF Available
    <3> QED
      BY <1>2, <1>3, <3>2 DEF Waiting
  <2>4. CASE e.kind \notin SetsShown
    <3>1. NoneAfter(evs, 0, SetsShown)
      BY <1>1, <2>2, <2>4
    <3>2. u.shown = eng.release /\ ~u.deadline /\ ~u.startup /\ u.visible /\ ~u.closing
          /\ u.stage \notin {"Current", "Error"}
      BY <1>4, <2>2, <3>1 DEF HeadlineThere
    <3>3. \A k \in DOMAIN evs : evs[k].kind # "available"
      <4>1. \A k \in DOMAIN evs : k > 0
        BY <1>0
      <4> QED
        BY <3>1, <4>1 DEF NoneAfter, SetsShown
    <3>4. NoneAfter(evs, 0, {"dismissed"})
      BY <1>4, <2>2, <3>3 DEF OnScreen
    <3>5. e.kind # "dismissed" /\ e.kind # "quit_requested"
      BY <1>1, <1>5, <2>1, <3>4
    <3>6. v.stage \notin {"Current", "Error"}
      BY <1>2, <2>4, <3>2
    <3> QED
      BY <1>2, <1>3, <2>4, <3>2, <3>5, <3>6
  <2> QED
    BY <2>3, <2>4
<1>12. OffersBacked(v, rest, then, eng)
  <2>1. ASSUME NEW stage \in {"Available", "Ready"}, NEW i \in 0 .. Len(rest), Says(v, rest, i, stage),
               then # "goes", NEW k \in 0 .. Len(evs), Says(u, evs, k, stage), Withdrawn(u, evs, k),
               k = i + 1 \/ (k = 0 /\ i = 0 /\ e.kind \notin Model /\ u.stage = stage)
        PROVE  Withdrawn(v, rest, i)
    <3>0. i \in Nat
      BY <1>0
    <3>1. ASSUME e.kind = "dismissed", k = 0, NoneAfter(evs, 1, {"focus"})
          PROVE  Withdrawn(v, rest, i)
      <4>1. i = 0 /\ u.stage = stage /\ v.stage = stage
        BY <1>0, <1>2, <2>1, <3>0, <3>1
      <4>2. ~u.startup
        BY <1>4, <4>1 DEF StartupFirst
      <4>3. v.closing \/ ~v.visible
        BY <1>3, <3>1, <4>1, <4>2
      <4> QED
        BY <1>1, <3>1, <4>1, <4>3 DEF Withdrawn
    <3>2. CASE \E j \in DOMAIN evs : j > k /\ evs[j].kind = "dismissed" /\ NoneAfter(evs, j, {"focus"})
      <4>1. PICK j \in DOMAIN evs : j > k /\ evs[j].kind = "dismissed" /\ NoneAfter(evs, j, {"focus"})
        BY <3>2
      <4>2. CASE j = 1
        <5>1. k = 0
          BY <1>0, <4>1, <4>2
        <5> QED
          BY <1>0, <3>1, <4>1, <4>2, <5>1
      <4>3. CASE j # 1
        <5>1. j - 1 \in DOMAIN rest /\ rest[j - 1] = evs[j] /\ j - 1 \in Nat /\ (j - 1) + 1 = j /\ j - 1 > i
          BY <1>0, <2>1, <3>0, <4>1, <4>3
        <5>2. NoneAfter(rest, j - 1, {"focus"})
          BY <1>1, <4>1, <5>1
        <5> QED
          BY <4>1, <5>1, <5>2 DEF Withdrawn
      <4> QED
        BY <4>2, <4>3
    <3>3. CASE k = 0 /\ (u.closing \/ ~u.visible) /\ NoneAfter(evs, 0, {"focus"})
      <4>1. e.kind \notin Model /\ e.kind # "focus" /\ NoneAfter(evs, 1, {"focus"})
        BY <1>0, <1>1, <2>1, <3>0, <3>3
      <4>2. e.kind = "dismissed"
        BY <1>5, <2>1, <4>1 DEF Kinds, Model
      <4> QED
        BY <3>1, <3>3, <4>1, <4>2
    <3> QED
      BY <2>1, <3>2, <3>3 DEF Withdrawn
  <2>2. ASSUME NEW stage \in {"Available", "Ready"}, NEW i \in 0 .. Len(rest), Says(v, rest, i, stage),
               then # "goes", ~Backed(eng, stage)
        PROVE  Withdrawn(v, rest, i)
    <3>1. PICK k \in 0 .. Len(evs) :
             /\ Says(u, evs, k, stage)
             /\ k = i + 1 \/ (k = 0 /\ i = 0 /\ e.kind \notin Model /\ u.stage = stage)
      BY <1>8, <2>2
    <3>2. Withdrawn(u, evs, k)
      BY <1>4, <2>2, <3>1 DEF OffersBacked
    <3> QED
      BY <2>1, <2>2, <3>1, <3>2
  <2> QED
    BY <2>2 DEF OffersBacked
<1> QED
  BY <1>6, <1>7, <1>10, <1>11, <1>12 DEF Story, rest, e, v

\* The deadlines of the startup check and of a manual one.
LEMMA LateKeeps ==
  ASSUME NEW u \in Dialogs, NEW evs \in Seq(EventSet), NEW fate, NEW eng, Story(u, evs, fate, eng),
         NEW startupLate \in BOOLEAN, NEW manualLate \in BOOLEAN
  PROVE  LET v == Late(u, startupLate, manualLate)
         IN v \in Dialogs /\ Story(v, evs, fate, eng)
<1>1. ASSUME NEW w \in Dialogs, Story(w, evs, fate, eng), w.deadline
      PROVE  ManualTimeout(w) \in Dialogs /\ Story(ManualTimeout(w), evs, fate, eng)
  <2> DEFINE v == ManualTimeout(w)
  <2>1. v \in Dialogs /\ v.stage = "Error" /\ v.visible /\ ~v.closing /\ v.startup = w.startup /\ ~v.deadline
    BY DEF ManualTimeout, Show, show_unavailable, Dialogs, Stages
  <2>2. ~w.startup
    BY <1>1 DEF Story, StartupFirst
  <2> HIDE DEF v
  <2>3. Story(v, evs, fate, eng)
    BY <1>1, <2>1, <2>2, DialogKeeps
  <2> QED
    BY <2>1, <2>3 DEF v
<1>2. ASSUME u.startup
      PROVE  StartupTimeout(u) \in Dialogs /\ Story(StartupTimeout(u), evs, fate, eng)
  <2> DEFINE v == StartupTimeout(u)
             ended == [u EXCEPT !.startup = FALSE, !.started = FALSE]
             said == IF u.visible THEN [ended EXCEPT !.stage = "Error", !.shown = None] ELSE ended
  <2>1. /\ ended \in Dialogs /\ ended.stage = u.stage /\ ended.visible = u.visible /\ ended.closing = u.closing
        /\ ended.startup = FALSE
    BY DEF Dialogs
  <2>2. v = [said EXCEPT !.connect = FALSE]
    BY Zenon DEF StartupTimeout, begin_startup_connection, show_unavailable
  <2> HIDE DEF ended
  <2>3. /\ said \in Dialogs /\ said.stage \in {"Error", u.stage} /\ said.visible = u.visible
        /\ said.closing = u.closing /\ said.startup = FALSE
    BY <2>1, ZenonT(30) DEF Dialogs, Stages
  <2> HIDE DEF said, v
  <2>4. /\ v \in Dialogs /\ v.stage = said.stage /\ v.visible = said.visible /\ v.closing = said.closing
        /\ v.startup = FALSE
    BY <2>2, <2>3 DEF Dialogs
  <2>5. u.stage \in {"Idle", "Checking"}
    BY <1>2 DEF Story, StartupFirst
  <2>6. v.stage \notin {"Available", "Ready"} /\ v.visible = u.visible /\ v.closing = u.closing
    BY <2>3, <2>4, <2>5
  <2>7. Story(v, evs, fate, eng)
    BY <1>2, <2>4, <2>6, DialogKeeps
  <2> QED
    BY <2>4, <2>7 DEF v
<1> DEFINE started == IF startupLate /\ u.startup THEN StartupTimeout(u) ELSE u
<1>3. started \in Dialogs /\ Story(started, evs, fate, eng)
  BY <1>2
<1>4. Late(u, startupLate, manualLate) =
        IF manualLate /\ started.deadline THEN ManualTimeout(started) ELSE started
  BY DEF Late
<1> HIDE DEF started
<1> QED
  BY <1>1, <1>3, <1>4

-----------------------------------------------------------------------------
(* The commands under way.                                                 *)

\* A command that is sent dismisses what the worker has, or changes nothing yet.
LEMMA FateSent ==
  ASSUME NEW cmds \in Seq(CommandSet), NEW c \in CommandSet, NEW q \in BOOLEAN
  PROVE  /\ Append(cmds, c) \in Seq(CommandSet)
         /\ Fate(q, Append(cmds, c)) \in {Fate(FALSE, cmds), "goes"}
         /\ Fate(q, cmds) \in {Fate(FALSE, cmds), "goes"}
         /\ c.kind = "Dismiss" \/ q => Fate(q, Append(cmds, c)) = "goes"
<1> DEFINE all == Append(cmds, c)
<1>1. /\ all \in Seq(CommandSet) /\ DOMAIN cmds = 1 .. Len(cmds) /\ DOMAIN all = 1 .. Len(cmds) + 1
      /\ Len(cmds) \in Nat /\ all[Len(cmds) + 1] = c /\ \A i \in 1 .. Len(cmds) : all[i] = cmds[i]
  BY AppendProperties
<1>2. Len(cmds) + 1 \in DOMAIN all /\ \A i \in DOMAIN cmds : i \in DOMAIN all
  BY <1>1
<1> HIDE DEF all
<1>3. Fate(FALSE, cmds) = "goes" => Fate(q, all) = "goes"
  BY <1>1, <1>2 DEF Fate
<1>4. Fate(q, all) \in {"goes", "stays"} /\ Fate(q, cmds) \in {"goes", "stays"} /\ Fate(FALSE, cmds) \in {"goes", "stays"}
  BY DEF Fate
<1>5. Fate(FALSE, cmds) = "goes" => Fate(q, cmds) = "goes"
  BY DEF Fate
<1>6. c.kind = "Dismiss" \/ q => Fate(q, all) = "goes"
  BY <1>1, <1>2 DEF Fate
<1> QED
  BY <1>1, <1>3, <1>4, <1>5, <1>6 DEF all

\* A command that is taken and dismisses nothing leaves the others.
LEMMA FateTaken ==
  ASSUME NEW cmds \in Seq(CommandSet), cmds # <<>>, NEW q \in BOOLEAN
  PROVE  /\ Tail(cmds) \in Seq(CommandSet)
         /\ Head(cmds).kind # "Dismiss" => Fate(q, Tail(cmds)) = Fate(q, cmds)
<1> DEFINE rest == Tail(cmds)
<1>1. /\ rest \in Seq(CommandSet) /\ Len(rest) = Len(cmds) - 1 /\ Len(cmds) \in Nat /\ Len(cmds) # 0
      /\ \A i \in 1 .. Len(rest) : rest[i] = cmds[i + 1]
      /\ DOMAIN cmds = 1 .. Len(cmds) /\ DOMAIN rest = 1 .. Len(rest) /\ Head(cmds) = cmds[1]
  BY HeadTailProperties
<1>2. \A i \in DOMAIN rest : i + 1 \in DOMAIN cmds /\ rest[i] = cmds[i + 1]
  BY <1>1
<1>3. ASSUME NEW i \in DOMAIN cmds, i # 1
      PROVE  i - 1 \in DOMAIN rest /\ rest[i - 1] = cmds[i]
  <2>1. i - 1 \in 1 .. Len(rest) /\ (i - 1) + 1 = i
    BY <1>1, <1>3
  <2> QED
    BY <1>1, <2>1
<1> HIDE DEF rest
<1>4. Head(cmds).kind # "Dismiss" =>
        ((\E i \in DOMAIN rest : rest[i].kind = "Dismiss") <=> (\E i \in DOMAIN cmds : cmds[i].kind = "Dismiss"))
  <2>1. ASSUME NEW i \in DOMAIN rest, rest[i].kind = "Dismiss"
        PROVE  \E j \in DOMAIN cmds : cmds[j].kind = "Dismiss"
    BY <1>2, <2>1, Zenon
  <2>2. ASSUME Head(cmds).kind # "Dismiss", NEW i \in DOMAIN cmds, cmds[i].kind = "Dismiss"
        PROVE  \E j \in DOMAIN rest : rest[j].kind = "Dismiss"
    <3>1. i # 1
      BY <1>1, <2>2
    <3>2. i - 1 \in DOMAIN rest /\ rest[i - 1].kind = "Dismiss"
      BY <1>3, <2>2, <3>1
    <3> QED
      BY <3>2, Zenon
  <2> QED
    BY <2>1, <2>2, Zenon
<1> QED
  BY <1>1, <1>4 DEF Fate, rest

-----------------------------------------------------------------------------
(* The steps of the application.                                           *)

\* What a step that leaves the worker alone has to show.
LEMMA DialogStep ==
  ASSUME IInv, UNCHANGED <<engine, archive>>, ui' \in Dialogs, commands' \in Seq(CommandSet),
         events' \in Seq(EventSet), cancelled' \in BOOLEAN, feed' \in Releases \cup {None}, quit' \in BOOLEAN,
         clicks' \in 0 .. MaxClicks, Story(ui', events', Fate(quit', commands'), engine)
  PROVE  IInv'
<1>1. TypeOK'
  BY DEF IInv, TypeOK, EventSet, CommandSet
<1>2. EngineShape' /\ ReadyIsVerified'
  BY DEF IInv, EngineShape, ReadyIsVerified
<1>3. engine' = engine
  OBVIOUS
<1>4. Story(ui', events', Fate(quit', commands'), engine')
  BY <1>3, Zenon
<1> QED
  BY <1>1, <1>2, <1>4 DEF IInv

\* The types of the variables.
LEMMA TypeFields ==
  ASSUME IInv
  PROVE  /\ ui \in Dialogs /\ commands \in Seq(CommandSet) /\ events \in Seq(EventSet)
         /\ cancelled \in BOOLEAN /\ engine \in Engines /\ feed \in Releases \cup {None} /\ quit \in BOOLEAN
         /\ clicks \in 0 .. MaxClicks /\ ui.stage \in Stages
  BY DEF IInv, TypeOK, EventSet, CommandSet, Engines, Dialogs

\* poll_update_events.
LEMMA PollKeeps ==
  ASSUME IInv, NEW arrived \in BOOLEAN, NEW startupLate \in BOOLEAN, NEW manualLate \in BOOLEAN,
         Poll(arrived, startupLate, manualLate)
  PROVE  IInv'
<1> DEFINE ask == ui.startup /\ ~ui.started
           asked == [ui EXCEPT !.started = ui.startup]
           polled == IF arrived THEN OnEvent(asked, Head(events)) ELSE asked
           quits == arrived /\ Head(events).kind = "quit_requested"
           fate == Fate(quit, commands)
           then == Fate(quit', commands')
<1>1. /\ ui \in Dialogs /\ commands \in Seq(CommandSet) /\ events \in Seq(EventSet) /\ engine \in Engines
      /\ cancelled \in BOOLEAN /\ ui.stage \in Stages
  BY TypeFields
<1>2. /\ ~quit /\ (arrived => events # <<>>)
      /\ ui' = IF quits THEN polled ELSE Late(polled, startupLate /\ ~ask, manualLate)
      /\ quit' = quits /\ quits \in BOOLEAN
      /\ events' = IF arrived THEN Tail(events) ELSE events
      /\ IF ask THEN Send("Check") ELSE UNCHANGED <<commands, cancelled>>
      /\ UNCHANGED <<engine, archive, feed, clicks>>
  BY DEF Poll
<1>3. /\ asked \in Dialogs /\ asked.stage = ui.stage /\ asked.shown = ui.shown /\ asked.visible = ui.visible
      /\ asked.closing = ui.closing /\ asked.startup = ui.startup /\ asked.deadline = ui.deadline
  BY <1>1 DEF Dialogs
<1>4. commands' \in Seq(CommandSet) /\ cancelled' \in BOOLEAN /\ then \in {fate, "goes"} /\ (quits => then = "goes")
  <2>1. quit' \in BOOLEAN /\ fate = Fate(FALSE, commands)
    BY <1>2 DEF Fate
  <2>2. CASE ask
    <3> DEFINE c == [kind |-> "Check", button |-> ui.stage]
    <3>1. c \in CommandSet /\ commands' = Append(commands, c) /\ cancelled' \in BOOLEAN
      BY <1>1, <1>2, <2>2 DEF Send, CommandSet
    <3> HIDE DEF c
    <3> QED
      BY <1>1, <1>2, <2>1, <3>1, FateSent
  <2>3. CASE ~ask
    <3>1. commands' = commands /\ cancelled' = cancelled
      BY <1>2, <2>3
    <3>2. Fate(quit', commands) \in {Fate(FALSE, commands), "goes"} /\ (quit' => Fate(quit', commands) = "goes")
      BY <2>1 DEF Fate
    <3> QED
      BY <1>1, <1>2, <2>1, <3>1, <3>2
  <2> QED
    BY <2>2, <2>3
<1>5. Story(ui, events, fate, engine)
  BY DEF IInv
<1>6. StartupFirst(ui, events, engine)
  BY <1>5 DEF Story
<1> HIDE DEF asked, fate, then, ask, quits
<1>7. Story(asked, events, fate, engine) /\ Story(asked, events, then, engine)
  <2>1. asked.startup => ui.startup /\ asked.stage \in {"Idle", "Checking"} /\ ~asked.deadline
    BY <1>3, <1>6 DEF StartupFirst
  <2> QED
    BY <1>1, <1>3, <1>4, <1>5, <2>1, DialogKeeps
<1>8. polled \in Dialogs /\ events' \in Seq(EventSet) /\ Story(polled, events', then, engine)
  <2>1. CASE arrived
    <3>1. events # <<>> /\ events' = Tail(events) /\ polled = OnEvent(asked, Head(events))
      BY <1>2, <2>1
    <3>2. Head(events).kind = "quit_requested" => then = "goes"
      BY <1>4, <2>1 DEF quits
    <3>3. Story(OnEvent(asked, Head(events)), Tail(events), then, engine)
      BY <1>1, <1>3, <1>4, <1>7, <3>1, <3>2, HandlesEvent
    <3>4. Head(events) \in EventSet /\ Tail(events) \in Seq(EventSet)
      BY <1>1, <3>1, TailPlaces
    <3>5. OnEvent(asked, Head(events)) \in Dialogs
      BY <1>3, <3>4, OnEventFields
    <3> QED
      BY <3>1, <3>3, <3>4, <3>5
  <2>2. CASE ~arrived
    <3>1. events' = events /\ polled = asked
      BY <1>2, <2>2
    <3> QED
      BY <1>1, <1>3, <1>7, <3>1
  <2> QED
    BY <2>1, <2>2
<1> HIDE DEF polled
<1>9. ui' \in Dialogs /\ Story(ui', events', then, engine)
  <2>1. CASE quits
    BY <1>2, <1>8, <2>1
  <2>2. CASE ~quits
    <3> DEFINE late == startupLate /\ ~ask
    <3>1. late \in BOOLEAN
      BY DEF ask
    <3> HIDE DEF late
    <3>2. LET v == Late(polled, late, manualLate) IN v \in Dialogs /\ Story(v, events', then, engine)
      BY <1>8, <3>1, LateKeeps
    <3>3. ui' = Late(polled, late, manualLate)
      BY <1>2, <2>2 DEF late
    <3> QED
      BY <3>2, <3>3
  <2> QED
    BY <2>1, <2>2
<1>10. feed' \in Releases \cup {None} /\ clicks' \in 0 .. MaxClicks /\ quit' \in BOOLEAN
  BY <1>2, TypeFields
<1> QED
  BY <1>2, <1>4, <1>8, <1>9, <1>10, DialogStep DEF then

\* A press, or the end of the closing animation: the dialog changes, and a
\* command may be sent.
LEMMA PressKeeps ==
  ASSUME IInv, HideDue \/ check_for_updates \/ perform_update_primary_action \/ close_update_dialog
  PROVE  IInv'
<1> DEFINE fate == Fate(quit, commands)
           then == Fate(quit', commands')
<1>1. /\ ui \in Dialogs /\ commands \in Seq(CommandSet) /\ events \in Seq(EventSet) /\ engine \in Engines
      /\ cancelled \in BOOLEAN /\ ui.stage \in Stages /\ feed \in Releases \cup {None} /\ quit \in BOOLEAN
      /\ clicks \in 0 .. MaxClicks
  BY TypeFields
<1>2. ~quit /\ UNCHANGED <<events, engine, archive, feed, quit>> /\ clicks' \in 0 .. MaxClicks
  BY <1>1, ClicksAssumption
     DEF HideDue, check_for_updates, perform_update_primary_action, close_update_dialog, Click
<1>3. ASSUME NEW kind \in {"Check", "PrimaryAction", "Dismiss"}, Send(kind)
      PROVE  /\ commands' \in Seq(CommandSet) /\ cancelled' \in BOOLEAN /\ then \in {fate, "goes"}
             /\ kind = "Dismiss" => then = "goes"
  <2> DEFINE c == [kind |-> kind, button |-> ui.stage]
  <2>1. c \in CommandSet /\ c.kind = kind /\ commands' = Append(commands, c) /\ cancelled' \in BOOLEAN
    BY <1>1, <1>3 DEF Send, CommandSet
  <2> HIDE DEF c
  <2>2. fate = Fate(FALSE, commands) /\ quit' = FALSE
    BY <1>1, <1>2 DEF Fate
  <2> QED
    BY <1>1, <2>1, <2>2, FateSent
<1>4. Story(ui, events, fate, engine)
  BY DEF IInv
<1>5. StartupFirst(ui, events, engine)
  BY <1>4 DEF Story
<1>6. ASSUME UNCHANGED <<commands, cancelled>>
      PROVE  commands' \in Seq(CommandSet) /\ cancelled' \in BOOLEAN /\ then \in {fate, "goes"}
  BY <1>1, <1>2, <1>6
<1> HIDE DEF fate, then
<1>7. SUFFICES /\ ui' \in Dialogs /\ commands' \in Seq(CommandSet) /\ cancelled' \in BOOLEAN
               /\ Story(ui', events, then, engine)
  <2>1. ASSUME ui' \in Dialogs /\ commands' \in Seq(CommandSet) /\ cancelled' \in BOOLEAN
               /\ Story(ui', events, then, engine)
        PROVE  IInv'
    <3>1. events' = events /\ events' \in Seq(EventSet) /\ feed' \in Releases \cup {None} /\ quit' \in BOOLEAN
      BY <1>1, <1>2
    <3>2. Story(ui', events', then, engine)
      BY <2>1, <3>1
    <3> QED
      BY <1>2, <2>1, <3>1, <3>2, DialogStep DEF then
  <2> QED
    BY <2>1
<1>8. CASE HideDue
  <2> DEFINE gone == [ui EXCEPT !.visible = FALSE, !.closing = FALSE]
  <2>1. /\ gone \in Dialogs /\ gone.stage = ui.stage /\ gone.startup = ui.startup /\ gone.deadline = ui.deadline
        /\ ~gone.visible
    BY <1>1 DEF Dialogs
  <2>2. ui' = [gone EXCEPT !.connect = FALSE] /\ ui.closing /\ UNCHANGED <<commands, cancelled>>
    BY <1>8 DEF HideDue, begin_startup_connection
  <2> HIDE DEF gone
  <2>3. /\ ui' \in Dialogs /\ ui'.stage = ui.stage /\ ui'.startup = ui.startup /\ ui'.deadline = ui.deadline
        /\ ~ui'.visible
    BY <2>1, <2>2 DEF Dialogs
  <2>4. ui'.startup => ui.startup /\ ui'.stage \in {"Idle", "Checking"} /\ ~ui'.deadline
    BY <1>5, <2>3 DEF StartupFirst
  <2>5. commands' \in Seq(CommandSet) /\ cancelled' \in BOOLEAN /\ then \in {fate, "goes"}
    BY <1>6, <2>2
  <2>6. ui'.stage = ui.stage /\ ui.closing /\ ~ui'.visible
    BY <2>2, <2>3
  <2>7. Story(ui', events, then, engine)
    BY <1>1, <1>4, <2>4, <2>5, <2>6, DialogKeeps
  <2> QED
    BY <2>3, <2>5, <2>7
<1>9. CASE check_for_updates
  <2> DEFINE checking == [ui EXCEPT !.stage = "Checking", !.shown = None]
             shown == [checking EXCEPT !.visible = TRUE, !.closing = FALSE]
  <2>1. checking \in Dialogs /\ checking.stage = "Checking" /\ checking.startup = ui.startup
    BY <1>1 DEF Dialogs, Stages
  <2>2. ui' = [shown EXCEPT !.deadline = ui.deadline \/ ~ui.startup] /\ ~ui.visible
    BY <1>9 DEF check_for_updates, Show, begin_check
  <2> HIDE DEF checking
  <2>3. shown \in Dialogs /\ shown.stage = "Checking" /\ shown.startup = ui.startup
    BY <2>1 DEF Dialogs
  <2> HIDE DEF shown
  <2>4. /\ ui' \in Dialogs /\ ui'.stage = "Checking" /\ ui'.startup = ui.startup
        /\ ui'.deadline = (ui.deadline \/ ~ui.startup)
    BY <1>1, <2>2, <2>3 DEF Dialogs
  <2>5. ui'.startup => ui.startup /\ ui'.stage \in {"Idle", "Checking"} /\ ~ui'.deadline
    BY <1>5, <2>4 DEF StartupFirst
  <2>6. commands' \in Seq(CommandSet) /\ cancelled' \in BOOLEAN /\ then \in {fate, "goes"}
    BY <1>3, <1>6, <1>9 DEF check_for_updates
  <2>7. ui'.stage \notin {"Available", "Ready"} /\ ~ui.visible
    BY <2>2, <2>4
  <2>8. Story(ui', events, then, engine)
    BY <1>1, <1>4, <2>5, <2>6, <2>7, DialogKeeps
  <2> QED
    BY <2>4, <2>6, <2>8
<1>10. CASE perform_update_primary_action
  <2>1. CASE ui.stage \in {"Current", "Error"} /\ ui' = [begin_check(ui) EXCEPT !.deadline = TRUE] /\ Send("Check")
    <3> DEFINE checking == [ui EXCEPT !.stage = "Checking", !.shown = None]
    <3>1. /\ checking \in Dialogs /\ checking.stage = "Checking" /\ checking.startup = ui.startup
          /\ checking.visible = ui.visible /\ checking.closing = ui.closing
      BY <1>1 DEF Dialogs, Stages
    <3>2. ui' = [checking EXCEPT !.deadline = TRUE]
      BY <2>1 DEF begin_check
    <3> HIDE DEF checking
    <3>3. /\ ui' \in Dialogs /\ ui'.stage = "Checking" /\ ui'.startup = ui.startup
          /\ ui'.visible = ui.visible /\ ui'.closing = ui.closing
      BY <3>1, <3>2 DEF Dialogs
    <3>4. ~ui.startup
      BY <1>5, <2>1 DEF StartupFirst
    <3>5. commands' \in Seq(CommandSet) /\ cancelled' \in BOOLEAN /\ then \in {fate, "goes"}
      BY <1>3, <2>1
    <3>6. /\ ~ui'.startup /\ ui'.stage \notin {"Available", "Ready"} /\ ui.stage \in {"Current", "Error"}
          /\ ui.visible /\ ~ui.closing => ui'.visible /\ ~ui'.closing
      BY <2>1, <3>3, <3>4
    <3>7. Story(ui', events, then, engine)
      BY <1>1, <1>4, <3>5, <3>6, DialogKeeps, ZenonT(60)
    <3> QED
      BY <3>3, <3>5, <3>7
  <2>2. CASE Send("PrimaryAction") /\ UNCHANGED ui
    <3>1. commands' \in Seq(CommandSet) /\ cancelled' \in BOOLEAN /\ then \in {fate, "goes"}
      BY <1>3, <2>2
    <3>2. ui.startup => ui.startup /\ ui.stage \in {"Idle", "Checking"} /\ ~ui.deadline
      BY <1>5 DEF StartupFirst
    <3>3. Story(ui, events, then, engine)
      BY <1>1, <1>4, <3>1, <3>2, DialogKeeps
    <3>4. ui' = ui
      BY <2>2
    <3> QED
      BY <1>1, <3>1, <3>3, <3>4
  <2> QED
    BY <1>10, <2>1, <2>2 DEF perform_update_primary_action
<1>11. CASE close_update_dialog
  <2> DEFINE heard == [ui EXCEPT !.deadline = FALSE]
  <2>1. /\ heard \in Dialogs /\ heard.stage = ui.stage /\ heard.startup = ui.startup /\ ~heard.deadline
    BY <1>1 DEF Dialogs
  <2>2. ui' = [heard EXCEPT !.closing = TRUE] /\ Send("Dismiss")
    BY <1>11 DEF close_update_dialog, Hide
  <2> HIDE DEF heard
  <2>3. /\ ui' \in Dialogs /\ ui'.stage = ui.stage /\ ui'.startup = ui.startup /\ ~ui'.deadline /\ ui'.closing
    BY <2>1, <2>2 DEF Dialogs
  <2>4. ui'.startup => ui.startup /\ ui'.stage \in {"Idle", "Checking"} /\ ~ui'.deadline
    BY <1>5, <2>3 DEF StartupFirst
  <2>5. commands' \in Seq(CommandSet) /\ cancelled' \in BOOLEAN /\ then = "goes"
    BY <1>3, <2>2
  <2>6. ui'.stage = ui.stage /\ ui'.closing
    BY <2>3
  <2>7. Story(ui', events, then, engine)
    BY <1>1, <1>4, <2>4, <2>5, <2>6, DialogKeeps
  <2> QED
    BY <2>3, <2>5, <2>7
<1> QED
  BY <1>8, <1>9, <1>10, <1>11

\* A release is published.
LEMMA PublishKeeps ==
  ASSUME IInv, Publish
  PROVE  IInv'
<1>1. /\ ui \in Dialogs /\ commands \in Seq(CommandSet) /\ events \in Seq(EventSet) /\ cancelled \in BOOLEAN
      /\ quit \in BOOLEAN /\ clicks \in 0 .. MaxClicks
  BY TypeFields
<1>2. feed' \in Releases \cup {None} /\ UNCHANGED <<ui, commands, events, cancelled, engine, archive, quit, clicks>>
  BY DEF Publish
<1>3. Story(ui, events, Fate(quit, commands), engine)
  BY DEF IInv
<1>4. ui' = ui /\ events' = events /\ quit' = quit /\ commands' = commands
  BY <1>2
<1>5. Story(ui', events', Fate(quit', commands'), engine)
  BY <1>3, <1>4, Zenon
<1> QED
  BY <1>1, <1>2, <1>4, <1>5, DialogStep

-----------------------------------------------------------------------------
(* The steps of the worker.                                                *)

\* The worker's own state, with the archive it is about.
Sound(eng, arch) ==
  /\ eng \in Engines
  /\ arch \in [Releases -> {"absent", "bad", "good"}]
  /\ (eng.state # "Idle") <=> (eng.release # None)
  /\ eng.job \in {"connect", "download", "extract"} => eng.state = "Available"
  /\ eng.job = "launch" => eng.state = "Ready"
  /\ eng.job = "fetch" => eng.state = "Idle"
  /\ eng.state \in {"Ready", "Installing"} \/ eng.job = "extract" => arch[eng.release] = "good"

\* The invariant's part on the worker.
LEMMA SoundNow ==
  ASSUME IInv
  PROVE  Sound(engine, archive)
  BY DEF IInv, TypeOK, EngineShape, ReadyIsVerified, Sound, Engines

\* What a step of the worker has to show.
LEMMA WorkerStep ==
  ASSUME IInv, Worker, commands' \in Seq(CommandSet), events' \in Seq(EventSet), Sound(engine', archive'),
         Story(ui, events', Fate(quit, commands'), engine')
  PROVE  IInv'
<1>1. TypeOK'
  BY DEF IInv, TypeOK, EventSet, CommandSet, Sound, Engines, Worker
<1>2. EngineShape' /\ ReadyIsVerified'
  BY DEF Sound, EngineShape, ReadyIsVerified
<1>3. ui' = ui /\ quit' = quit
  BY DEF Worker
<1>4. Story(ui', events', Fate(quit', commands'), engine')
  BY <1>3, Zenon
<1> QED
  BY <1>1, <1>2, <1>4 DEF IInv

\* One event, and two.
LEMMA Emits ==
  ASSUME NEW evs \in Seq(EventSet), NEW a \in EventSet, NEW b \in EventSet
  PROVE  /\ evs \o <<a>> = Append(evs, a) /\ Append(evs, a) \in Seq(EventSet)
         /\ evs \o <<a, b>> = Append(Append(evs, a), b) /\ Append(Append(evs, a), b) \in Seq(EventSet)
  OBVIOUS

\* The events that are emitted have their type.
LEMMA EventTypes ==
  /\ \A kind \in Kinds : Event(kind) \in EventSet /\ Event(kind).kind = kind
  /\ \A r \in Releases : Available(r) \in EventSet
  BY DEF Event, Available, EventSet, Kinds

\* Nothing is offered during the startup check.
LEMMA StartupStage ==
  ASSUME IInv
  PROVE  ui.startup => ui.stage \in {"Idle", "Checking"} /\ ~ui.deadline
  BY DEF IInv, Story, StartupFirst

\* Whatever the worker had is gone, and it says so.
LEMMA RestKeeps ==
  ASSUME IInv, Worker, commands' \in Seq(CommandSet), engine' = Rest,
         archive' \in [Releases -> {"absent", "bad", "good"}],
         NEW kind \in {"dismissed", "error", "not_found"}, Emit(<<Event(kind)>>)
  PROVE  IInv'
<1>1. Rest \in Engines /\ Rest.state = "Idle" /\ Rest.release = None /\ Rest.job = "none"
  BY DEF Rest, Engines, Jobs
<1>2. Sound(engine', archive')
  BY <1>1 DEF Sound
<1> DEFINE e == Event(kind)
<1>3. e \in EventSet /\ e.kind = kind
  BY EventTypes DEF Kinds
<1> HIDE DEF e
<1>4. events' = Append(events, e) /\ events' \in Seq(EventSet)
  BY <1>3, Emits, TypeFields DEF Emit, e
<1>5. Story(ui, Append(events, e), Fate(quit, commands'), Rest)
  BY <1>1, <1>3, EmitsAtRest, TypeFields, StartupStage
<1> QED
  BY <1>2, <1>4, <1>5, WorkerStep

\* A job is cancelled or fails.
LEMMA AbandonKeeps ==
  ASSUME IInv, NEW job, Abandon(job)
  PROVE  IInv'
<1>1. archive' \in [Releases -> {"absent", "bad", "good"}] /\ commands' \in Seq(CommandSet) /\ Worker /\ engine' = Rest
  BY SoundNow, TypeFields DEF Abandon, Ends, Sound
<1>2. Emit(<<Event("dismissed")>>) \/ Emit(<<Event("error")>>)
  BY DEF Abandon, Ends
<1> QED
  BY <1>1, <1>2, RestKeeps

\* The worker's next job, on the same release.
LEMMA NextJob ==
  ASSUME NEW eng \in Engines, NEW job \in Jobs
  PROVE  LET new == [eng EXCEPT !.job = job]
         IN new \in Engines /\ new.state = eng.state /\ new.release = eng.release /\ new.job = job
  BY DEF Engines

\* The worker takes a Dismiss or a Check.
LEMMA TakeKeeps ==
  ASSUME IInv, TakeDismiss \/ TakeCheck
  PROVE  IInv'
<1>0. /\ ui \in Dialogs /\ events \in Seq(EventSet) /\ commands \in Seq(CommandSet) /\ quit \in BOOLEAN
      /\ engine \in Engines /\ Sound(engine, archive)
  BY TypeFields, SoundNow
<1>1. /\ engine.job = "none" /\ commands # <<>> /\ commands' = Tail(commands) /\ archive' = archive /\ Worker
  BY DEF TakeDismiss, TakeCheck, Take
<1>2. commands' \in Seq(CommandSet)
  BY <1>0, <1>1, FateTaken
<1>3. CASE TakeDismiss
  <2>1. archive' \in [Releases -> {"absent", "bad", "good"}] /\ engine' = Rest /\ Emit(<<Event("dismissed")>>)
    BY <1>0, <1>1, <1>3 DEF Sound, TakeDismiss
  <2> QED
    BY <1>1, <1>2, <2>1, RestKeeps
<1>4. CASE TakeCheck
  <2> DEFINE fate == Fate(quit, commands)
             c == Event("checking")
             d == Event("dismissed")
             f == Event("focus")
  <2>1. Fate(quit, commands') = fate
    BY <1>0, <1>1, <1>4, FateTaken DEF TakeCheck, Take
  <2>2. /\ c \in EventSet /\ c.kind = "checking" /\ d \in EventSet /\ d.kind = "dismissed"
        /\ f \in EventSet /\ f.kind = "focus"
    BY EventTypes DEF Kinds
  <2>3. Story(ui, events, fate, engine)
    BY DEF IInv
  <2> HIDE DEF fate, c, d, f
  <2>4. CASE engine.state # "Idle" /\ Emit(<<f>>) /\ engine' = engine
    <3>1. events' = Append(events, f) /\ events' \in Seq(EventSet)
      BY <1>0, <2>2, <2>4, Emits DEF Emit
    <3>2. Story(ui, Append(events, f), fate, engine)
      BY <1>0, <2>2, <2>3, <2>4, EmitsOther
    <3>3. Sound(engine', archive')
      BY <1>0, <1>1, <2>4
    <3> QED
      BY <1>1, <1>2, <2>1, <2>4, <3>1, <3>2, <3>3, WorkerStep
  <2>5. CASE engine.state = "Idle" /\ Emit(<<c, d>>) /\ engine' = engine
    <3>1. events' = Append(Append(events, c), d) /\ events' \in Seq(EventSet) /\ Append(events, c) \in Seq(EventSet)
      BY <1>0, <2>2, <2>5, Emits DEF Emit
    <3>2. Story(ui, Append(Append(events, c), d), fate, engine)
      BY <1>0, <2>2, <2>5, <3>1, EmitsAtRest, StartupStage
    <3>3. Sound(engine', archive')
      BY <1>0, <1>1, <2>5
    <3> QED
      BY <1>1, <1>2, <2>1, <2>5, <3>1, <3>2, <3>3, WorkerStep
  <2>6. CASE engine.state = "Idle" /\ Emit(<<c>>) /\ engine' = [engine EXCEPT !.job = "fetch"]
    <3>1. events' = Append(events, c) /\ events' \in Seq(EventSet)
      BY <1>0, <2>2, <2>6, Emits DEF Emit
    <3>2. engine' \in Engines /\ engine'.state = "Idle" /\ engine'.release = engine.release /\ engine'.job = "fetch"
      BY <1>0, <2>6, NextJob DEF Jobs
    <3>3. Story(ui, Append(events, c), fate, engine')
      BY <1>0, <2>2, <3>2, EmitsAtRest, StartupStage
    <3>4. Sound(engine', archive')
      BY <1>0, <1>1, <2>6, <3>2 DEF Sound
    <3> QED
      BY <1>1, <1>2, <2>1, <3>1, <3>3, <3>4, WorkerStep
  <2> QED
    BY <1>4, <2>4, <2>5, <2>6 DEF TakeCheck, c, d, f
<1> QED
  BY <1>3, <1>4

\* The worker takes a press of the button.
LEMMA TakePrimaryActionKeeps ==
  ASSUME IInv, TakePrimaryAction
  PROVE  IInv'
<1> DEFINE fate == Fate(quit, commands)
<1>0. /\ ui \in Dialogs /\ events \in Seq(EventSet) /\ commands \in Seq(CommandSet) /\ quit \in BOOLEAN
      /\ engine \in Engines /\ Sound(engine, archive)
  BY TypeFields, SoundNow
<1>1. engine.job = "none" /\ commands # <<>> /\ commands' = Tail(commands) /\ Worker
      /\ Head(commands).kind = "PrimaryAction"
  BY DEF TakePrimaryAction
<1>2. commands' \in Seq(CommandSet) /\ Fate(quit, commands') = fate
  BY <1>0, <1>1, FateTaken
<1>3. Story(ui, events, fate, engine)
  BY DEF IInv
<1>4. archive \in [Releases -> {"absent", "bad", "good"}] /\ (engine.state # "Idle" => engine.release \in Releases)
  BY <1>0 DEF Sound, Engines
<1>5. ASSUME NEW job \in Jobs, engine' = [engine EXCEPT !.job = job]
      PROVE  engine' \in Engines /\ engine'.state = engine.state /\ engine'.release = engine.release /\ engine'.job = job
  BY <1>0, <1>5, NextJob
<1> HIDE DEF fate
<1>6. CASE engine.state = "Idle" /\ Emit(<<Event("error")>>) /\ UNCHANGED <<engine, archive>>
  <2> DEFINE e == Event("error")
  <2>1. e \in EventSet /\ e.kind = "error"
    BY EventTypes DEF Kinds
  <2> HIDE DEF e
  <2>2. events' = Append(events, e) /\ events' \in Seq(EventSet)
    BY <1>0, <1>6, <2>1, Emits DEF Emit, e
  <2>3. Story(ui, Append(events, e), fate, engine)
    BY <1>0, <1>6, <2>1, EmitsAtRest, StartupStage
  <2>4. Sound(engine', archive')
    BY <1>0, <1>6
  <2> QED
    BY <1>1, <1>2, <1>6, <2>2, <2>3, <2>4, WorkerStep
<1>7. CASE engine.state = "Installing" /\ Emit(<<Event("focus")>>) /\ UNCHANGED <<engine, archive>>
  <2> DEFINE e == Event("focus")
  <2>1. e \in EventSet /\ e.kind = "focus"
    BY EventTypes DEF Kinds
  <2> HIDE DEF e
  <2>2. events' = Append(events, e) /\ events' \in Seq(EventSet)
    BY <1>0, <1>7, <2>1, Emits DEF Emit, e
  <2>3. Story(ui, Append(events, e), fate, engine)
    BY <1>0, <1>3, <1>7, <2>1, EmitsOther
  <2>4. Sound(engine', archive')
    BY <1>0, <1>7
  <2> QED
    BY <1>1, <1>2, <1>7, <2>2, <2>3, <2>4, WorkerStep
<1>8. CASE engine.state = "Ready" /\ engine' = [engine EXCEPT !.job = "launch"] /\ UNCHANGED <<events, archive>>
  <2>1. engine' \in Engines /\ engine'.state = "Ready" /\ engine'.release = engine.release /\ engine'.job = "launch"
    BY <1>5, <1>8 DEF Jobs
  <2>2. Story(ui, events, fate, engine')
    BY <1>3, <1>8, <2>1, BeginsJob
  <2>3. Sound(engine', archive') /\ events' = events
    BY <1>0, <1>8, <2>1 DEF Sound
  <2> QED
    BY <1>0, <1>1, <1>2, <2>2, <2>3, WorkerStep
<1>9. CASE /\ engine.state = "Available" /\ archive[engine.release] = "good"
           /\ Emit(<<Event("downloading"), Event("extracting")>>)
           /\ engine' = [engine EXCEPT !.job = "extract"] /\ UNCHANGED archive
  <2> DEFINE d == Event("downloading")
             x == Event("extracting")
  <2>1. d \in EventSet /\ d.kind = "downloading" /\ x \in EventSet /\ x.kind = "extracting"
    BY EventTypes DEF Kinds
  <2> HIDE DEF d, x
  <2>2. events' = Append(Append(events, d), x) /\ events' \in Seq(EventSet) /\ Append(events, d) \in Seq(EventSet)
    BY <1>0, <1>9, <2>1, Emits DEF Emit, d, x
  <2>3. engine' \in Engines /\ engine'.state = "Available" /\ engine'.release = engine.release /\ engine'.job = "extract"
    BY <1>5, <1>9 DEF Jobs
  <2>4. Story(ui, Append(events, d), fate, engine)
    BY <1>0, <1>3, <1>9, <2>1, EmitsProgress
  <2>5. Story(ui, Append(Append(events, d), x), fate, engine')
    BY <1>9, <2>1, <2>2, <2>3, <2>4, EmitsProgress
  <2>6. Sound(engine', archive')
    BY <1>0, <1>9, <2>3 DEF Sound
  <2> QED
    BY <1>1, <1>2, <2>2, <2>5, <2>6, WorkerStep
<1>10. CASE /\ engine.state = "Available" /\ archive' = [archive EXCEPT ![engine.release] = "absent"]
            /\ IF cancelled THEN engine' = Rest /\ Emit(<<Event("dismissed")>>)
               ELSE engine' = [engine EXCEPT !.job = "connect"] /\ UNCHANGED events
  <2>1. archive' \in [Releases -> {"absent", "bad", "good"}]
    BY <1>4, <1>10
  <2>2. CASE engine' = Rest /\ Emit(<<Event("dismissed")>>)
    BY <1>1, <1>2, <2>1, <2>2, RestKeeps
  <2>3. CASE engine' = [engine EXCEPT !.job = "connect"] /\ UNCHANGED events
    <3>1. engine' \in Engines /\ engine'.state = "Available" /\ engine'.release = engine.release /\ engine'.job = "connect"
      BY <1>5, <1>10, <2>3 DEF Jobs
    <3>2. Story(ui, events, fate, engine')
      BY <1>3, <1>10, <3>1, BeginsJob
    <3>3. Sound(engine', archive') /\ events' = events
      BY <1>0, <2>1, <2>3, <3>1 DEF Sound
    <3> QED
      BY <1>0, <1>1, <1>2, <3>2, <3>3, WorkerStep
  <2> QED
    BY <1>10, <2>2, <2>3
<1> QED
  BY <1>6, <1>7, <1>8, <1>9, <1>10 DEF TakePrimaryAction

\* A job of the worker ends.
LEMMA JobEnds ==
  ASSUME IInv, FetchDone \/ Connected \/ DownloadDone \/ ExtractDone \/ LaunchDone
  PROVE  IInv'
<1> DEFINE fate == Fate(quit, commands)
<1>0. /\ ui \in Dialogs /\ events \in Seq(EventSet) /\ commands \in Seq(CommandSet) /\ quit \in BOOLEAN
      /\ engine \in Engines /\ Sound(engine, archive) /\ feed \in Releases \cup {None}
  BY TypeFields, SoundNow
<1>1. Story(ui, events, fate, engine)
  BY DEF IInv
<1>2. archive \in [Releases -> {"absent", "bad", "good"}] /\ (engine.state # "Idle" => engine.release \in Releases)
  BY <1>0 DEF Sound, Engines
<1>3. ASSUME NEW job, NEW next, NEW kinds, Ends(job, next, kinds)
      PROVE  /\ engine.job = job /\ engine' = next /\ Emit(kinds) /\ Worker
             /\ commands' \in Seq(CommandSet) /\ commands' = commands /\ Fate(quit, commands') = fate
  BY <1>0, <1>3 DEF Ends
<1> HIDE DEF fate
\* A job on the selected release that goes on.
<1>4. ASSUME NEW job \in {"connect", "download", "extract"}, NEW next \in Engines,
             NEW kind \in {"downloading", "extracting", "ready"}, Ends(job, next, <<Event(kind)>>),
             next.state \in {"Available", "Ready"}, next.release = engine.release,
             kind = "ready" => next.state = "Ready" /\ next.job = "none", Sound(next, archive')
      PROVE  IInv'
  <2> DEFINE e == Event(kind)
  <2>1. e \in EventSet /\ e.kind = kind
    BY EventTypes DEF Kinds
  <2>2. engine.state = "Available"
    BY <1>0, <1>3, <1>4 DEF Sound
  <2> HIDE DEF e
  <2>3. Story(ui, Append(events, e), fate, next)
    BY <1>0, <1>1, <1>4, <2>1, <2>2, EmitsProgress
  <2>4. events' = Append(events, e) /\ events' \in Seq(EventSet)
    <3>1. events' = events \o <<e>>
      BY <1>4 DEF Ends, Emit, e
    <3> QED
      BY <1>0, <2>1, <3>1, Emits
  <2> QED
    BY <1>3, <1>4, <2>3, <2>4, WorkerStep
<1>5. CASE FetchDone
  <2>1. CASE UNCHANGED archive /\ Ends("fetch", Rest, <<Event("not_found")>>)
    <3>1. /\ Worker /\ commands' \in Seq(CommandSet) /\ engine' = Rest /\ Emit(<<Event("not_found")>>)
          /\ archive' \in [Releases -> {"absent", "bad", "good"}]
      BY <1>2, <1>3, <2>1
    <3> QED
      BY <3>1, RestKeeps
  <2>2. CASE /\ UNCHANGED archive /\ feed # None
             /\ Ends("fetch", [state |-> "Available", release |-> feed, job |-> "none"], <<Available(feed)>>)
    <3> DEFINE next == [state |-> "Available", release |-> feed, job |-> "none"]
               e == Available(feed)
    <3>1. e \in EventSet /\ feed \in Releases
      BY <1>0, <2>2, EventTypes
    <3>2. next \in Engines /\ next.state = "Available" /\ next.release = feed /\ next.job = "none"
      BY <3>1 DEF Engines, Jobs
    <3> HIDE DEF next, e
    <3>3. Ends("fetch", next, <<e>>)
      BY <2>2 DEF next, e
    <3>4. events' = Append(events, e) /\ events' \in Seq(EventSet)
      <4>1. events' = events \o <<e>>
        BY <3>3 DEF Ends, Emit
      <4> QED
        BY <1>0, <3>1, <4>1, Emits
    <3>5. e = Available(next.release)
      BY <3>2 DEF e
    <3>6. Story(ui, Append(events, e), fate, next)
      BY <1>0, <3>1, <3>2, <3>5, EmitsAvailable, StartupStage
    <3>7. Sound(next, archive')
      BY <1>2, <2>2, <3>2 DEF Sound
    <3> QED
      BY <1>3, <3>3, <3>4, <3>6, <3>7, WorkerStep
  <2> QED
    BY <1>5, <2>1, <2>2, AbandonKeeps DEF FetchDone
<1>6. CASE Connected
  <2>1. CASE Ends("connect", [engine EXCEPT !.job = "download"], <<Event("downloading")>>) /\ UNCHANGED archive
    <3> DEFINE next == [engine EXCEPT !.job = "download"]
    <3>1. next \in Engines /\ next.state = engine.state /\ next.release = engine.release /\ next.job = "download"
      BY <1>0, NextJob DEF Jobs
    <3>2. engine.job = "connect"
      BY <2>1 DEF Ends
    <3> HIDE DEF next
    <3>3. next.state = "Available" /\ Sound(next, archive')
      BY <1>0, <2>1, <3>1, <3>2 DEF Sound
    <3>4. Ends("connect", next, <<Event("downloading")>>)
      BY <2>1 DEF next
    <3> QED
      BY <1>4, <3>1, <3>3, <3>4
  <2> QED
    BY <1>6, <2>1, AbandonKeeps DEF Connected
<1>7. CASE DownloadDone
  <2>1. CASE /\ Ends("download", [engine EXCEPT !.job = "extract"], <<Event("extracting")>>)
             /\ archive' = [archive EXCEPT ![engine.release] = "good"]
    <3> DEFINE next == [engine EXCEPT !.job = "extract"]
    <3>1. next \in Engines /\ next.state = engine.state /\ next.release = engine.release /\ next.job = "extract"
      BY <1>0, NextJob DEF Jobs
    <3>2. engine.job = "download" /\ engine.state = "Available"
      BY <1>0, <2>1 DEF Ends, Sound
    <3> HIDE DEF next
    <3>3. /\ archive' \in [Releases -> {"absent", "bad", "good"}] /\ archive'[engine.release] = "good"
      BY <1>2, <2>1, <3>2
    <3>4. Sound(next, archive')
      BY <1>0, <3>1, <3>2, <3>3 DEF Sound
    <3>5. Ends("download", next, <<Event("extracting")>>)
      BY <2>1 DEF next
    <3> QED
      BY <1>4, <3>1, <3>2, <3>4, <3>5
  <2>2. CASE /\ Ends("download", Rest, <<Event("error")>>)
             /\ archive' = [archive EXCEPT ![engine.release] = "bad"]
    <3>1. engine.state = "Available"
      BY <1>0, <2>2 DEF Ends, Sound
    <3>2. /\ Worker /\ commands' \in Seq(CommandSet) /\ engine' = Rest /\ Emit(<<Event("error")>>)
          /\ archive' \in [Releases -> {"absent", "bad", "good"}]
      BY <1>2, <1>3, <2>2, <3>1
    <3> QED
      BY <3>2, RestKeeps
  <2> QED
    BY <1>7, <2>1, <2>2, AbandonKeeps DEF DownloadDone
<1>8. CASE ExtractDone
  <2>1. CASE Ends("extract", [engine EXCEPT !.state = "Ready", !.job = "none"], <<Event("ready")>>) /\ UNCHANGED archive
    <3> DEFINE next == [engine EXCEPT !.state = "Ready", !.job = "none"]
    <3>1. next \in Engines /\ next.state = "Ready" /\ next.release = engine.release /\ next.job = "none"
      BY <1>0 DEF Engines, Jobs
    <3>2. engine.job = "extract" /\ archive' = archive
      BY <2>1 DEF Ends
    <3> HIDE DEF next
    <3>3. Sound(next, archive')
      BY <1>0, <3>1, <3>2 DEF Sound
    <3>4. Ends("extract", next, <<Event("ready")>>)
      BY <2>1 DEF next
    <3> QED
      BY <1>4, <3>1, <3>3, <3>4
  <2> QED
    BY <1>8, <2>1, AbandonKeeps DEF ExtractDone
<1>9. CASE LaunchDone
  <2>0. archive' = archive
    BY <1>9 DEF LaunchDone
  <2>1. CASE Ends("launch", [engine EXCEPT !.job = "none"], <<Event("error")>>)
    <3> DEFINE next == [engine EXCEPT !.job = "none"]
               e == Event("error")
    <3>1. next \in Engines /\ next.state = engine.state /\ next.release = engine.release /\ next.job = "none"
      BY <1>0, NextJob DEF Jobs
    <3>2. engine.job = "launch" /\ engine.state = "Ready" /\ e \in EventSet /\ e.kind = "error"
      BY <1>0, <2>1, EventTypes DEF Ends, Sound, Kinds
    <3> HIDE DEF next, e
    <3>3. Sound(next, archive')
      BY <1>0, <2>0, <3>1, <3>2 DEF Sound
    <3>4. Ends("launch", next, <<e>>)
      BY <2>1 DEF next, e
    <3>5. events' = Append(events, e) /\ events' \in Seq(EventSet)
      <4>1. events' = events \o <<e>>
        BY <3>4 DEF Ends, Emit
      <4> QED
        BY <1>0, <3>2, <4>1, Emits
    <3>6. Story(ui, Append(events, e), fate, next)
      BY <1>0, <1>1, <3>1, <3>2, EmitsLaunched
    <3> QED
      BY <1>3, <3>3, <3>4, <3>5, <3>6, WorkerStep
  <2>2. CASE Ends("launch", [engine EXCEPT !.state = "Installing", !.job = "none"],
                  <<Event("installing"), Event("quit_requested")>>)
    <3> DEFINE next == [engine EXCEPT !.state = "Installing", !.job = "none"]
               e == Event("installing")
               q == Event("quit_requested")
    <3>1. next \in Engines /\ next.state = "Installing" /\ next.release = engine.release /\ next.job = "none"
      BY <1>0 DEF Engines, Jobs
    <3>2. /\ engine.job = "launch" /\ engine.state = "Ready" /\ e \in EventSet /\ e.kind = "installing"
          /\ q \in EventSet /\ q.kind = "quit_requested"
      BY <1>0, <2>2, EventTypes DEF Ends, Sound, Kinds
    <3> HIDE DEF next, e, q
    <3>3. Sound(next, archive')
      BY <1>0, <2>0, <3>1, <3>2 DEF Sound
    <3>4. Ends("launch", next, <<e, q>>)
      BY <2>2 DEF next, e, q
    <3>5. /\ events' = Append(Append(events, e), q) /\ events' \in Seq(EventSet)
          /\ Append(events, e) \in Seq(EventSet)
      <4>1. events' = events \o <<e, q>>
        BY <3>4 DEF Ends, Emit
      <4> QED
        BY <1>0, <3>2, <4>1, Emits
    <3>6. Story(ui, Append(events, e), fate, next)
      BY <1>0, <1>1, <3>1, <3>2, EmitsLaunched
    <3>7. Story(ui, Append(Append(events, e), q), fate, next)
      BY <3>1, <3>2, <3>5, <3>6, EmitsOther
    <3> QED
      BY <1>3, <3>3, <3>4, <3>5, <3>7, WorkerStep
  <2> QED
    BY <1>9, <2>1, <2>2 DEF LaunchDone
<1> QED
  BY <1>5, <1>6, <1>7, <1>8, <1>9

-----------------------------------------------------------------------------
(* The theorems.                                                           *)

\* The invariant holds at the start.
LEMMA InitInv == Init => IInv
<1> SUFFICES ASSUME Init PROVE IInv
  OBVIOUS
<1>1. /\ ui \in Dialogs /\ ui.stage = "Idle" /\ ui.startup = TRUE /\ ui.deadline = FALSE
      /\ engine \in Engines /\ engine.state = "Idle" /\ engine.release = None /\ engine.job = "none"
      /\ events = <<>> /\ commands = <<>>
  BY DEF Init, Dialogs, Stages, Engines, Jobs
<1>2. TypeOK
  <2>1. /\ cancelled = FALSE /\ quit = FALSE /\ clicks = 0 /\ 0 \in 0 .. MaxClicks
        /\ archive \in [Releases -> {"absent", "bad", "good"}] /\ feed \in Releases \cup {None}
    BY ClicksAssumption DEF Init
  <2>2. (engine.state # "Idle") <=> (engine.release # None)
    BY <1>1
  <2>3. commands \in Seq(CommandSet) /\ events \in Seq(EventSet)
    BY <1>1
  <2>4. cancelled \in BOOLEAN /\ quit \in BOOLEAN /\ clicks \in 0 .. MaxClicks
    BY <2>1
  <2> QED
    BY <1>1, <2>1, <2>2, <2>3, <2>4, Zenon DEF TypeOK, Engines, CommandSet, EventSet
<1>3. EngineShape /\ ReadyIsVerified
  BY <1>1 DEF EngineShape, ReadyIsVerified
<1> DEFINE fate == Fate(quit, commands)
<1> HIDE DEF fate
<1>4. OnScreen(ui, events, fate, engine) /\ StartupFirst(ui, events, engine)
  BY <1>1 DEF OnScreen, StartupFirst
<1>5. ~Offering(ui, events, engine)
  BY <1>1 DEF Offering
<1>6. OffersBacked(ui, events, fate, engine)
  <2>1. Len(events) = 0
    BY <1>1
  <2> QED
    BY <1>1, <2>1 DEF OffersBacked, Says
<1>7. Story(ui, events, fate, engine)
  BY <1>4, <1>5, <1>6 DEF Story, HeadlineComes, HeadlineThere
<1> QED
  BY <1>2, <1>3, <1>7 DEF IInv, fate

\* Every step keeps it.
LEMMA NextInv == IInv /\ [Next]_vars => IInv'
<1> SUFFICES ASSUME IInv, [Next]_vars PROVE IInv'
  OBVIOUS
<1>1. CASE Interface
  BY <1>1, PollKeeps, PressKeeps DEF Interface
<1>2. CASE Engine
  BY <1>2, TakeKeeps, TakePrimaryActionKeeps, JobEnds DEF Engine
<1>3. CASE Publish
  BY <1>3, PublishKeeps
<1>4. CASE UNCHANGED vars
  <2>1. UNCHANGED <<ui, commands, events, cancelled, engine, archive, feed, quit, clicks>>
    BY <1>4 DEF vars
  <2> QED
    BY <2>1, SMTT(30)
       DEF IInv, TypeOK, EngineShape, ReadyIsVerified, Story, OnScreen, StartupFirst, HeadlineComes,
           HeadlineThere, OffersBacked, Offering, Says, Withdrawn, Backed, NoneAfter, Fate
<1> QED
  BY <1>1, <1>2, <1>3, <1>4 DEF Next

\* It holds in every state.
LEMMA Inductive == Spec => []IInv
  BY InitInv, NextInv, PTL DEF Spec

\* The dialog, the queues and the worker keep their types, for any releases and
\* any number of presses.
THEOREM TypeCorrect == Spec => []TypeOK
<1>1. IInv => TypeOK
  BY DEF IInv
<1> QED
  BY <1>1, Inductive, PTL

\* What is ready to install was verified, and nothing has replaced it since.
THEOREM VerifiedIsReady == Spec => []ReadyIsVerified
<1>1. IInv => ReadyIsVerified
  BY DEF IInv
<1> QED
  BY <1>1, Inductive, PTL

\* With nothing under way the dialog offers what the worker would do, for the
\* release in the headline, whatever the order of presses, events and timeouts.
THEOREM OffersAreReal == Spec => []OfferIsReal
<1>1. IInv => OfferIsReal
  <2> SUFFICES ASSUME IInv, Quiet, ui.visible, ~ui.closing, ui.stage \in {"Available", "Ready"}
               PROVE  engine.state = ui.stage /\ engine.release = ui.shown
    BY DEF OfferIsReal
  <2>1. /\ commands = <<>> /\ events = <<>> /\ ~quit /\ DOMAIN events = {} /\ Len(events) = 0
        /\ DOMAIN commands = {}
    BY DEF Quiet
  <2>2. Fate(quit, commands) = "stays" /\ 0 \in 0 .. Len(events) /\ \A K : NoneAfter(events, 0, K)
    BY <2>1 DEF Fate, NoneAfter
  <2>3. Says(ui, events, 0, ui.stage)
    BY <2>2 DEF Says
  <2>4. ~Withdrawn(ui, events, 0)
    BY <2>1 DEF Withdrawn
  <2>5. Backed(engine, ui.stage)
    BY <2>2, <2>3, <2>4 DEF IInv, Story, OffersBacked
  <2>6. engine.state = ui.stage /\ Offering(ui, events, engine)
    BY <2>2, <2>3, <2>5 DEF Backed, Offering
  <2> QED
    BY <2>2, <2>6 DEF IInv, Story, HeadlineThere
<1> QED
  BY <1>1, Inductive, PTL

\* With nothing under way and the dialog gone the worker is at rest: no update
\* stays selected or prepared behind the user's back.
THEOREM HiddenIsIdle == Spec => []HiddenMeansIdle
<1>1. IInv => HiddenMeansIdle
  <2> SUFFICES ASSUME IInv, Quiet, ~ui.visible, engine.state # "Idle"
               PROVE  FALSE
    BY DEF HiddenMeansIdle
  <2>1. DOMAIN events = {} /\ DOMAIN commands = {} /\ ~quit
    BY DEF Quiet
  <2>2. Fate(quit, commands) = "stays"
    BY <2>1 DEF Fate
  <2> QED
    BY <2>1, <2>2 DEF IInv, Story, OnScreen
<1> QED
  BY <1>1, Inductive, PTL
=============================================================================
