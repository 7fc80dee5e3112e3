---------------------------- MODULE ScreensProofs ----------------------------
(***************************************************************************)
(* A theorem about Screens, for any communities and any number of writes:  *)
(* the query cache of a page at rest shows what was stored, unless what it *)
(* shows came late. What it needs of the pages, ChangesAreNamed, says      *)
(* nothing of behaviours; TLC evaluates it over all of them.               *)
(***************************************************************************)
EXTENDS Screens, TLAPS

-----------------------------------------------------------------------------
(* The inductive invariant *)

Version == nothing..MaxWrites
Entry   == {e \in [data : Version, stale : BOOLEAN, flight : {"no", "asked", "served"},
                   brings : Version, late : BOOLEAN] :
               e.flight = "served" => e.brings # nothing}
Sub     == [phase : {"idle", "asking", "sent", "stored"}, zev : Slots]

CacheTyped ==
    /\ pair \in Pairs /\ zev \in Communities /\ mounted \in BOOLEAN /\ lost \in BOOLEAN
    /\ stored \in [Slots -> 0..MaxWrites] /\ cache \in [Slots -> Entry] /\ sub \in Sub

\* a submission is about a community whose entry was loaded, and has room to be stored
SubOwn ==
    sub.phase # "idle" =>
        /\ sub.zev \in Communities /\ cache[slot(sub.zev)].data # nothing
        /\ sub.phase \in {"asking", "sent"} => stored[slot(sub.zev)] < MaxWrites

\* the page shows something or waits for it
Loaded(e) == e.data # nothing \/ e.flight # "no"

\* what an entry shows, would show unasked or is about to get is what is
\* stored, unless it is late
InStep(e, n, inView, keep) ==
    \/ e.late
    \/ /\ e.flight = "served" => e.brings = n
       /\ e.flight = "no" /\ e.data # nothing /\ (inView \/ (~e.stale /\ keep)) => e.data = n

\* the answer to a stored write is awaited
Pending(s) == sub.phase = "stored" /\ slot(sub.zev) = s
InView(s)  == mounted /\ s = slot(zev)

EntriesInStep ==
    \A k \in Communities :
        Pending(slot(k)) \/ InStep(cache[slot(k)], stored[slot(k)], InView(slot(k)), q.keep)

CacheInv ==
    /\ CacheTyped /\ SubOwn /\ (mounted => Loaded(here))
    /\ excepted \/ lost \/ EntriesInStep

-----------------------------------------------------------------------------
(* Entries *)

LEMMA VersionFacts ==
    /\ nothing \in Version /\ \A n \in 0..MaxWrites : n \in Version /\ n # nothing
    /\ \A n \in Version : n # nothing => n \in 0..MaxWrites
  BY MaxWritesAssumption DEF nothing, Version

LEMMA EmptyFacts ==
    Empty \in Entry /\ Empty.data = nothing /\ Empty.flight = "no" /\ ~Empty.stale
<1>1. Empty \in Entry
  BY VersionFacts DEF Empty, Entry
<1>. QED  BY <1>1 DEF Empty

LEMMA AskFacts ==
    ASSUME NEW e \in Entry
    PROVE  /\ ask(e) \in Entry /\ ask(e).flight # "no" /\ ask(e).data = e.data
           /\ e.flight # "no" => ask(e) = e
           /\ e.flight = "no" => ask(e).flight = "asked"
           /\ \A n, inView, keep : InStep(e, n, inView, keep) => InStep(ask(e), n, inView, keep)
<1>1. CASE e.flight = "no"
  <2>1. /\ ask(e) = [e EXCEPT !.flight = "asked"]
    BY <1>1 DEF ask
  <2>2. ask(e) \in Entry /\ ask(e).flight = "asked" /\ ask(e).data = e.data
    BY <2>1 DEF Entry
  <2>. QED  BY <1>1, <2>2 DEF InStep
<1>2. CASE e.flight # "no"
  <2>1. ask(e) = e
    BY <1>2 DEF ask
  <2>. QED  BY <1>2, <2>1
<1>. QED  BY <1>1, <1>2

\* An entry that comes into view is asked for unless it is in step.
LEMMA ShowFacts ==
    ASSUME NEW e \in Entry
    PROVE  /\ show(e) \in Entry /\ show(e).data = e.data /\ Loaded(show(e))
           /\ \A n, inView : InStep(e, n, inView, q.keep) => InStep(show(e), n, TRUE, q.keep)
<1>1. CASE e.data = nothing \/ e.stale \/ ~q.keep
  <2>1. show(e) = ask(e)
    BY <1>1 DEF show
  <2>2. /\ ask(e) \in Entry /\ ask(e).flight # "no" /\ ask(e).data = e.data
        /\ \A n, inView, keep : InStep(e, n, inView, keep) => InStep(ask(e), n, inView, keep)
    BY AskFacts
  <2>3. ASSUME NEW n, NEW inView, InStep(e, n, inView, q.keep) PROVE InStep(ask(e), n, TRUE, q.keep)
    BY <2>2, <2>3 DEF InStep
  <2>. QED  BY <2>1, <2>2, <2>3 DEF Loaded
<1>2. CASE e.data # nothing /\ ~e.stale /\ q.keep
  <2>1. show(e) = e
    BY <1>2 DEF show
  <2>. QED  BY <1>2, <2>1 DEF Loaded, InStep
<1>. QED  BY <1>1, <1>2

\* An invalidation keeps an entry in step, and brings one that was loaded in
\* step with whatever is stored, unless a read served before is under way out
\* of view.
LEMMA InvalidateFacts ==
    ASSUME NEW e \in Entry, NEW inView \in BOOLEAN
    PROVE  LET f == invalidate(e, inView)
           IN /\ f \in Entry /\ f.data = e.data /\ (inView => Loaded(f))
              /\ ~inView => f.flight = e.flight
              /\ \A n, keep : InStep(e, n, inView, keep) => InStep(f, n, inView, keep)
              /\ \A n, keep : /\ e.data # nothing
                              /\ inView \/ e.late \/ (e.flight = "served" => e.brings = n)
                              => InStep(f, n, inView, keep)
<1>. DEFINE f == invalidate(e, inView)
<1>1. CASE ~inView
  <2>1. f = [e EXCEPT !.stale = TRUE]
    BY <1>1 DEF invalidate
  <2>2. f \in Entry /\ f.data = e.data /\ f.flight = e.flight /\ f.brings = e.brings
    BY <2>1 DEF Entry
  <2>3. f.stale
    BY <2>1 DEF Entry
  <2>4. f.late <=> e.late
    BY <2>1 DEF Entry
  <2>. HIDE DEF f
  <2>. QED  BY <1>1, <2>2, <2>3, <2>4 DEF InStep, f
<1>2. CASE inView /\ e.data = nothing
  <2>1. f = [ask(e) EXCEPT !.stale = TRUE]
    BY <1>2 DEF invalidate
  <2>2. ask(e) \in Entry /\ ask(e).flight # "no" /\ ask(e).data = e.data
        /\ \A n, keep : InStep(e, n, inView, keep) => InStep(ask(e), n, inView, keep)
    BY AskFacts
  <2>3. f \in Entry /\ f.data = e.data /\ f.flight = ask(e).flight /\ f.brings = ask(e).brings
    BY <2>1, <2>2 DEF Entry
  <2>4. f.late <=> ask(e).late
    BY <2>1, <2>2 DEF Entry
  <2>. HIDE DEF f
  <2>. QED  BY <1>2, <2>2, <2>3, <2>4 DEF InStep, Loaded, f
<1>3. CASE inView /\ e.data # nothing
  <2>1. f = [e EXCEPT !.stale = TRUE, !.flight = "asked", !.brings = nothing]
    BY <1>3 DEF invalidate
  <2>2. f \in Entry /\ f.data = e.data /\ f.flight = "asked"
    BY <2>1, VersionFacts DEF Entry
  <2>. HIDE DEF f
  <2>. QED  BY <1>3, <2>2 DEF InStep, Loaded, f
<1>. QED  BY <1>1, <1>2, <1>3

LEMMA SetQueryDataFacts ==
    ASSUME NEW e \in Entry, NEW n \in 0..MaxWrites
    PROVE  LET f == setQueryData(e, n)
           IN /\ f \in Entry /\ f.data = n /\ f.data # nothing
              /\ f.flight = "no" \/ (f.flight = e.flight /\ f.brings = e.brings /\ (f.late <=> e.late))
              /\ o.clean => f.flight = "no"
<1>. DEFINE f == setQueryData(e, n)
<1>0. n \in Version /\ n # nothing /\ nothing \in Version
  BY VersionFacts
<1>1. CASE o.clean
  <2>1. PICK g : g = [e EXCEPT !.flight = "no", !.brings = nothing, !.late = FALSE]
    OBVIOUS
  <2>2. g \in Entry /\ g.flight = "no"
    BY <1>0, <2>1 DEF Entry
  <2>3. f = [g EXCEPT !.data = n, !.stale = FALSE]
    BY <1>1, <2>1 DEF setQueryData
  <2>4. f \in Entry /\ f.data = n /\ f.flight = "no"
    BY <1>0, <2>2, <2>3 DEF Entry
  <2>. QED  BY <1>0, <1>1, <2>4
<1>2. CASE ~o.clean
  <2>1. f = [e EXCEPT !.data = n, !.stale = FALSE]
    BY <1>2 DEF setQueryData
  <2>2. f \in Entry /\ f.data = n /\ f.flight = e.flight /\ f.brings = e.brings
    BY <1>0, <2>1 DEF Entry
  <2>3. f.late <=> e.late
    BY <2>1 DEF Entry
  <2>. HIDE DEF f
  <2>. QED  BY <1>0, <1>2, <2>2, <2>3 DEF f
<1>. QED  BY <1>1, <1>2

-----------------------------------------------------------------------------
(* The steps. A behaviour is about one pair. *)

LEMMA SlotFacts ==
    ASSUME CacheTyped
    PROVE  /\ \A k \in Communities : slot(k) \in Slots
           /\ slot(zev) \in Slots /\ zev \in Communities
  BY DEF CacheTyped, slot, Slots

LEMMA SamePair ==
    ASSUME pair' = pair
    PROVE  /\ q' = q /\ o' = o /\ (excepted' <=> excepted)
           /\ \A z : slot(z)' = slot(z)
           /\ slot(zev)' = slot(zev') /\ here' = cache'[slot(zev')]
           /\ slot(sub.zev)' = slot(sub'.zev)
<1>1. q' = q /\ o' = o /\ (excepted' <=> excepted)
  BY DEF q, o, excepted, isExcepted, overwrites
<1>2. scoped' = scoped
  BY <1>1 DEF scoped
<1>. QED  BY <1>1, <1>2 DEF slot, here

\* What is to be shown of a step.
LEMMA InvariantAfter ==
    ASSUME pair' = pair, CacheTyped',
           sub'.phase # "idle" =>
               /\ sub'.zev \in Communities /\ cache'[slot(sub'.zev)].data # nothing
               /\ sub'.phase \in {"asking", "sent"} => stored'[slot(sub'.zev)] < MaxWrites,
           mounted' => Loaded(cache'[slot(zev')]),
           \/ excepted \/ lost'
           \/ \A k \in Communities :
                 \/ sub'.phase = "stored" /\ slot(sub'.zev) = slot(k)
                 \/ InStep(cache'[slot(k)], stored'[slot(k)], mounted' /\ slot(k) = slot(zev'), q.keep)
    PROVE  CacheInv'
<1>1. /\ q' = q /\ (excepted' <=> excepted)
      /\ \A z : slot(z)' = slot(z)
      /\ slot(zev)' = slot(zev') /\ here' = cache'[slot(zev')]
      /\ slot(sub.zev)' = slot(sub'.zev)
  BY SamePair
<1>2. SubOwn'
  BY <1>1 DEF SubOwn
<1>3. (mounted => Loaded(here))'
  BY <1>1 DEF Loaded
<1>4. ASSUME \A k \in Communities :
                \/ sub'.phase = "stored" /\ slot(sub'.zev) = slot(k)
                \/ InStep(cache'[slot(k)], stored'[slot(k)], mounted' /\ slot(k) = slot(zev'), q.keep)
      PROVE  EntriesInStep'
  <2>. SUFFICES ASSUME NEW k \in Communities
                PROVE  \/ Pending(slot(k))'
                       \/ InStep(cache[slot(k)], stored[slot(k)], InView(slot(k)), q.keep)'
    BY DEF EntriesInStep
  <2>1. slot(k)' = slot(k)
    BY <1>1
  <2>2. CASE sub'.phase = "stored" /\ slot(sub'.zev) = slot(k)
    BY <1>1, <2>1, <2>2 DEF Pending
  <2>3. CASE InStep(cache'[slot(k)], stored'[slot(k)], mounted' /\ slot(k) = slot(zev'), q.keep)
    BY <1>1, <2>1, <2>3 DEF InStep, InView
  <2>. QED  BY <1>4, <2>2, <2>3
<1>. QED  BY <1>1, <1>2, <1>3, <1>4 DEF CacheInv

\* What holds of the entries before a step.
LEMMA EntryBefore ==
    ASSUME CacheInv, ~excepted, ~lost, NEW k \in Communities
    PROVE  Pending(slot(k)) \/ InStep(cache[slot(k)], stored[slot(k)], InView(slot(k)), q.keep)
  BY DEF CacheInv, EntriesInStep

LEMMA CacheUsers ==
    ASSUME CacheInv, Click \/ (\E yes \in BOOLEAN : Confirm(yes)) \/ Leave PROVE CacheInv'
<1>1. /\ pair' = pair /\ zev' = zev /\ stored' = stored /\ cache' = cache
  BY DEF Click, Confirm, Leave
<1>2. lost' = lost
  BY DEF Click, Confirm, Leave
<1>3. mounted' = mounted \/ mounted' = FALSE
  BY DEF Click, Confirm, Leave
<1>4. CacheTyped /\ SubOwn
  BY DEF CacheInv
<1>5. zev \in Communities /\ zev \in Slots /\ sub \in Sub /\ Idle \in Sub /\ Idle.phase = "idle"
  BY <1>4 DEF CacheTyped, Slots, Sub, Idle
<1>6. /\ sub' \in Sub
      /\ sub'.phase = "stored" <=> sub.phase = "stored"
      /\ sub'.phase = "stored" => sub' = sub
      /\ sub'.phase # "idle" =>
               /\ sub'.zev \in Communities /\ cache[slot(sub'.zev)].data # nothing
               /\ sub'.phase \in {"asking", "sent"} => stored[slot(sub'.zev)] < MaxWrites
  <2>1. CASE Click
    <3>1. /\ sub = Idle /\ here.data # nothing /\ stored[slot(zev)] < MaxWrites
          /\ sub' = [phase |-> IF o.confirm THEN "asking" ELSE "sent", zev |-> zev]
      BY <2>1 DEF Click
    <3>2. sub' \in Sub /\ sub'.phase \in {"asking", "sent"} /\ sub'.zev = zev
      BY <1>5, <3>1 DEF Sub
    <3>. QED  BY <1>5, <3>1, <3>2 DEF here
  <2>2. CASE \E yes \in BOOLEAN : Confirm(yes)
    <3>1. sub.phase = "asking" /\ (sub' = [sub EXCEPT !.phase = "sent"] \/ sub' = Idle)
      BY <2>2 DEF Confirm
    <3>2. CASE sub' = [sub EXCEPT !.phase = "sent"]
      <4>1. sub' \in Sub /\ sub'.phase = "sent" /\ sub'.zev = sub.zev
        BY <1>5, <3>2 DEF Sub
      <4>. QED  BY <1>4, <3>1, <4>1 DEF SubOwn
    <3>. QED  BY <1>5, <3>1, <3>2
  <2>3. CASE Leave
    <3>1. (sub.phase = "asking" /\ sub' = Idle) \/ sub' = sub
      BY <2>3 DEF Leave
    <3>. QED  BY <1>4, <1>5, <3>1 DEF SubOwn
  <2>. QED  BY <2>1, <2>2, <2>3
<1>7. CacheTyped'
  <2>1. mounted' \in BOOLEAN
    BY <1>3, <1>4 DEF CacheTyped
  <2>2. lost' \in BOOLEAN
    BY <1>2, <1>4 DEF CacheTyped
  <2>3. /\ pair' \in Pairs /\ zev' \in Communities
        /\ stored' \in [Slots -> 0..MaxWrites] /\ cache' \in [Slots -> Entry]
    BY <1>1, <1>4 DEF CacheTyped
  <2>. QED  BY <1>6, <2>1, <2>2, <2>3, Zenon DEF CacheTyped
<1>8. mounted' => mounted
  BY <1>3
<1>9. mounted' => Loaded(cache'[slot(zev')])
  BY <1>1, <1>8 DEF CacheInv, here
<1>10. ASSUME ~excepted, ~lost', NEW k \in Communities
       PROVE  \/ sub'.phase = "stored" /\ slot(sub'.zev) = slot(k)
              \/ InStep(cache'[slot(k)], stored'[slot(k)], mounted' /\ slot(k) = slot(zev'), q.keep)
  <2>1. Pending(slot(k)) \/ InStep(cache[slot(k)], stored[slot(k)], InView(slot(k)), q.keep)
    BY <1>2, <1>10, EntryBefore
  <2>2. CASE Pending(slot(k))
    BY <1>6, <2>2 DEF Pending
  <2>3. CASE InStep(cache[slot(k)], stored[slot(k)], InView(slot(k)), q.keep)
    BY <1>1, <1>8, <2>3 DEF InStep, InView
  <2>. QED  BY <2>1, <2>2, <2>3
<1>. QED  BY <1>1, <1>6, <1>7, <1>9, <1>10, InvariantAfter

LEMMA CacheStores ==
    ASSUME CacheInv, Store PROVE CacheInv'
<1>1. /\ pair' = pair /\ zev' = zev /\ cache' = cache /\ sub.phase = "sent"
      /\ stored' = [stored EXCEPT ![slot(sub.zev)] = @ + 1]
      /\ sub' = [sub EXCEPT !.phase = "stored"]
  BY DEF Store
<1>2. mounted' = mounted /\ lost' = lost
  BY DEF Store
<1>3. CacheTyped /\ SubOwn
  BY DEF CacheInv
<1>4. sub' \in Sub /\ sub'.phase = "stored" /\ sub'.zev = sub.zev
  BY <1>1, <1>3 DEF CacheTyped, Sub
<1>5. /\ sub.zev \in Communities /\ cache[slot(sub.zev)].data # nothing
      /\ stored[slot(sub.zev)] < MaxWrites
  BY <1>1, <1>3 DEF SubOwn
<1>6. slot(sub.zev) \in Slots /\ stored \in [Slots -> 0..MaxWrites]
  BY <1>3, <1>5, SlotFacts DEF CacheTyped
<1>7. stored' \in [Slots -> 0..MaxWrites]
  <2>1. stored[slot(sub.zev)] + 1 \in 0..MaxWrites
    BY <1>5, <1>6, MaxWritesAssumption
  <2>. QED  BY <1>1, <1>6, <2>1
<1>8. CacheTyped'
  BY <1>1, <1>2, <1>3, <1>4, <1>7 DEF CacheTyped
<1>9. mounted' => Loaded(cache'[slot(zev')])
  BY <1>1, <1>2 DEF CacheInv, here
<1>10. ASSUME ~excepted, ~lost', NEW k \in Communities
       PROVE  \/ sub'.phase = "stored" /\ slot(sub'.zev) = slot(k)
              \/ InStep(cache'[slot(k)], stored'[slot(k)], mounted' /\ slot(k) = slot(zev'), q.keep)
  <2>1. Pending(slot(k)) \/ InStep(cache[slot(k)], stored[slot(k)], InView(slot(k)), q.keep)
    BY <1>2, <1>10, EntryBefore
  <2>2. CASE slot(k) = slot(sub.zev)
    BY <1>4, <2>2
  <2>3. CASE slot(k) # slot(sub.zev)
    <3>1. slot(k) \in Slots
      BY <1>3, SlotFacts
    <3>2. stored'[slot(k)] = stored[slot(k)]
      BY <1>1, <1>6, <2>3, <3>1
    <3>3. InStep(cache[slot(k)], stored[slot(k)], mounted /\ slot(k) = slot(zev), q.keep)
      BY <1>1, <2>1 DEF Pending, InView
    <3>. QED  BY <1>1, <1>2, <3>2, <3>3
  <2>. QED  BY <2>2, <2>3
<1>. QED  BY <1>1, <1>4, <1>5, <1>8, <1>9, <1>10, InvariantAfter

\* A read that is served takes what is stored, and what it brings is shown.
LEMMA CacheReads ==
    ASSUME CacheInv, \E z \in Slots : Serve(z) \/ Arrive(z) PROVE CacheInv'
<1>1. PICK z \in Slots : Serve(z) \/ Arrive(z)
  OBVIOUS
<1>2. /\ pair' = pair /\ zev' = zev /\ stored' = stored /\ sub' = sub
  BY <1>1 DEF Serve, Arrive
<1>3. mounted' = mounted /\ lost' = lost
  BY <1>1 DEF Serve, Arrive
<1>4. CacheTyped /\ SubOwn
  BY DEF CacheInv
<1>5. cache \in [Slots -> Entry] /\ stored \in [Slots -> 0..MaxWrites]
  BY <1>4 DEF CacheTyped
<1>6. PICK new \in Entry : /\ cache' = [cache EXCEPT ![z] = new] /\ Loaded(new)
                           /\ cache[z].data # nothing => new.data # nothing
                           /\ \A keep, inView : InStep(cache[z], stored[z], inView, keep) =>
                                                InStep(new, stored[z], inView, keep)
  <2>0. cache[z] \in Entry /\ stored[z] \in Version /\ stored[z] # nothing
    BY <1>5, VersionFacts
  <2>1. CASE Serve(z)
    <3>1. PICK new : new = [cache[z] EXCEPT !.flight = "served", !.brings = stored[z], !.late = FALSE]
      OBVIOUS
    <3>2. cache' = [cache EXCEPT ![z] = new]
      BY <1>5, <2>1, <3>1 DEF Serve
    <3>3. /\ new \in Entry /\ new.flight = "served" /\ new.brings = stored[z]
          /\ new.data = cache[z].data
      BY <2>0, <3>1 DEF Entry
    <3>. QED  BY <3>2, <3>3 DEF Loaded, InStep
  <2>2. CASE Arrive(z)
    <3>1. PICK new : new = [Empty EXCEPT !.data = cache[z].brings, !.late = cache[z].late]
      OBVIOUS
    <3>2. cache' = [cache EXCEPT ![z] = new] /\ cache[z].flight = "served"
      BY <2>2, <3>1 DEF Arrive
    <3>3. cache[z].brings \in Version /\ cache[z].brings # nothing
      BY <2>0, <3>2 DEF Entry
    <3>4. new \in Entry /\ new.flight = "no" /\ new.data = cache[z].brings
      BY <2>0, <3>1, <3>3, EmptyFacts DEF Entry
    <3>5. new.late <=> cache[z].late
      BY <3>1, EmptyFacts DEF Entry
    <3>. QED  BY <3>2, <3>3, <3>4, <3>5 DEF Loaded, InStep
  <2>. QED  BY <1>1, <2>1, <2>2
<1>7. CacheTyped'
  <2>1. cache' \in [Slots -> Entry]
    BY <1>5, <1>6
  <2>. QED  BY <1>2, <1>3, <1>4, <2>1 DEF CacheTyped
<1>8. \A s \in Slots : cache'[s] = IF s = z THEN new ELSE cache[s]
  BY <1>5, <1>6
<1>9. sub'.phase # "idle" =>
         /\ sub'.zev \in Communities /\ cache'[slot(sub'.zev)].data # nothing
         /\ sub'.phase \in {"asking", "sent"} => stored'[slot(sub'.zev)] < MaxWrites
  BY <1>2, <1>4, <1>6, <1>8, SlotFacts DEF SubOwn
<1>10. mounted' => Loaded(cache'[slot(zev')])
  <2>1. slot(zev) \in Slots
    BY <1>4, SlotFacts
  <2>. QED  BY <1>2, <1>3, <1>6, <1>8, <2>1 DEF CacheInv, here
<1>11. ASSUME ~excepted, ~lost', NEW k \in Communities
       PROVE  \/ sub'.phase = "stored" /\ slot(sub'.zev) = slot(k)
              \/ InStep(cache'[slot(k)], stored'[slot(k)], mounted' /\ slot(k) = slot(zev'), q.keep)
  <2>1. Pending(slot(k)) \/ InStep(cache[slot(k)], stored[slot(k)], InView(slot(k)), q.keep)
    BY <1>3, <1>11, EntryBefore
  <2>2. CASE Pending(slot(k))
    BY <1>2, <2>2 DEF Pending
  <2>3. CASE InStep(cache[slot(k)], stored[slot(k)], InView(slot(k)), q.keep)
    <3>1. slot(k) \in Slots
      BY <1>4, SlotFacts
    <3>2. InStep(cache'[slot(k)], stored[slot(k)], InView(slot(k)), q.keep)
      BY <1>6, <1>8, <2>3, <3>1
    <3>. QED  BY <1>2, <1>3, <3>2 DEF InView
  <2>. QED  BY <2>1, <2>2, <2>3
<1>. QED  BY <1>2, <1>7, <1>9, <1>10, <1>11, InvariantAfter

\* What comes into view, and what polls, is asked for where it may be behind.
LEMMA CacheViews ==
    ASSUME CacheInv, Poll \/ Return \/ \E z \in Communities : setSelectedZevId(z) PROVE CacheInv'
<1>1. pair' = pair /\ stored' = stored /\ sub' = sub /\ zev' \in Communities
  BY DEF Poll, Return, setSelectedZevId, CacheInv, CacheTyped
<1>2. lost' = lost
  BY DEF Poll, Return, setSelectedZevId
<1>3. mounted'
  BY DEF Poll, Return, setSelectedZevId
<1>4. mounted' \in BOOLEAN
  BY DEF Poll, Return, setSelectedZevId, CacheInv, CacheTyped
<1>5. CacheTyped /\ SubOwn
  BY DEF CacheInv
<1>6. cache \in [Slots -> Entry] /\ slot(zev') \in Slots
  BY <1>1, <1>5, SlotFacts DEF CacheTyped
<1>7. cache[slot(zev')] \in Entry
  BY <1>6
<1>8. PICK new \in Entry :
        /\ cache' = [cache EXCEPT ![slot(zev')] = new] /\ Loaded(new)
        /\ new.data = cache[slot(zev')].data
        /\ \A n, inView : InStep(cache[slot(zev')], n, inView, q.keep) => InStep(new, n, inView, q.keep)
        /\ (mounted /\ zev' = zev) \/ \A n, inView : InStep(cache[slot(zev')], n, inView, q.keep) =>
                                                   InStep(new, n, TRUE, q.keep)
  <2>1. CASE Poll
    <3>1. cache' = [cache EXCEPT ![slot(zev')] = ask(cache[slot(zev')])] /\ mounted /\ zev' = zev
      BY <2>1, <1>6 DEF Poll
    <3>2. /\ ask(cache[slot(zev')]) \in Entry /\ ask(cache[slot(zev')]).flight # "no"
          /\ ask(cache[slot(zev')]).data = cache[slot(zev')].data
          /\ \A n, inView : InStep(cache[slot(zev')], n, inView, q.keep) =>
                            InStep(ask(cache[slot(zev')]), n, inView, q.keep)
      BY <1>7, AskFacts
    <3>. QED  BY <3>1, <3>2 DEF Loaded
  <2>2. CASE Return \/ \E z \in Communities : setSelectedZevId(z)
    <3>1. cache' = [cache EXCEPT ![slot(zev')] = show(cache[slot(zev')])]
      BY <1>6, <2>2 DEF Return, setSelectedZevId
    <3>2. PICK new : new = show(cache[slot(zev')])
      OBVIOUS
    <3>3. /\ new \in Entry /\ Loaded(new)
          /\ new.data = cache[slot(zev')].data
          /\ \A n, inView : InStep(cache[slot(zev')], n, inView, q.keep) => InStep(new, n, TRUE, q.keep)
      BY <1>7, <3>2, ShowFacts
    <3>4. \A n, inView : InStep(new, n, TRUE, q.keep) => InStep(new, n, inView, q.keep)
      BY DEF InStep
    <3>. QED  BY <3>1, <3>2, <3>3, <3>4
  <2>. QED  BY <2>1, <2>2
<1>9. CacheTyped'
  <2>1. cache' \in [Slots -> Entry]
    BY <1>6, <1>8
  <2>. QED  BY <1>1, <1>2, <1>4, <1>5, <2>1 DEF CacheTyped
<1>10. \A s \in Slots : cache'[s] = IF s = slot(zev') THEN new ELSE cache[s]
  BY <1>6, <1>8
<1>11. sub'.phase # "idle" =>
         /\ sub'.zev \in Communities /\ cache'[slot(sub'.zev)].data # nothing
         /\ sub'.phase \in {"asking", "sent"} => stored'[slot(sub'.zev)] < MaxWrites
  BY <1>1, <1>5, <1>8, <1>10, SlotFacts DEF SubOwn
<1>12. mounted' => Loaded(cache'[slot(zev')])
  BY <1>6, <1>8, <1>10
<1>13. ASSUME ~excepted, ~lost', NEW k \in Communities
       PROVE  \/ sub'.phase = "stored" /\ slot(sub'.zev) = slot(k)
              \/ InStep(cache'[slot(k)], stored'[slot(k)], mounted' /\ slot(k) = slot(zev'), q.keep)
  <2>1. Pending(slot(k)) \/ InStep(cache[slot(k)], stored[slot(k)], InView(slot(k)), q.keep)
    BY <1>2, <1>13, EntryBefore
  <2>2. CASE Pending(slot(k))
    BY <1>1, <2>2 DEF Pending
  <2>3. CASE InStep(cache[slot(k)], stored[slot(k)], InView(slot(k)), q.keep)
    <3>1. slot(k) \in Slots
      BY <1>5, SlotFacts
    <3>2. CASE slot(k) # slot(zev')
      <4>1. cache'[slot(k)] = cache[slot(k)]
        BY <1>10, <3>1, <3>2
      <4>2. InStep(cache[slot(k)], stored[slot(k)], FALSE, q.keep)
        BY <2>3 DEF InStep
      <4>3. (mounted' /\ slot(k) = slot(zev')) = FALSE
        BY <3>2
      <4>. QED  BY <1>1, <4>1, <4>2, <4>3
    <3>3. CASE slot(k) = slot(zev')
      <4>1. cache'[slot(k)] = new
        BY <1>10, <3>1, <3>3
      <4>2. InStep(new, stored[slot(k)], TRUE, q.keep)
        <5>1. CASE mounted /\ zev' = zev
          <6>1. InStep(new, stored[slot(k)], InView(slot(k)), q.keep)
            BY <1>8, <2>3, <3>3
          <6>. QED  BY <3>3, <5>1, <6>1 DEF InStep, InView
        <5>. QED  BY <1>8, <2>3, <3>3, <5>1
      <4>3. (mounted' /\ slot(k) = slot(zev')) = TRUE
        BY <1>3, <3>3
      <4>. QED  BY <1>1, <4>1, <4>2, <4>3
    <3>. QED  BY <3>2, <3>3
  <2>. QED  BY <2>1, <2>2, <2>3
<1>. QED  BY <1>1, <1>9, <1>11, <1>12, <1>13, InvariantAfter

\* The pair of the behaviour names what it changes.
LEMMA PairNames ==
    ASSUME ChangesAreNamed, CacheTyped, ~excepted
    PROVE  /\ \/ \E prefix \in o.refreshes : IsPrefix(prefix, q.key)
              \/ q.key \in o.sets /\ o.clean /\ ~o.settled
           /\ o.guarded /\ ~scoped =>
                 \/ \E prefix \in o.always : IsPrefix(prefix, q.key)
                 \/ q.key \in o.sets /\ o.clean /\ ~o.settled
           /\ o.guarded /\ scoped /\ q.keep =>
                 \/ \E prefix \in o.always : IsPrefix(prefix, q.key)
                 \/ q.key \in o.sets /\ ~o.settled
           /\ ~o.guarded /\ scoped =>
                 /\ q.key \in o.sets => \E prefix \in o.refreshes : IsPrefix(prefix, q.key)
                 /\ q.keep => \E prefix \in o.refreshes : IsPrefix(prefix, q.key) /\ ZEV \notin Range(prefix)
<1>1. ChangeIsNamed(pair)
  BY DEF ChangesAreNamed, CacheTyped
<1>. QED  BY <1>1, Zenon DEF ChangeIsNamed, excepted, o, q, scoped

\* What an invalidation does to an entry.
LEMMA AfterRefresh ==
    ASSUME CacheTyped, NEW prefs, NEW at, NEW entries \in [Slots -> Entry], NEW k \in Communities
    PROVE  LET s == slot(k)
           IN afterRefresh(prefs, at, entries)[s] =
                IF reached(prefs, at, IF scoped THEN s ELSE at) THEN invalidate(entries[s], InView(s))
                ELSE entries[s]
<1>1. slot(k) \in Slots /\ slot(k) \in {slot(j) : j \in Communities}
  BY SlotFacts
<1>. QED  BY <1>1 DEF afterRefresh, InView

LEMMA AfterRefreshTyped ==
    ASSUME CacheTyped, NEW prefs, NEW at, NEW entries \in [Slots -> Entry]
    PROVE  afterRefresh(prefs, at, entries) \in [Slots -> Entry]
<1>1. ASSUME NEW z \in Slots PROVE invalidate(entries[z], mounted /\ z = slot(zev)) \in Entry
  <2>1. (mounted /\ z = slot(zev)) \in BOOLEAN
    OBVIOUS
  <2>. QED  BY <2>1, InvalidateFacts
<1>. QED  BY <1>1 DEF afterRefresh

\* A read that outlives the answer out of view makes its entry late, and
\* nothing else.
LEMMA OutlivedFacts ==
    ASSUME CacheTyped, NEW entries \in [Slots -> Entry]
    PROVE  /\ outlived(entries) \in [Slots -> Entry]
           /\ \A s \in Slots :
                 LET e == entries[s]
                     g == outlived(entries)[s]
                 IN /\ g.data = e.data /\ (Loaded(e) => Loaded(g))
                    /\ \A n, inView, keep : InStep(e, n, inView, keep) => InStep(g, n, inView, keep)
                    /\ Pending(s) /\ ~InView(s) /\ e.flight = "served" =>
                          \A n, inView, keep : InStep(g, n, inView, keep)
<1>1. ASSUME NEW s \in Slots
      PROVE  LET e == entries[s]
                 g == outlived(entries)[s]
             IN /\ g \in Entry /\ g.data = e.data /\ (Loaded(e) => Loaded(g))
                /\ \A n, inView, keep : InStep(e, n, inView, keep) => InStep(g, n, inView, keep)
                /\ Pending(s) /\ ~InView(s) /\ e.flight = "served" =>
                      \A n, inView, keep : InStep(g, n, inView, keep)
  <2>. DEFINE e == entries[s]
              g == outlived(entries)[s]
              marked == /\ s = slot(sub.zev) /\ sub.phase = "stored" /\ e.flight = "served"
                        /\ ~(mounted /\ s = slot(zev))
  <2>1. e \in Entry
    OBVIOUS
  <2>2. g = IF marked THEN [e EXCEPT !.late = TRUE] ELSE e
    BY DEF outlived
  <2>3. CASE marked
    <3>1. g \in Entry /\ g.data = e.data /\ g.flight = e.flight
      BY <2>1, <2>2, <2>3 DEF Entry
    <3>2. g.late
      BY <2>1, <2>2, <2>3 DEF Entry
    <3>. HIDE DEF e, g
    <3>. QED  BY <3>1, <3>2 DEF Loaded, InStep, e, g
  <2>4. CASE ~marked
    <3>1. g = e
      BY <2>2, <2>4
    <3>2. ~(Pending(s) /\ ~InView(s) /\ e.flight = "served")
      BY <2>4 DEF Pending, InView
    <3>. QED  BY <2>1, <3>1, <3>2
  <2>. QED  BY <2>3, <2>4
<1>2. outlived(entries) \in [Slots -> Entry]
  BY <1>1 DEF outlived
<1>. QED  BY <1>1, <1>2

\* The entry of the community the write was for is in step after the answer.
LEMMA OwnEntryAnswered ==
    ASSUME ChangesAreNamed, CacheInv, ~excepted, NEW k \in Communities,
           sub.phase = "stored", slot(k) = slot(sub.zev), NEW filled \in [Slots -> Entry],
           \/ filled[slot(k)] = IF q.key \in o.sets /\ slot(target) = slot(k)
                                THEN setQueryData(cache[slot(k)], stored[slot(k)]) ELSE cache[slot(k)]
           \/ o.settled /\ filled[slot(k)] = cache[slot(k)]
    PROVE  InStep(outlived(afterRefresh(prefixes, target, filled))[slot(k)], stored[slot(k)],
                  InView(slot(k)), q.keep)
<1>. DEFINE s == slot(k)
            e == cache[s]
            f == filled[s]
            n == stored[s]
            a == afterRefresh(prefixes, target, filled)[s]
<1>1. CacheTyped /\ SubOwn
  BY DEF CacheInv
<1>2. s \in Slots /\ e \in Entry /\ n \in 0..MaxWrites /\ f \in Entry
  BY <1>1, SlotFacts DEF CacheTyped
<1>3. InView(s) \in BOOLEAN
  BY DEF InView
<1>4. e.data # nothing /\ sub.zev \in Communities
  BY <1>1 DEF SubOwn
<1>5. /\ InStep(a, n, InView(s), q.keep) =>
             InStep(outlived(afterRefresh(prefixes, target, filled))[s], n, InView(s), q.keep)
      /\ ~InView(s) /\ a.flight = "served" =>
             InStep(outlived(afterRefresh(prefixes, target, filled))[s], n, InView(s), q.keep)
  <2>1. PICK entries \in [Slots -> Entry] : entries = afterRefresh(prefixes, target, filled)
    BY <1>1, AfterRefreshTyped
  <2>2. Pending(s)
    BY DEF Pending
  <2>3. a = entries[s]
    BY <2>1
  <2>. HIDE DEF a, n, s
  <2>. QED  BY <1>1, <1>2, <2>1, <2>2, <2>3, OutlivedFacts
<1>. SUFFICES ASSUME InView(s) \/ a.flight # "served" PROVE InStep(a, n, InView(s), q.keep)
  BY <1>5
<1>6. /\ f.data # nothing
      /\ q.key \in o.sets /\ ~o.settled /\ slot(target) = s => f.data = n /\ (o.clean => f.flight = "no")
  <2>1. CASE q.key \in o.sets /\ slot(target) = s /\ f # e
    <3>1. f = setQueryData(e, n)
      BY <2>1
    <3>. HIDE DEF e, n, f, s
    <3>. QED  BY <1>2, <3>1, SetQueryDataFacts
  <2>2. CASE f = e
    <3>1. f.data # nothing
      BY <1>4, <2>2
    <3>2. CASE q.key \in o.sets /\ ~o.settled /\ slot(target) = s
      <4>1. f = setQueryData(e, n)
        BY <3>2
      <4>. HIDE DEF e, n, f, s
      <4>. QED  BY <1>2, <3>1, <4>1, SetQueryDataFacts
    <3>. QED  BY <3>1, <3>2
  <2>3. (q.key \in o.sets /\ slot(target) = s) \/ f = e
    OBVIOUS
  <2>. QED  BY <2>1, <2>2, <2>3
<1>7. a = IF reached(prefixes, target, IF scoped THEN s ELSE target) THEN invalidate(f, InView(s)) ELSE f
  BY <1>1, AfterRefresh
<1>. HIDE DEF e, n, f, a
<1>8. CASE reached(prefixes, target, IF scoped THEN s ELSE target)
  <2>1. InView(s) \/ f.flight # "served"
    BY <1>2, <1>3, <1>7, <1>8, InvalidateFacts
  <2>2. InStep(invalidate(f, InView(s)), n, InView(s), q.keep)
    BY <1>2, <1>3, <1>6, <2>1, InvalidateFacts
  <2>. QED  BY <1>7, <1>8, <2>2
<1>9. CASE ~reached(prefixes, target, IF scoped THEN s ELSE target)
  <2>1. \/ q.key \in o.sets /\ ~o.settled /\ slot(target) = s /\ (o.clean \/ ~InView(s))
        \/ ~InView(s) /\ ~q.keep
    <3>1. CASE ~scoped
      <4>1. s = "all" /\ slot(target) = s
        BY <3>1 DEF slot
      <4>2. ~\E prefix \in prefixes : IsPrefix(prefix, q.key)
        BY <1>9, <3>1 DEF reached
      <4>3. q.key \in o.sets /\ o.clean /\ ~o.settled
        BY <1>1, <3>1, <4>2, PairNames DEF prefixes
      <4>. QED  BY <4>1, <4>3
    <3>2. CASE scoped /\ zev = sub.zev
      <4>1. target = sub.zev /\ prefixes = o.refreshes /\ s = sub.zev /\ slot(target) = s
        BY <3>2 DEF target, prefixes, slot
      <4>2. ~\E prefix \in o.refreshes : IsPrefix(prefix, q.key)
        BY <1>9, <3>2, <4>1 DEF reached
      <4>. QED  BY <1>1, <4>1, <4>2, PairNames
    <3>3. CASE scoped /\ zev # sub.zev /\ o.guarded
      <4>1. target = sub.zev /\ prefixes = o.always /\ s = sub.zev /\ slot(target) = s
        BY <3>3 DEF target, prefixes, slot
      <4>2. ~InView(s)
        BY <3>3, <4>1 DEF InView, slot
      <4>3. ~\E prefix \in o.always : IsPrefix(prefix, q.key)
        BY <1>9, <3>3, <4>1 DEF reached
      <4>. QED  BY <1>1, <3>3, <4>1, <4>2, <4>3, PairNames
    <3>4. CASE scoped /\ zev # sub.zev /\ ~o.guarded
      <4>1. target = zev /\ prefixes = o.refreshes /\ s = sub.zev
        BY <3>4 DEF target, prefixes, slot
      <4>2. ~InView(s)
        BY <3>4, <4>1 DEF InView, slot
      <4>3. ~\E prefix \in o.refreshes : IsPrefix(prefix, q.key) /\ ZEV \notin Range(prefix)
        BY <1>9, <3>4, <4>1 DEF reached
      <4>. QED  BY <1>1, <3>4, <4>2, <4>3, PairNames
    <3>. QED  BY <3>1, <3>2, <3>3, <3>4
  <2>2. InView(s) \/ f.flight # "served"
    BY <1>7, <1>9
  <2>3. InStep(f, n, InView(s), q.keep)
    BY <1>6, <2>1, <2>2 DEF InStep
  <2>. QED  BY <1>7, <1>9, <2>3
<1>. QED  BY <1>8, <1>9

\* ... and the others stay in step, the one selected meanwhile included.
LEMMA OtherEntryAnswered ==
    ASSUME ChangesAreNamed, CacheInv, ~excepted, ~lost, NEW k \in Communities,
           slot(k) # slot(sub.zev) \/ sub.phase # "stored", NEW filled \in [Slots -> Entry],
           filled[slot(k)] = cache[slot(k)] \/
               /\ sub.phase = "stored" /\ q.key \in o.sets /\ slot(target) = slot(k)
               /\ \E n \in 0..MaxWrites : filled[slot(k)] = setQueryData(cache[slot(k)], n)
    PROVE  InStep(outlived(afterRefresh(prefixes, target, filled))[slot(k)], stored[slot(k)],
                  InView(slot(k)), q.keep)
<1>. DEFINE s == slot(k)
            e == cache[s]
            f == filled[s]
            n == stored[s]
<1>1. CacheTyped
  BY DEF CacheInv
<1>2. s \in Slots /\ e \in Entry /\ f \in Entry
  BY <1>1, SlotFacts DEF CacheTyped
<1>3. InView(s) \in BOOLEAN
  BY DEF InView
<1>4. InStep(e, n, InView(s), q.keep)
  BY EntryBefore DEF Pending
<1>. SUFFICES InStep(afterRefresh(prefixes, target, filled)[s], n, InView(s), q.keep)
  <2>1. PICK entries \in [Slots -> Entry] : entries = afterRefresh(prefixes, target, filled)
    BY <1>1, AfterRefreshTyped
  <2>2. \A m, inView, keep : InStep(entries[s], m, inView, keep) => InStep(outlived(entries)[s], m, inView, keep)
    BY <1>1, <1>2, <2>1, OutlivedFacts
  <2>. QED  BY <2>1, <2>2
<1>5. afterRefresh(prefixes, target, filled)[s] =
        IF reached(prefixes, target, IF scoped THEN s ELSE target) THEN invalidate(f, InView(s)) ELSE f
  BY <1>1, AfterRefresh
<1>6. CASE f = e
  <2>1. InStep(invalidate(f, InView(s)), n, InView(s), q.keep)
    <3>. HIDE DEF e, f, n, s
    <3>. QED  BY <1>2, <1>3, <1>4, <1>6, InvalidateFacts
  <2>. QED  BY <1>4, <1>5, <1>6, <2>1
<1>7. CASE /\ sub.phase = "stored" /\ q.key \in o.sets /\ slot(target) = s
           /\ \E m \in 0..MaxWrites : f = setQueryData(e, m)
  <2>1. slot(sub.zev) # s
    BY <1>7
  <2>2. scoped /\ target = s /\ target # sub.zev
    BY <1>7, <2>1 DEF slot
  <2>3. ~o.guarded /\ target = zev /\ prefixes = o.refreshes
    BY <2>2 DEF target, prefixes
  <2>4. reached(prefixes, target, IF scoped THEN s ELSE target)
    <3>1. PICK prefix \in o.refreshes : IsPrefix(prefix, q.key)
      BY <1>1, <1>7, <2>2, <2>3, PairNames
    <3>. QED  BY <2>2, <2>3, <3>1 DEF reached
  <2>5. /\ f.data # nothing
        /\ f.flight = "no" \/ (f.flight = e.flight /\ f.brings = e.brings /\ (f.late <=> e.late))
    <3>. HIDE DEF e, f, n, s
    <3>. QED  BY <1>2, <1>7, SetQueryDataFacts
  <2>6. f.late \/ (f.flight = "served" => f.brings = n)
    <3>. HIDE DEF e, f, n, s
    <3>. QED  BY <1>4, <2>5 DEF InStep
  <2>7. InStep(invalidate(f, InView(s)), n, InView(s), q.keep)
    <3>. HIDE DEF e, f, n, s
    <3>. QED  BY <1>2, <1>3, <2>5, <2>6, InvalidateFacts
  <2>. QED  BY <1>5, <2>4, <2>7
<1>. QED  BY <1>6, <1>7

\* What an answer leaves behind.
LEMMA AfterAnswer ==
    ASSUME ChangesAreNamed, CacheInv, NEW filled \in [Slots -> Entry],
           filled[slot(zev)] = cache[slot(zev)] \/ filled[slot(zev)].data # nothing,
           pair' = pair, zev' = zev, stored' = stored, mounted' = mounted, lost' \in BOOLEAN,
           sub' = Idle, cache' = outlived(afterRefresh(prefixes, target, filled)),
           ~lost' /\ ~excepted =>
               \A k \in Communities :
                  InStep(outlived(afterRefresh(prefixes, target, filled))[slot(k)], stored[slot(k)],
                         InView(slot(k)), q.keep)
    PROVE  CacheInv'
<1>1. CacheTyped
  BY DEF CacheInv
<1>2. Idle \in Sub /\ Idle.phase = "idle"
  BY DEF Idle, Sub, Slots
<1>3. CacheTyped'
  <2>1. cache' \in [Slots -> Entry]
    <3>1. afterRefresh(prefixes, target, filled) \in [Slots -> Entry]
      BY <1>1, AfterRefreshTyped
    <3>. QED  BY <1>1, <3>1, OutlivedFacts
  <2>2. mounted' \in BOOLEAN
    BY <1>1 DEF CacheTyped
  <2>3. pair' \in Pairs /\ zev' \in Communities /\ stored' \in [Slots -> 0..MaxWrites] /\ sub' \in Sub
    BY <1>1, <1>2 DEF CacheTyped
  <2>. QED  BY <2>1, <2>2, <2>3, Zenon DEF CacheTyped
<1>4. mounted' => Loaded(cache'[slot(zev')])
  <2>. SUFFICES ASSUME mounted PROVE Loaded(cache'[slot(zev)])
    OBVIOUS
  <2>1. zev \in Communities /\ slot(zev) \in Slots /\ InView(slot(zev)) /\ filled[slot(zev)] \in Entry
    BY <1>1, SlotFacts DEF InView
  <2>2. Loaded(filled[slot(zev)])
    BY DEF CacheInv, here, Loaded
  <2>3. PICK entries \in [Slots -> Entry] : entries = afterRefresh(prefixes, target, filled)
    BY <1>1, AfterRefreshTyped
  <2>. DEFINE a == entries[slot(zev)]
  <2>6. a = invalidate(filled[slot(zev)], InView(slot(zev))) \/ a = filled[slot(zev)]
    BY <1>1, <2>1, <2>3, AfterRefresh
  <2>4. InView(slot(zev)) = TRUE
    BY <2>1 DEF InView
  <2>5. Loaded(invalidate(filled[slot(zev)], TRUE))
    BY <2>1, InvalidateFacts
  <2>7. Loaded(a)
    BY <2>2, <2>4, <2>5, <2>6
  <2>. QED  BY <1>1, <2>1, <2>3, <2>7, OutlivedFacts
<1>5. ASSUME ~excepted, ~lost', NEW k \in Communities
      PROVE  InStep(cache'[slot(k)], stored'[slot(k)], mounted' /\ slot(k) = slot(zev'), q.keep)
  BY <1>5 DEF InView
<1>. QED  BY <1>2, <1>3, <1>4, <1>5, InvariantAfter

LEMMA CacheAnswers ==
    ASSUME ChangesAreNamed, CacheInv, Answer PROVE CacheInv'
<1>1. /\ pair' = pair /\ zev' = zev /\ stored' = stored
      /\ sub.phase = "stored" /\ sub' = Idle
  BY DEF Answer
<1>3. mounted' = mounted /\ lost' = lost
  BY DEF Answer
<1>4. CacheTyped /\ SubOwn
  BY DEF CacheInv
<1>5. /\ cache \in [Slots -> Entry] /\ stored \in [Slots -> 0..MaxWrites]
      /\ sub.zev \in Communities /\ zev \in Communities
  BY <1>1, <1>4 DEF CacheTyped, SubOwn
<1>6. target \in Communities
  BY <1>5 DEF target
<1>7. slot(target) \in Slots /\ slot(sub.zev) \in Slots /\ slot(zev) \in Slots
  BY <1>4, <1>5, <1>6, SlotFacts
<1>8. PICK new : new = setQueryData(cache[slot(target)], stored[slot(sub.zev)])
  OBVIOUS
<1>9. new \in Entry /\ new.data # nothing
  <2>1. PICK e \in Entry, n \in 0..MaxWrites : e = cache[slot(target)] /\ n = stored[slot(sub.zev)]
    BY <1>5, <1>7
  <2>2. new = setQueryData(e, n)
    BY <1>8, <2>1
  <2>. QED  BY <2>2, SetQueryDataFacts
<1>10. PICK filled : filled = IF q.key \in o.sets THEN [cache EXCEPT ![slot(target)] = new] ELSE cache
  OBVIOUS
<1>11. cache' = outlived(afterRefresh(prefixes, target, filled))
  BY <1>8, <1>10 DEF Answer
<1>12. filled \in [Slots -> Entry]
  BY <1>5, <1>7, <1>9, <1>10
<1>13. \A s \in Slots : filled[s] = IF q.key \in o.sets /\ slot(target) = s THEN new ELSE cache[s]
  BY <1>5, <1>7, <1>10
<1>14. ASSUME ~lost', ~excepted, NEW k \in Communities
       PROVE  InStep(outlived(afterRefresh(prefixes, target, filled))[slot(k)], stored[slot(k)], InView(slot(k)), q.keep)
  <2>1. slot(k) \in Slots
    BY <1>4, SlotFacts
  <2>2. ~lost
    BY <1>3, <1>14
  <2>3. CASE slot(k) = slot(sub.zev)
    <3>1. filled[slot(k)] = IF q.key \in o.sets /\ slot(target) = slot(k)
                            THEN setQueryData(cache[slot(k)], stored[slot(k)]) ELSE cache[slot(k)]
      BY <1>8, <1>13, <2>1, <2>3
    <3>. QED  BY <1>1, <1>12, <1>14, <2>3, <3>1, OwnEntryAnswered
  <2>4. CASE slot(k) # slot(sub.zev)
    <3>1. filled[slot(k)] = cache[slot(k)] \/
               /\ sub.phase = "stored" /\ q.key \in o.sets /\ slot(target) = slot(k)
               /\ \E n \in 0..MaxWrites : filled[slot(k)] = setQueryData(cache[slot(k)], n)
      BY <1>1, <1>5, <1>7, <1>8, <1>13, <2>1
    <3>. QED  BY <1>12, <1>14, <2>2, <2>4, <3>1, OtherEntryAnswered
  <2>. QED  BY <2>3, <2>4
<1>15. lost' \in BOOLEAN
  BY <1>3, <1>4 DEF CacheTyped
<1>16. filled[slot(zev)] = cache[slot(zev)] \/ filled[slot(zev)].data # nothing
  BY <1>7, <1>9, <1>13
<1>. QED  BY <1>1, <1>3, <1>11, <1>12, <1>14, <1>15, <1>16, AfterAnswer

\* A failure that may have stored something is known to be lost, or reads again.
LEMMA CacheFails ==
    ASSUME ChangesAreNamed, CacheInv, Fail PROVE CacheInv'
<1>1. pair' = pair /\ zev' = zev /\ stored' = stored /\ sub' = Idle
  BY DEF Fail
<1>3. mounted' = mounted
  BY DEF Fail
<1>4. lost' \in BOOLEAN
  BY DEF Fail
<1>5. ~lost' => ~lost /\ (sub.phase = "stored" => o.settled)
  BY DEF Fail
<1>6. CacheTyped
  BY DEF CacheInv
<1>7. cache \in [Slots -> Entry]
  BY <1>6 DEF CacheTyped
<1>8. CASE o.settled
  <2>1. cache' = outlived(afterRefresh(prefixes, target, cache))
    BY <1>8 DEF Fail
  <2>2. ASSUME ~lost', ~excepted, NEW k \in Communities
        PROVE  InStep(outlived(afterRefresh(prefixes, target, cache))[slot(k)], stored[slot(k)], InView(slot(k)), q.keep)
    <3>1. CASE sub.phase = "stored" /\ slot(k) = slot(sub.zev)
      BY <1>7, <1>8, <2>2, <3>1, OwnEntryAnswered
    <3>2. CASE sub.phase # "stored" \/ slot(k) # slot(sub.zev)
      BY <1>5, <1>7, <2>2, <3>2, OtherEntryAnswered
    <3>. QED  BY <3>1, <3>2
  <2>. QED  BY <1>1, <1>3, <1>4, <1>7, <2>1, <2>2, AfterAnswer
<1>9. CASE ~o.settled
  <2>1. cache' = cache
    BY <1>9 DEF Fail
  <2>2. Idle \in Sub /\ Idle.phase = "idle"
    BY DEF Idle, Sub, Slots
  <2>3. CacheTyped'
    <3>1. mounted' \in BOOLEAN
      BY <1>3, <1>6 DEF CacheTyped
    <3>2. /\ pair' \in Pairs /\ zev' \in Communities /\ stored' \in [Slots -> 0..MaxWrites]
          /\ sub' \in Sub /\ cache' \in [Slots -> Entry]
      BY <1>1, <1>6, <2>1, <2>2 DEF CacheTyped
    <3>. QED  BY <1>4, <3>1, <3>2, Zenon DEF CacheTyped
  <2>4. mounted' => Loaded(cache'[slot(zev')])
    BY <1>1, <1>3, <2>1 DEF CacheInv, here
  <2>5. ASSUME ~excepted, ~lost', NEW k \in Communities
        PROVE  InStep(cache'[slot(k)], stored'[slot(k)], mounted' /\ slot(k) = slot(zev'), q.keep)
    <3>1. ~lost /\ sub.phase # "stored"
      BY <1>5, <1>9, <2>5
    <3>2. InStep(cache[slot(k)], stored[slot(k)], InView(slot(k)), q.keep)
      BY <2>5, <3>1, EntryBefore DEF Pending
    <3>. QED  BY <1>1, <1>3, <2>1, <3>2 DEF InView
  <2>. QED  BY <1>1, <2>2, <2>3, <2>4, <2>5, InvariantAfter
<1>. QED  BY <1>8, <1>9

-----------------------------------------------------------------------------
(* The theorem *)

LEMMA CacheStarts ==
    ASSUME Init PROVE CacheInv
<1>1. /\ pair \in Pairs /\ zev \in Communities /\ sub = Idle
      /\ stored = [z \in Slots |-> 0]
      /\ cache = [z \in Slots |-> IF z = slot(zev) THEN ask(Empty) ELSE Empty]
  BY DEF Init
<1>2. mounted = TRUE /\ lost = FALSE
  BY DEF Init
<1>3. Idle \in Sub /\ Idle.phase = "idle"
  BY DEF Idle, Sub, Slots
<1>4. /\ Empty \in Entry /\ Empty.data = nothing /\ Empty.flight = "no"
      /\ ask(Empty) \in Entry /\ ask(Empty).flight = "asked" /\ ask(Empty).data = nothing
  BY EmptyFacts, AskFacts
<1>5. stored \in [Slots -> 0..MaxWrites]
  BY <1>1, MaxWritesAssumption
<1>6. cache \in [Slots -> Entry]
  BY <1>1, <1>4
<1>7. CacheTyped
  BY <1>1, <1>2, <1>3, <1>5, <1>6 DEF CacheTyped
<1>8. slot(zev) \in Slots
  BY <1>7, SlotFacts
<1>9. Loaded(here)
  BY <1>1, <1>4, <1>8 DEF here, Loaded
<1>10. EntriesInStep
  <2>. SUFFICES ASSUME NEW k \in Communities
                PROVE  InStep(cache[slot(k)], stored[slot(k)], InView(slot(k)), q.keep)
    BY DEF EntriesInStep
  <2>1. slot(k) \in Slots
    BY <1>7, SlotFacts
  <2>2. cache[slot(k)] \in {Empty, ask(Empty)}
    BY <1>1, <2>1
  <2>. QED  BY <1>4, <2>2 DEF InStep
<1>11. SubOwn
  BY <1>1, <1>3 DEF SubOwn
<1>. QED  BY <1>7, <1>9, <1>10, <1>11 DEF CacheInv

LEMMA CacheSteps ==
    ASSUME ChangesAreNamed, CacheInv, [Next]_vars PROVE CacheInv'
<1>1. CASE UNCHANGED vars
  <2>1. CacheTyped'
    BY <1>1 DEF vars, CacheInv, CacheTyped
  <2>2. /\ q' = q /\ (excepted' <=> excepted) /\ here' = here
        /\ \A z : slot(z)' = slot(z)
        /\ slot(sub.zev)' = slot(sub.zev) /\ slot(zev)' = slot(zev)
    BY <1>1, SamePair DEF vars, here
  <2>3. pair' = pair /\ zev' = zev /\ stored' = stored /\ cache' = cache /\ sub' = sub
    BY <1>1 DEF vars
  <2>4. mounted' = mounted /\ lost' = lost
    BY <1>1 DEF vars
  <2>5. sub'.phase # "idle" =>
            /\ sub'.zev \in Communities /\ cache'[slot(sub'.zev)].data # nothing
            /\ sub'.phase \in {"asking", "sent"} => stored'[slot(sub'.zev)] < MaxWrites
    BY <2>3 DEF CacheInv, SubOwn
  <2>6. mounted' => Loaded(cache'[slot(zev')])
    BY <2>3, <2>4 DEF CacheInv, here
  <2>7. ASSUME ~excepted, ~lost', NEW k \in Communities
        PROVE  \/ sub'.phase = "stored" /\ slot(sub'.zev) = slot(k)
               \/ InStep(cache'[slot(k)], stored'[slot(k)], mounted' /\ slot(k) = slot(zev'), q.keep)
    <3>1. Pending(slot(k)) \/ InStep(cache[slot(k)], stored[slot(k)], InView(slot(k)), q.keep)
      BY <2>4, <2>7, EntryBefore
    <3>. QED  BY <2>3, <2>4, <3>1 DEF Pending, InView
  <2>. QED  BY <2>1, <2>3, <2>5, <2>6, <2>7, InvariantAfter
<1>2. CASE Next
  <2>1. CASE Click \/ (\E yes \in BOOLEAN : Confirm(yes)) \/ Leave
    BY <2>1, CacheUsers
  <2>2. CASE Store
    BY <2>2, CacheStores
  <2>3. CASE Answer
    BY <2>3, CacheAnswers
  <2>4. CASE Fail
    BY <2>4, CacheFails
  <2>5. CASE \E z \in Slots : Serve(z) \/ Arrive(z)
    BY <2>5, CacheReads
  <2>6. CASE Poll \/ Return \/ \E z \in Communities : setSelectedZevId(z)
    BY <2>6, CacheViews
  <2>. QED  BY <1>2, <2>1, <2>2, <2>3, <2>4, <2>5, <2>6 DEF Next
<1>. QED  BY <1>1, <1>2

\* When nothing is under way, the entry in view is loaded and in step.
LEMMA CacheIsFresh ==
    ASSUME CacheInv PROVE TypeOK /\ Freshness
<1>1. TypeOK
  <2>1. cache \in [Slots -> [data : nothing..MaxWrites, stale : BOOLEAN,
                             flight : {"no", "asked", "served"}, brings : nothing..MaxWrites,
                             late : BOOLEAN]]
    BY DEF CacheInv, CacheTyped, Entry, Version
  <2>. QED  BY <2>1 DEF CacheInv, CacheTyped, Sub, TypeOK
<1>2. ASSUME mounted, sub = Idle, here.flight = "no", ~lost, ~excepted, ~here.late
      PROVE  here.data = stored[slot(zev)]
  <2>1. zev \in Communities
    BY DEF CacheInv, CacheTyped
  <2>2. ~Pending(slot(zev))
    BY <1>2 DEF Pending, Idle
  <2>3. InStep(cache[slot(zev)], stored[slot(zev)], InView(slot(zev)), q.keep)
    BY <1>2, <2>1, <2>2, EntryBefore
  <2>4. here.data # nothing
    BY <1>2 DEF CacheInv, Loaded
  <2>. QED  BY <1>2, <2>3, <2>4 DEF InStep, InView, here
<1>. QED  BY <1>1, <1>2 DEF Freshness

(* Where the controls name what they change, a page at rest shows every      *)
(* change its own controls made (the onSuccess and onSettled handlers of the *)
(* pages over the query cache), for any number of communities and writes and *)
(* whatever the user selects, leaves or loses meanwhile, but for data that   *)
(* is late: read before the write, and under way out of view when the write  *)
(* was answered. The hypothesis is a finite statement about the catalogue of *)
(* the pages.                                                                *)
THEOREM FreshnessHolds ==
    ASSUME ChangesAreNamed
    PROVE  Spec => []Freshness
<1>1. Init => CacheInv
  BY CacheStarts
<1>2. CacheInv /\ [Next]_vars => CacheInv'
  BY CacheSteps
<1>3. CacheInv => Freshness
  BY CacheIsFresh
<1>. QED  BY <1>1, <1>2, <1>3, PTL DEF Spec
=============================================================================
