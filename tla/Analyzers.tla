------------------------------ MODULE Analyzers ------------------------------
(***************************************************************************)
(* The stateful analysis of one frame (FramePipeline._process_locked): the *)
(* tracker Sort, the ZoneAnalyzer, the PeopleCounter and the               *)
(* IntrusionDetector, each with a memory of its own that outlives a track  *)
(* by a different rule.                                                    *)
(*                                                                         *)
(* What the images decide is chosen freely: which tracks the detections    *)
(* match, how many are new, which boxes are degenerate, and where each     *)
(* reported track is.  Frame indexes and times are kept as ages.           *)
(***************************************************************************)
EXTENDS Integers, FiniteSets, Functions, FiniteSetsExt

CONSTANTS Zones, IntrusionZones,   \* CVConfig.zones, intrusion_zone_ids
          MaxAge, MinHits,         \* tracker_max_age, tracker_min_hits
          ZoneStale,               \* ZoneAnalyzer.stale_after_frames
          CounterStale,            \* people_counter_stale_after_frames
          Cooldown, Margin,        \* intrusion_cooldown, intrusion_retention_margin
          Steps,                   \* time that may pass between two frames
          MaxTracks,               \* bound: tracks ever created
          MaxCount                 \* bound: crossings counted in one direction

\* CVConfig.__post_init__: the ages and expiries are not related to one another.
ValidConfig ==
  /\ MaxAge \in Nat /\ MinHits \in Nat \ {0}
  /\ {CounterStale, Cooldown, Margin} \subseteq Nat
  /\ IntrusionZones \subseteq Zones

ASSUME ConfigAssumption ==
  ValidConfig /\ {ZoneStale, MaxTracks, MaxCount} \subseteq Nat /\ Steps \subseteq Nat

VARIABLES frames,     \* Sort.frame_count, counted to MinHits + 1
          track,      \* Sort.trackers: time_since_update and hits by id
          nextId,     \* KalmanBoxTracker._next_id
          lastSeen,   \* ZoneAnalyzer._last_seen: frames since, by id
          presence,   \* ZoneAnalyzer._presence, by zone and id
          counter,    \* PeopleCounter._track_states: side and frames since, by id
          totals,     \* PeopleCounter.count_in, count_out
          alerts,     \* IntrusionDetector._last_alert: time since, by zone and id
          result,     \* the events of the last frame, and its distance in time
          history     \* what was announced so far of each track (see Remember)

analyzerVars == <<frames, track, nextId, lastSeen, presence, counter, totals, alerts, result, history>>

TrackIds == 1..MaxTracks
Keys == Zones \X TrackIds
Places == [zones : SUBSET Zones, side : {-1, 0, 1}, person : BOOLEAN]
Empty == [x \in {} |-> 0]
\* f restricted to the arguments outside s: dict.pop for each of s.
Without(f, s) == Restrict(f, DOMAIN f \ s)
\* A missing key reads as a default: dict.get.
Get(f, x, default) == IF x \in DOMAIN f THEN f[x] ELSE default
Older(n, bound) == Min({n + 1, bound})

AnalyzersInit ==
  /\ frames = 0 /\ track = Empty /\ nextId = 1
  /\ lastSeen = Empty /\ presence = Empty
  /\ counter = Empty /\ totals = [in |-> 0, out |-> 0]
  /\ alerts = Empty
  /\ result = [zone |-> {}, count |-> {}, intrusion |-> {}, step |-> 0]
  /\ history = [zone |-> [k \in Keys |-> "exit"], count |-> [i \in TrackIds |-> "none"],
                quiet |-> [k \in Keys |-> -1], hid |-> {}, other |-> {}, missed |-> {}]

-----------------------------------------------------------------------------
(* Sort._update: predict, match, create, report, drop.                     *)

\* KalmanBoxTracker: a new one, its predict and its update.  The hits count up to
\* the number that confirms a track.
NewTracker == [since |-> 0, hits |-> 1]
Predicted(t) == [t EXCEPT !.since = @ + 1]
Updated(t) == [since |-> 0, hits |-> Older(t.hits, MinHits)]

\* Every tracker predicts; those with a prediction that is not finite are lost.
Predict(lost) == [i \in DOMAIN track \ lost |-> Predicted(track[i])]

\* _associate: which predictions overlap a detection enough depends on the picture.
Matchings(predicted) == SUBSET DOMAIN predicted

\* Matched trackers are updated, and each unmatched detection starts one.
Associate(predicted, matched, fresh) ==
  [i \in DOMAIN predicted \union fresh |->
     IF i \in fresh THEN NewTracker
     ELSE IF i \in matched THEN Updated(predicted[i]) ELSE predicted[i]]

SurvivorsByOne(trackers) ==  \* mutant: a tracker lives one frame longer than max_age
  Restrict(trackers, {i \in DOMAIN trackers : trackers[i].since <= MaxAge + 1})
Survivors(trackers) ==
  Restrict(trackers, {i \in DOMAIN trackers : trackers[i].since <= MaxAge})

\* Updated in this frame and confirmed; in the first frames everything is reported.
Reportable(trackers, frame) ==
  {i \in DOMAIN trackers : trackers[i].since = 0 /\ (trackers[i].hits >= MinHits \/ frame <= MinHits)}

-----------------------------------------------------------------------------
(* The analyzers: tracked is where each reported track is.                 *)

\* ZoneAnalyzer.analyze: a change of presence is an event.
Inside(tracked, k) == k[1] \in tracked[k[2]].zones
ZoneEvents(tracked) ==
  {[zone |-> k[1], id |-> k[2], type |-> IF Inside(tracked, k) THEN "enter" ELSE "exit"] :
     k \in {k \in Zones \X DOMAIN tracked : Inside(tracked, k) # Get(presence, k, FALSE)}}

\* The tracks ZoneAnalyzer._discard_stale keeps, and their age.
SeenEarly(tracked) ==  \* mutant: a track is discarded when its age reaches the limit
  LET age(i) == IF i \in DOMAIN tracked THEN 0 ELSE lastSeen[i] + 1
      known == {i \in DOMAIN lastSeen \union DOMAIN tracked : age(i) < ZoneStale}
  IN  [i \in known |-> age(i)]
Seen(tracked) ==
  LET age(i) == IF i \in DOMAIN tracked THEN 0 ELSE lastSeen[i] + 1
      known == {i \in DOMAIN lastSeen \union DOMAIN tracked : age(i) <= ZoneStale}
  IN  [i \in known |-> age(i)]
Analyze(tracked) ==
  /\ lastSeen' = Seen(tracked)
  /\ presence' = [k \in {k \in DOMAIN presence \union (Zones \X DOMAIN tracked) : k[2] \in DOMAIN lastSeen'} |->
                    IF k[2] \in DOMAIN tracked THEN Inside(tracked, k) ELSE presence[k]]

\* PeopleCounter.update: a person beyond the hysteresis band on the other side has crossed.
Sided(tracked) == {i \in DOMAIN tracked : tracked[i].person /\ tracked[i].side # 0}
Crossed(tracked) == {i \in Sided(tracked) \intersect DOMAIN counter : counter[i].side # tracked[i].side}
CountEvents(tracked) ==
  {[id |-> i, dir |-> IF counter[i].side < tracked[i].side THEN "in" ELSE "out"] : i \in Crossed(tracked)}
CounterUpdatedBeyond(tracked) ==  \* mutant: a track near the line is not refreshed
  LET seen == Sided(tracked)
      age(i) == IF i \in seen THEN 0 ELSE counter[i].age + 1
      known == {i \in DOMAIN counter \union Sided(tracked) : age(i) <= CounterStale}
  IN  [i \in known |-> [side |-> IF i \in Sided(tracked) THEN tracked[i].side ELSE counter[i].side,
                        age |-> age(i)]]
CounterUpdated(tracked) ==
  LET seen == {i \in DOMAIN tracked : tracked[i].person}
      age(i) == IF i \in seen THEN 0 ELSE counter[i].age + 1
      known == {i \in DOMAIN counter \union Sided(tracked) : age(i) <= CounterStale}
  IN  [i \in known |-> [side |-> IF i \in Sided(tracked) THEN tracked[i].side ELSE counter[i].side,
                        age |-> age(i)]]
Count(tracked) ==
  /\ counter' = CounterUpdated(tracked)
  /\ totals' = [in |-> totals.in + Cardinality({e \in CountEvents(tracked) : e.dir = "in"}),
                out |-> totals.out + Cardinality({e \in CountEvents(tracked) : e.dir = "out"})]

\* IntrusionDetector.check: entries older than the retention are pruned when there are
\* events, then each entry of an intrusion zone outside its cooldown is an alert.
Aged(step) == [k \in DOMAIN alerts |-> Min({alerts[k] + step, Cooldown + Margin + 1})]
Expired(ages) == {k \in DOMAIN ages : ages[k] > Cooldown + Margin}
IntrusionsLate(events, ages) ==  \* mutant: the entry is compared with the retention's margin
  {k \in {<<e.zone, e.id>> : e \in {e \in events : e.type = "enter" /\ e.zone \in IntrusionZones}} :
     ~(k \in DOMAIN ages /\ ages[k] < Margin)}
Intrusions(events, ages) ==
  {k \in {<<e.zone, e.id>> : e \in {e \in events : e.type = "enter" /\ e.zone \in IntrusionZones}} :
     ~(k \in DOMAIN ages /\ ages[k] < Cooldown)}
Check(events, tracked, step) ==
  LET ages == Aged(step)
      pruned == IF events = {} THEN ages ELSE Without(ages, Expired(ages))
      raised == Intrusions(events, pruned)
      updated == [k \in DOMAIN pruned \union raised |-> IF k \in raised THEN 0 ELSE pruned[k]]
      \* cleanup(timestamp, the reported tracks): the rest lose their entries at once
      gone == Expired(updated) \union {k \in DOMAIN updated : k[2] \notin DOMAIN tracked}
  IN  /\ alerts' = Without(updated, gone)
      /\ result' = [zone |-> events, count |-> CountEvents(tracked), intrusion |-> raised, step |-> step]

-----------------------------------------------------------------------------
\* History: the last zone event and crossing announced of a track, the time since its
\* last alert (-1: none within the cooldown), the tracks that were there but not
\* reported, those taken for something else than a person, and those that missed a
\* frame since their last alert.
Remember(tracked, hid, step) ==
  LET quiet(k) == IF k \in result'.intrusion THEN 0
                  ELSE IF history.quiet[k] < 0 \/ history.quiet[k] + step >= Cooldown THEN -1
                  ELSE history.quiet[k] + step
  IN  history' =
        [zone |-> [k \in Keys |-> IF \E e \in result'.zone : <<e.zone, e.id>> = k
                                  THEN (CHOOSE e \in result'.zone : <<e.zone, e.id>> = k).type
                                  ELSE history.zone[k]],
         count |-> [i \in TrackIds |-> IF \E e \in result'.count : e.id = i
                                  THEN (CHOOSE e \in result'.count : e.id = i).dir
                                  ELSE history.count[i]],
         quiet |-> [k \in Keys |-> quiet(k)],
         hid |-> history.hid \union hid,
         other |-> history.other \union {i \in DOMAIN tracked : ~tracked[i].person},
         missed |-> {k \in Keys : quiet(k) >= 0 /\ k \notin result'.intrusion
                                    /\ (k \in history.missed \/ k[2] \notin DOMAIN tracked)}]

\* _process_locked: the whole frame, tracker first, under the process lock.
ProcessFrame ==
  \E step \in Steps, lost \in SUBSET DOMAIN track, n \in 0..(MaxTracks + 1 - nextId) :
    \E matched \in Matchings(Predict(lost)) :
      LET fresh == nextId..(nextId + n - 1)
          trackers == Associate(Predict(lost), matched, fresh)
          frame == Older(frames, MinHits + 1)
      IN  \E degenerate \in SUBSET Reportable(trackers, frame) :
            \E tracked \in [Reportable(trackers, frame) \ degenerate -> Places] :
              /\ frames' = frame
              /\ nextId' = nextId + n
              /\ track' = Survivors(trackers)
              /\ Analyze(tracked)
              /\ Count(tracked)
              /\ totals'.in <= MaxCount /\ totals'.out <= MaxCount
              /\ Check(ZoneEvents(tracked), tracked, step)
              /\ Remember(tracked, degenerate, step)

AnalyzersNext == ProcessFrame
AnalyzersSpec == AnalyzersInit /\ [][AnalyzersNext]_analyzerVars

-----------------------------------------------------------------------------
AnalyzersTypeOK ==
  /\ frames \in 0..(MinHits + 1) /\ nextId \in 1..(MaxTracks + 1)
  /\ DOMAIN track \subseteq 1..(nextId - 1)
  /\ \A i \in DOMAIN track : track[i].since \in 0..MaxAge /\ track[i].hits \in 1..MinHits
  /\ DOMAIN lastSeen \subseteq TrackIds /\ DOMAIN presence \subseteq Keys
  /\ DOMAIN counter \subseteq TrackIds /\ DOMAIN alerts \subseteq IntrusionZones \X TrackIds
  /\ {totals.in, totals.out} \subseteq 0..MaxCount

\* The longest time a live track can be out of the analyzers' sight, less the frame it
\* comes back in: in the first frames a track is reported before it is confirmed, and
\* then has to be matched MinHits - 1 times, each after at most MaxAge missed frames.
LongestGap == Max({1, MinHits - 1}) * (MaxAge + 1) - 1

\* The tracker and the zone analyzer together announce each track's visits in order:
\* ENTER, EXIT, ENTER and so on, because the analyzer's memory of a track
\* (zone_analyzer.py:62-70) is not shorter than the longest gap of a live track
\* (tracker.py:186-188).  A configured max_age that breaks this relation, or a track
\* whose boxes were degenerate, is what can announce a visit twice.
ZoneEventsAlternate ==
  [][ZoneStale >= LongestGap =>
       \A e \in result'.zone : e.id \notin history'.hid => history.zone[<<e.zone, e.id>>] # e.type]_analyzerVars

\* A track never crosses the counting line twice in one direction without crossing back
\* in between, with the hysteresis band, lost frames and the expiry of the counter's own
\* memory (people_counter.py:49-74, 81-93), as long as that memory outlives the gaps and
\* the detector takes the track for a person.
CrossingsAlternate ==
  [][CounterStale >= LongestGap =>
       \A e \in result'.count : e.id \notin history'.hid \union history'.other => history.count[e.id] # e.dir]_analyzerVars

\* Two alerts of one track in one zone within the cooldown are raised only when the
\* track went unreported in some frame in between: cleanup() with the reported tracks
\* (frame_pipeline.py:125) is the one thing that shortens a cooldown.
CooldownHolds ==
  [][\A k \in result'.intrusion : history.quiet[k] >= 0 =>
       history.quiet[k] + result'.step >= Cooldown \/ k \in history.missed]_analyzerVars
=============================================================================
