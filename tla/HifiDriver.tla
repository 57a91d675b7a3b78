----------------------------- MODULE HifiDriver -----------------------------
(***************************************************************************)
(* HifiDriver of crates/app-runtime/src/hifi.rs: what the background side  *)
(* polls, which covers it loads and what it remembers of them.  The struct *)
(* is a record and every method a function of it; what the device answers  *)
(* is an argument.  A poll that is due because the interval has passed is  *)
(* left to the caller, so the record has no clocks.                        *)
(***************************************************************************)
EXTENDS HifiStatus, Sequences

Covers == Uris \cup {NoUri}

Drivers ==
  [active : BOOLEAN, pollRequested : BOOLEAN, pinsFetched : BOOLEAN,
   lastArt : Covers,          \* last_artwork_uri
   pendingArt : Covers,       \* pending_artwork_uri
   prefetched : Option(Uris), \* prefetched_artwork
   prefetchedArt : Covers,    \* prefetched_artwork_uri
   pins : [Slots -> Option(Pins)],
   pinArt : [Slots -> Covers]]  \* pin_artwork_uris

NewDriver ==
  [active |-> FALSE, pollRequested |-> FALSE, pinsFetched |-> FALSE,
   lastArt |-> NoUri, pendingArt |-> NoUri,
   prefetched |-> None, prefetchedArt |-> NoUri,
   pins |-> NoPins, pinArt |-> [slot \in Slots |-> NoUri]]

(* What the driver sends the app. *)
StatusEvent(status)        == [kind |-> "Status", status |-> status]
ArtworkEvent(uri)          == [kind |-> "Artwork", uri |-> uri]
PinsEvent(pins)            == [kind |-> "Pins", pins |-> pins]
PinArtworkEvent(slot, uri) == [kind |-> "PinArtwork", slot |-> slot, uri |-> uri]

SetActive(d, active) ==
  IF d.active = active THEN d
  ELSE IF active THEN [d EXCEPT !.active = TRUE, !.pollRequested = TRUE]
  ELSE [d EXCEPT !.active = FALSE, !.pollRequested = FALSE, !.pendingArt = NoUri]

RequestStatusPoll(d) == [d EXCEPT !.pollRequested = TRUE]

ForgetCurrentTrackArtwork(d) ==
  [d EXCEPT !.lastArt = NoUri, !.pendingArt = NoUri]
-----------------------------------------------------------------------------
(* mark_track_changed, with the status predict_skip answered, or None.     *)

(* Is the cover of a predicted track decoded already? *)
CoverReady(d, status) ==
  status.art \notin {NoUri, d.lastArt} /\ d.prefetched = status.art

\* Mutated: the decoded cover is handed out and kept.
MarkTrackChangedKeeping(d, predicted) ==
  LET asked == RequestStatusPoll(d)
  IN  IF predicted = None THEN ForgetCurrentTrackArtwork(asked)
      ELSE IF predicted.art \in {NoUri, d.lastArt} THEN asked
      ELSE IF CoverReady(d, predicted)
      THEN [asked EXCEPT !.pendingArt = NoUri, !.lastArt = predicted.art,
                         !.prefetchedArt = NoUri]
      ELSE [asked EXCEPT !.pendingArt = predicted.art]

MarkTrackChanged(d, predicted) ==
  LET asked == RequestStatusPoll(d)
  IN  IF predicted = None THEN ForgetCurrentTrackArtwork(asked)
      ELSE IF predicted.art \in {NoUri, d.lastArt} THEN asked
      ELSE IF CoverReady(d, predicted)
      THEN [asked EXCEPT !.pendingArt = NoUri, !.lastArt = predicted.art,
                         !.prefetched = None, !.prefetchedArt = NoUri]
      ELSE [asked EXCEPT !.pendingArt = predicted.art]

\* Mutated: the decoded cover is taken and not sent.
TrackChangeEventsOfWords(d, predicted) ==
  IF predicted = None THEN <<>> ELSE <<StatusEvent(predicted)>>

TrackChangeEvents(d, predicted) ==
  IF predicted = None THEN <<>>
  ELSE IF CoverReady(d, predicted)
  THEN <<StatusEvent(predicted), ArtworkEvent(predicted.art)>>
  ELSE <<StatusEvent(predicted)>>
-----------------------------------------------------------------------------
(* The steps of a tick.                                                    *)

(* refresh_status, as poll_status_if_due calls it: the cover of a playing  *)
(* track is queued unless it is the one already loaded.                    *)
RefreshStatus(d, status) ==
  [d EXCEPT
     !.pendingArt = IF status.art = NoUri THEN NoUri
                    ELSE IF status.playback = "Playing" /\ status.art # d.lastArt
                    THEN status.art ELSE @,
     !.lastArt = IF status.art = NoUri THEN NoUri ELSE @,
     !.pollRequested = status.playback \in {"Unknown", "Buffering"}]

(* A poll that brought nothing, or an error, which is retried. *)
PollBrought(d, nothing) == [d EXCEPT !.pollRequested = (nothing = "Error")]

(* load_pending_artwork: the attempt is remembered, whatever comes of it.  *)
LoadPending(d) == [d EXCEPT !.lastArt = d.pendingArt, !.pendingArt = NoUri]

(* fetch_pins_if_needed: tried once, whatever comes of it. *)
TriedPins(d) == [d EXCEPT !.pinsFetched = TRUE]
FetchedPins(d, pins) == [TriedPins(d) EXCEPT !.pins = pins]

(* fetch_pin_artwork: the first slot whose cover has not been tried.  The  *)
(* slots are filled from the first on.                                     *)
PinCoverDue(d, slot) ==
  /\ d.pins[slot] # None
  /\ d.pins[slot].art \notin {NoUri, d.pinArt[slot]}
NextPinCover(d, slot) ==
  /\ PinCoverDue(d, slot)
  /\ \A earlier \in Slots : earlier < slot => ~PinCoverDue(d, earlier)
TriedPinCover(d, slot) == [d EXCEPT !.pinArt[slot] = d.pins[slot].art]

(* prefetch_next_artwork: the cover a skip forward would need, tried once. *)
PrefetchDue(d, uri) == d.active /\ uri \notin {d.prefetchedArt, d.lastArt}
PrefetchNextArtwork(d, uri, artwork) ==
  [d EXCEPT !.prefetchedArt = uri, !.prefetched = artwork]
=============================================================================
