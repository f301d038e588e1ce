------------------------------ MODULE Streaming ------------------------------
(***************************************************************************)
(* ResilientCapture and FrameBuffer (cv_engine/streaming of the CV engine) *)
(* as a camera worker uses them: one thread at a time is in read(), and    *)
(* close() is called on the event loop.                                    *)
(*                                                                         *)
(* A step of read() is what it does under one hold of the lock, or one     *)
(* call of the native library outside it.  A native read happens under the *)
(* lock, so close() waits for it and the read is one step.  Connect        *)
(* generations are compared for equality with the latest only, and         *)
(* "current" says whether the read in progress has the latest.             *)
(***************************************************************************)
EXTENDS Naturals

VARIABLES handle,     \* _cap: a native capture, or None
          shut,       \* _closed, set with _stop_event
          current,    \* the generation read() drew is _connect_generation
          delayed,    \* _next_reconnect_at is in the future
          rd,         \* where read() is, or the result it returned
          held,       \* the native capture a local variable of read() holds, or None
          live,       \* history: native captures constructed and not released
          frame       \* newest frame: "none", "new" to its consumer, or "seen"

captureVars == <<handle, shut, current, delayed, rd, held, live>>

None    == 0
Natives == 1..3
Results == {"frame", "nothing", "raises"}

StreamingInit ==
  /\ handle = None /\ shut = FALSE /\ current = FALSE /\ delayed = FALSE
  /\ rd = "idle" /\ held = None /\ live = {} /\ frame = "none"

-----------------------------------------------------------------------------
(* ResilientCapture.read.                                                  *)

\* The first hold of the lock, and the wait for the reconnect delay.
ReadBegins ==
  /\ rd = "begin"
  /\ rd' = IF shut THEN "nothing" ELSE IF delayed THEN "delay" ELSE "check"
  /\ UNCHANGED <<handle, shut, current, delayed, held, live>>

DelayEnds ==
  /\ rd = "delay"
  /\ IF shut THEN rd' = "nothing" /\ UNCHANGED delayed
     ELSE rd' = "begin" /\ delayed' = FALSE
  /\ UNCHANGED <<handle, shut, current, held, live>>

\* The second hold: a capture that is missing, or not open any more, is
\* taken out and a new generation begins.
Checks ==
  /\ rd = "check"
  /\ \/ /\ shut
        /\ rd' = "nothing" /\ UNCHANGED <<handle, current, held>>
     \/ /\ ~shut
        /\ rd' = "stale" /\ held' = handle /\ handle' = None /\ current' = TRUE
     \/ /\ ~shut /\ handle # None
        /\ rd' = "read" /\ UNCHANGED <<handle, current, held>>
  /\ UNCHANGED <<shut, delayed, live>>

\* Variant with a bug: the capture that is not open any more is overwritten.
ForgetsStale ==
  /\ rd = "stale"
  /\ rd' = "connect" /\ held' = None
  /\ UNCHANGED <<handle, shut, current, delayed, live>>

ReleasesStale ==
  /\ rd = "stale"
  /\ rd' = "connect" /\ held' = None /\ live' = live \ {held}
  /\ UNCHANGED <<handle, shut, current, delayed>>

\* The factory constructs a candidate, open or not, or raises.
Constructs ==
  /\ rd = "connect"
  /\ \/ /\ rd' \in {"opened", "unopened"}
        /\ held' = CHOOSE n \in Natives : n \notin live
        /\ live' = live \cup {held'}
     \/ rd' = "raises" /\ UNCHANGED <<held, live>>
  /\ UNCHANGED <<handle, shut, current, delayed>>

\* Variant with a bug: a candidate that is late is installed all the same.
InstallsLate ==
  /\ rd \in {"opened", "unopened"}
  /\ IF rd = "opened"
     THEN /\ handle' = held /\ held' = handle /\ rd' = "replaced"
          /\ UNCHANGED delayed
     ELSE /\ delayed' = (delayed \/ (current /\ ~shut)) /\ rd' = "drop"
          /\ UNCHANGED <<handle, held>>
  /\ UNCHANGED <<shut, current, live>>

\* The candidate replaces the capture, unless close() came first.
Installs ==
  /\ rd \in {"opened", "unopened"}
  /\ IF rd = "opened" /\ ~shut /\ current
     THEN /\ handle' = held /\ held' = handle /\ rd' = "replaced"
          /\ UNCHANGED delayed
     ELSE /\ delayed' = (delayed \/ (current /\ ~shut)) /\ rd' = "drop"
          /\ UNCHANGED <<handle, held>>
  /\ UNCHANGED <<shut, current, live>>

ReleasesReplaced ==
  /\ rd = "replaced"
  /\ rd' = "read" /\ held' = None /\ live' = live \ {held}
  /\ UNCHANGED <<handle, shut, current, delayed>>

\* The third hold: the native read gives a frame, gives none, or raises.
Reads ==
  /\ rd = "read"
  /\ \/ /\ shut \/ handle = None
        /\ rd' = "nothing" /\ UNCHANGED <<handle, delayed, held>>
     \/ /\ ~shut /\ handle # None
        /\ rd' \in {"frame", "raises"} /\ UNCHANGED <<handle, delayed, held>>
     \/ /\ ~shut /\ handle # None
        /\ rd' = "drop" /\ held' = handle /\ handle' = None /\ delayed' = TRUE
  /\ UNCHANGED <<shut, current, live>>

\* The candidate that was not installed, or the capture that failed, goes.
Drops ==
  /\ rd = "drop"
  /\ rd' = "nothing" /\ held' = None /\ live' = live \ {held}
  /\ UNCHANGED <<handle, shut, current, delayed>>

Read ==
  \/ ReadBegins \/ DelayEnds \/ Checks \/ ReleasesStale \/ Constructs \/ Installs
  \/ ReleasesReplaced \/ Reads \/ Drops

\* ResilientCapture.close; whatever read() holds is left to read().
Close ==
  /\ shut' = TRUE /\ current' = FALSE
  /\ handle' = None /\ live' = live \ {handle}
  /\ UNCHANGED <<delayed, rd, held>>

-----------------------------------------------------------------------------
(* FrameBuffer with one consumer, who passes the sequence of the frame it  *)
(* took last: older frames are never read, and a frame is put aside for    *)
(* good when a newer one arrives.                                          *)

PutFrame == frame' = "new"

\* wait_for_frame_with_sequence finds a frame newer than the consumer's last.
TakesFrame == frame = "new" /\ frame' = "seen"

ClearFrames == frame' = "none"

-----------------------------------------------------------------------------
(* Properties.                                                             *)

\* Type correctness of the capture and the buffer.
StreamingTypeOK ==
  /\ {handle, held} \subseteq Natives \cup {None} /\ live \subseteq Natives
  /\ {shut, current, delayed} \subseteq BOOLEAN
  /\ rd \in Results \cup {"idle", "begin", "delay", "check", "stale", "connect", "opened",
                          "unopened", "replaced", "read", "drop"}
  /\ frame \in {"none", "new", "seen"}

\* Every native capture has one owner, _cap or a local of read(), through
\* reconnects, failed connects and a close() in between: none is leaked, none
\* is released twice or used after its release.
NativesOwned ==
  /\ live = {handle, held} \ {None}
  /\ handle # None => handle # held
=============================================================================
