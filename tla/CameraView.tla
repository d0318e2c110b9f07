----------------------------- MODULE CameraView ------------------------------
(***************************************************************************)
(* The camera tab of the page (components/CameraView.tsx) in front of the  *)
(* backend process of Service: an <img> that either holds an MJPEG         *)
(* connection or is reloaded by an interval, while the process comes and   *)
(* goes.  Frame rate, flipping, fitting and the editable URLs are left     *)
(* out; every change of a URL that matters is a new load.                  *)
(***************************************************************************)
EXTENDS Service

VARIABLES
  mounted,    \* the camera tab is open
  mode,       \* cameraMode
  auto,       \* autoRefresh
  intervals,  \* intervals running in the page
  timer,      \* refreshTimer.current refers to the newest of them
  img,        \* what the <img> does, and the process it has its picture from
  message     \* the error line is displayed

view == <<mounted, mode, auto, intervals, timer, img, message>>
vars == <<service, view>>

Image(phase, boot) == [phase |-> phase, boot |-> boot]
Blank   == Image("blank", 0)
Loading == Image("loading", 0)
Broken  == Image("broken", 0)

ViewInit ==
  /\ mounted = FALSE /\ mode = "stream" /\ auto = TRUE
  /\ intervals = 0 /\ timer = FALSE
  /\ img = Blank /\ message = FALSE

-----------------------------------------------------------------------------
\* Fault: the effect returns no cleanup.
ClearedNever == intervals

\* The cleanup of the effect: clearInterval, if the ref holds an interval.
Cleared == IF timer THEN intervals - 1 ELSE intervals

(* The effect runs again, after the cleanup of its last run, when the tab  *)
(* is opened or the mode, the check box or the period has changed; when    *)
(* the tab is left the cleanup is all.                                     *)
Effect(polls) ==
  /\ timer' = polls
  /\ intervals' = IF polls THEN Cleared + 1 ELSE Cleared

OpenTab ==
  /\ ~mounted
  /\ mounted' = TRUE /\ mode' = "stream" /\ auto' = TRUE
  /\ Effect(FALSE)
  /\ img' = Loading /\ message' = FALSE

LeaveTab ==
  /\ mounted
  /\ mounted' = FALSE
  /\ timer' = FALSE /\ intervals' = Cleared
  /\ img' = Blank
  /\ UNCHANGED <<mode, auto, message>>

\* The other mode is another src; a new period changes neither m nor a.
Configure(m, a) ==
  /\ mounted
  /\ mode = "stream" => a = auto
  /\ mode' = m /\ auto' = a
  /\ Effect(m = "snapshot" /\ a)
  /\ img' = IF m = mode THEN img ELSE Loading
  /\ UNCHANGED <<mounted, message>>

\* setCacheBust, by the interval or the button: the src changes, and a load
\* that is still under way is aborted.
Reload(m) ==
  /\ mounted /\ mode = m
  /\ img' = Loading
  /\ UNCHANGED <<mounted, mode, auto, intervals, timer, message>>

Poll    == intervals > 0 /\ Reload("snapshot")
Refresh == Reload("snapshot")

\* Fault: the stream is asked for under the URL it has.
ReconnectSame ==
  /\ mounted /\ mode = "stream"
  /\ UNCHANGED view

\* Another query is appended, so that the browser connects anew.
Reconnect == Reload("stream")

(* The browser.  A snapshot is there once a frame is, else it is refused   *)
(* with 503; a stream has its first part once a frame is there.            *)
Loads ==
  /\ img.phase = "loading"
  /\ proc = "serving" /\ frame
  /\ img' = Image("shown", boots)
  /\ UNCHANGED <<mounted, mode, auto, intervals, timer, message>>

\* Fault: an error ends the polling.
LoadFailsForGood ==
  /\ img.phase = "loading"
  /\ img' = Broken
  /\ message' = TRUE
  /\ intervals' = 0 /\ timer' = FALSE
  /\ UNCHANGED <<mounted, mode, auto>>

\* onImgError: no process, no frame, or the network; nothing clears message.
LoadFails ==
  /\ img.phase = "loading"
  /\ img' = Broken
  /\ message' = TRUE
  /\ UNCHANGED <<mounted, mode, auto, intervals, timer>>

\* The process of a stream has ended: the last picture stays, the browser may
\* report an error, and nothing connects again.
StreamEnds ==
  /\ mode = "stream" /\ img.phase = "shown"
  /\ proc # "serving" \/ img.boot # boots
  /\ img' = Broken
  /\ message' \in {message, TRUE}
  /\ UNCHANGED <<mounted, mode, auto, intervals, timer>>

ViewNext ==
  \/ OpenTab \/ LeaveTab
  \/ \E m \in {"stream", "snapshot"}, a \in BOOLEAN : Configure(m, a)
  \/ Poll \/ Refresh \/ Reconnect
  \/ Loads \/ LoadFails \/ StreamEnds

PageInit == Init /\ ViewInit

PageNext ==
  \/ ServiceNext /\ UNCHANGED view
  \/ ViewNext /\ UNCHANGED service

(* An interval goes on ticking, and the browser ends a load that it can    *)
(* begin again and again: the period is longer than most loads take.       *)
ViewFairness ==
  /\ WF_vars(Poll /\ UNCHANGED service)
  /\ SF_vars(Loads /\ UNCHANGED service)

PageSpec == PageInit /\ [][PageNext]_vars /\ HandlerFairness /\ ViewFairness

-----------------------------------------------------------------------------
(* Whatever modes, periods and tabs the operator goes through, there is    *)
(* one interval while snapshots are to be refreshed, and none otherwise:   *)
(* none is left behind to load the backend, none is lost.                  *)
OnePoller ==
  intervals = IF mounted /\ mode = "snapshot" /\ auto THEN 1 ELSE 0

\* The picture comes from the process that is serving now.
Shown == img.phase = "shown" /\ proc = "serving" /\ img.boot = boots

(* After a restart, a lost load or a 503, a polled snapshot shows the      *)
(* camera again, by itself.                                                *)
PollRecovers ==
  <>[](mounted /\ mode = "snapshot" /\ auto /\ proc = "serving" /\ frame)
    => []<>Shown

(* A stream does not; it does when the operator asks for it whenever there *)
(* is no picture on its way.                                               *)
ReconnectRecovers ==
  WF_vars(Reconnect /\ UNCHANGED service)
    /\ <>[](mounted /\ mode = "stream" /\ proc = "serving" /\ frame)
    => []<>Shown
=============================================================================
