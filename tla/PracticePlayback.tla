-------------------------- MODULE PracticePlayback --------------------------
(***************************************************************************)
(* The practice player of the result page.  A mode plays the audio of its  *)
(* source and, but for the original, drum sounds that are scheduled as     *)
(* timers on an audio context.  Starting is asynchronous, twice: the audio *)
(* element and then the context answer when the browser likes, and every   *)
(* click, timer, frame and media event may come in between.  Each start is *)
(* a session; what comes back to a session that is over must be undone.    *)
(*                                                                         *)
(* The panel is drawn from React state that a continuation sets before it  *)
(* is drawn, so a click may act on the panel of a moment ago (shown).      *)
(* Positions, volumes and messages are left out.                           *)
(***************************************************************************)
EXTENDS Naturals, FiniteSets

CONSTANTS
  Modes,      (* original, chart, accompaniment                             *)
  Rates,      (* the playback rates                                         *)
  MaxClicks   (* bound: clicks and new results                              *)

ASSUME PlaybackAssumption ==
  /\ "original" \in Modes
  /\ Modes \subseteq {"original", "chart", "accompaniment"}
  /\ 1 \in Rates
  /\ MaxClicks \in Nat

VARIABLES
  mounted,    (* the panel is on the page                                   *)
  available,  (* the modes whose sources the result has                     *)
  mode,
  rate,       (* playbackRate, as shown                                     *)
  shown,      (* whether the panel, as drawn, says that it plays            *)
  player,     (* the session and everything it holds                        *)
  clicks,
  hasty,      (* history: the sessions that started while the rate changed  *)
  leaked      (* history: the contexts that play was clicked over           *)

vars == <<mounted, available, mode, rate, shown, player, clicks, hasty, leaked>>
history == <<hasty, leaked>>

(* Sessions count from 1 and name the audio context they open.             *)
NoSession == 0
MaxSession == 5 * MaxClicks + 1

(* A start on its way: playFrom before it returns.                         *)
StartsOf(s) == [session : {s}, rate : Rates, mode : Modes, at : {"play", "resume"}]

(* What a result may bring, and the modes that it then offers: both that   *)
(* schedule drums need a timeline.                                         *)
Sources == {"original", "drums", "accompaniment", "timeline"}
Needs(m) ==
  CASE m = "original" -> {"original"}
    [] m = "chart" -> {"drums", "timeline"}
    [] m = "accompaniment" -> {"accompaniment", "timeline"}
PracticeModes(sources) == {m \in Modes : Needs(m) \subseteq sources}
Offers == {PracticeModes(sources) : sources \in SUBSET Sources}

TypeOK ==
  /\ mounted \in BOOLEAN
  /\ available \subseteq Modes
  /\ mode \in Modes
  /\ rate \in Rates
  /\ shown \in BOOLEAN
  /\ player.playing \in BOOLEAN
  /\ player.session \in 0..MaxSession
  /\ player.frame \in 0..MaxSession
  /\ player.context \in 0..MaxSession
  /\ player.contexts \subseteq 0..MaxSession
  /\ player.starts \subseteq UNION {StartsOf(s) : s \in 1..MaxSession}
  /\ player.timers \subseteq
       [kind : {"chart", "replay"}, session : 0..MaxSession, rate : Rates]
  /\ player.audio \in [playing : BOOLEAN, rate : Rates, event : {"none", "ended", "error"}]
  /\ clicks \in 0..MaxClicks
  /\ hasty \subseteq 1..MaxSession
  /\ leaked \subseteq 1..MaxSession

Init ==
  /\ mounted = TRUE
  /\ available \in Offers
  /\ mode \in IF available = {} THEN {"original"} ELSE available
  /\ rate = 1
  /\ shown = FALSE
  /\ player = [ playing |-> FALSE, session |-> NoSession, timers |-> {}, frame |-> NoSession,
                starts |-> {}, contexts |-> {}, context |-> NoSession,
                audio |-> [playing |-> FALSE, rate |-> 1, event |-> "none"] ]
  /\ clicks = 0
  /\ hasty = {}
  /\ leaked = {}

-----------------------------------------------------------------------------
(* What the functions of the panel do to the player p.                     *)

(* clearScheduled                                                          *)
Cleared(p) == [p EXCEPT !.timers = {}, !.frame = NoSession]

(* stop                                                                    *)
Stopped(p) ==
  [Cleared(p) EXCEPT !.session = @ + 1, !.playing = FALSE, !.audio.playing = FALSE,
     !.contexts = @ \ {p.context}, !.context = NoSession]

(* playFrom until the audio element is asked to play.  A new source drops  *)
(* the events of the old one.                                              *)
Asked(p, m, r) ==
  LET s == p.session + 1 IN
  [Cleared(p) EXCEPT !.session = s,
     !.audio = [playing |-> TRUE, rate |-> r, event |-> "none"],
     !.starts = @ \cup {[session |-> s, rate |-> r, mode |-> m, at |-> "play"]}]

(* The last part of playFrom: the chart, the frame loop, setPlaying.       *)
Begun(p, st) ==
  [p EXCEPT !.playing = TRUE, !.frame = st.session,
     !.timers = @ \cup (IF st.mode = "original" THEN {}
                        ELSE {[kind |-> "chart", session |-> st.session, rate |-> st.rate]})]

(* isCurrentPlaybackSession                                                *)
IsCurrent(p, st) == p.session = st.session

(* cleanupFailedChartStart, for a start whose context is c.                *)
ChartFailed(p, st, c) ==
  IF ~IsCurrent(p, st) THEN [p EXCEPT !.contexts = @ \ {c}]
  ELSE [Cleared(p) EXCEPT !.playing = FALSE, !.audio.playing = FALSE,
          !.contexts = IF p.context = c THEN @ \ {c} ELSE @,
          !.context = IF @ = c THEN NoSession ELSE @]

(* What becomes of the rate effect: the audio element gets the new rate.   *)
AtRate(p, r) == IF r = rate THEN p ELSE [p EXCEPT !.audio.rate = r]

-----------------------------------------------------------------------------
(* Clicks.  The panel is drawn again before the next one.                  *)

Clickable == mounted /\ available # {} /\ clicks < MaxClicks

Click(p) ==
  /\ Clickable
  /\ player' = p
  /\ shown' = p.playing
  /\ clicks' = clicks + 1
  /\ UNCHANGED <<mounted, available>>

(* The session that plays, or will, while the panel does not say so.       *)
Unseen ==
  IF shown THEN {}
  ELSE IF \E t \in player.timers : t.kind = "replay" THEN {player.session + 1}
  ELSE {player.session} \ {NoSession}

Replay(p, r) == [p EXCEPT !.timers =
                   @ \cup {[kind |-> "replay", session |-> p.session, rate |-> r]}]

PressPlay ==
  /\ Click(IF shown THEN Stopped(player) ELSE Asked(player, mode, rate))
  /\ leaked' = IF player.playing /\ ~shown
               THEN leaked \cup ({player.context} \ {NoSession}) ELSE leaked
  /\ UNCHANGED <<mode, rate, hasty>>

PressReplay ==
  /\ Click(Replay(Stopped(player), rate))
  /\ UNCHANGED <<mode, rate, history>>

PickMode(m) ==
  /\ m \in available
  /\ Click(Stopped(player))
  /\ mode' = m
  /\ UNCHANGED <<rate, history>>

(* seek stops what plays; otherwise it only moves the position.            *)
Seek ==
  /\ shown
  /\ Click(Stopped(player))
  /\ UNCHANGED <<mode, rate, history>>

(* Deviation: the playback restarts at the rate it had.                    *)
ChangeRateOld(r) ==
  /\ shown \/ r # rate
  /\ Click(AtRate(IF shown THEN Replay(Stopped(player), rate) ELSE player, r))
  /\ rate' = r
  /\ hasty' = hasty \cup Unseen
  /\ UNCHANGED <<mode, leaked>>

(* changeRate: what plays, as drawn, is stopped and started anew; what is  *)
(* about to play is not.                                                   *)
ChangeRate(r) ==
  /\ shown \/ r # rate
  /\ Click(AtRate(IF shown THEN Replay(Stopped(player), r) ELSE player, r))
  /\ rate' = r
  /\ hasty' = hasty \cup Unseen
  /\ UNCHANGED <<mode, leaked>>

(* The result changes: another job, another candidate, or other sources of *)
(* the same one.  The effects stop the player for a new key or a mode that *)
(* is gone, choose a mode, and reset the rate for a new job.               *)
NewResult ==
  /\ mounted /\ clicks < MaxClicks
  /\ \E modes \in Offers, change \in {"sources", "candidate", "job"} :
       /\ available' = modes
       /\ mode' \in IF mode \in modes THEN {mode}
                    ELSE IF modes = {} THEN {"original"} ELSE modes
       /\ rate' = IF change = "job" THEN 1 ELSE rate
       /\ player' = IF change = "sources" /\ mode \in modes THEN player
                    ELSE AtRate(Stopped(player), rate')
  /\ shown' = player'.playing
  /\ clicks' = clicks + 1
  /\ UNCHANGED <<mounted, history>>

Unmount ==
  /\ mounted
  /\ mounted' = FALSE
  /\ player' = [Stopped(player) EXCEPT !.context = player.context,
                                       !.playing = player.playing]
  /\ UNCHANGED <<available, mode, rate, shown, clicks, history>>

-----------------------------------------------------------------------------
(* What the browser calls back.                                            *)

Quiet == UNCHANGED <<mounted, available, mode, rate, shown, clicks, history>>

(* audio.play() is fulfilled.  The drums then need a context: there may be *)
(* no such thing in this browser, and making one may fail.                 *)
PlayResolves(st) ==
  LET p == [player EXCEPT !.starts = @ \ {st}] IN
  /\ st \in player.starts /\ st.at = "play"
  /\ \/ ~IsCurrent(p, st) /\ player' = p
     \/ IsCurrent(p, st) /\ st.mode = "original" /\ player' = Begun(p, st)
     \/ /\ IsCurrent(p, st) /\ st.mode # "original"
        /\ \/ player' = Stopped(p)
           \/ player' = ChartFailed(p, st, NoSession)
           \/ player' = [p EXCEPT !.contexts = @ \cup {st.session},
                !.context = st.session, !.starts = @ \cup {[st EXCEPT !.at = "resume"]}]
  /\ Quiet

(* audio.play() is rejected: by the browser, or as a pause or a new source *)
(* came first.                                                             *)
PlayRejects(st) ==
  LET p == [player EXCEPT !.starts = @ \ {st}] IN
  /\ st \in player.starts /\ st.at = "play"
  /\ player' = IF IsCurrent(p, st)
               THEN [Cleared(p) EXCEPT !.audio.playing = FALSE, !.playing = FALSE] ELSE p
  /\ Quiet

(* Deviation: the context of a session that is over is forgotten.          *)
ResumeResolvesBare(st) ==
  LET p == [player EXCEPT !.starts = @ \ {st}] IN
  /\ st \in player.starts /\ st.at = "resume"
  /\ player' = IF IsCurrent(p, st) THEN Begun(p, st) ELSE p
  /\ Quiet

(* context.resume() is fulfilled.                                          *)
ResumeResolves(st) ==
  LET p == [player EXCEPT !.starts = @ \ {st}] IN
  /\ st \in player.starts /\ st.at = "resume"
  /\ player' = IF IsCurrent(p, st) THEN Begun(p, st)
               ELSE [p EXCEPT !.contexts = @ \ {st.session}]
  /\ Quiet

ResumeRejects(st) ==
  LET p == [player EXCEPT !.starts = @ \ {st}] IN
  /\ st \in player.starts /\ st.at = "resume"
  /\ player' = ChartFailed(p, st, st.session)
  /\ Quiet

(* The timer after a stop starts again, if nothing else happened.          *)
ReplayTimer(t) ==
  LET p == [player EXCEPT !.timers = @ \ {t}] IN
  /\ t \in player.timers /\ t.kind = "replay"
  /\ player' = IF IsCurrent(p, t) THEN Asked(p, mode, t.rate) ELSE p
  /\ Quiet

(* The last drum of the chart has sounded.                                 *)
ChartEnds(t) ==
  /\ t \in player.timers /\ t.kind = "chart"
  /\ player' = [player EXCEPT !.timers = @ \ {t}]
  /\ Quiet

(* Deviation: only the end of the audio stops the frame loop.              *)
FrameAtEnd ==
  /\ player.frame # NoSession
  /\ ~player.audio.playing /\ player.audio.event = "ended"
  /\ player' = Stopped(player)
  /\ Quiet

(* updateTime: a frame after the audio has stopped stops everything.       *)
Frame ==
  /\ player.frame # NoSession
  /\ ~player.audio.playing
  /\ player' = Stopped(player)
  /\ Quiet

(* The audio ends, breaks or is paused from outside the page.              *)
AudioStops ==
  /\ mounted /\ player.audio.playing
  /\ \E e \in {"none", "ended", "error"} :
       player' = [player EXCEPT !.audio.playing = FALSE, !.audio.event = e]
  /\ Quiet

(* onEnded, onError                                                        *)
MediaEvent ==
  /\ mounted /\ player.audio.event # "none"
  /\ player' = [Stopped(player) EXCEPT !.audio.event = "none"]
  /\ Quiet

Draw ==
  /\ mounted /\ shown # player.playing
  /\ shown' = player.playing
  /\ UNCHANGED <<mounted, available, mode, rate, player, clicks, history>>

-----------------------------------------------------------------------------
Next ==
  \/ PressPlay \/ PressReplay \/ Seek \/ NewResult \/ Unmount
  \/ \E m \in Modes : PickMode(m)
  \/ \E r \in Rates : ChangeRate(r)
  \/ \E st \in player.starts :
       PlayResolves(st) \/ PlayRejects(st) \/ ResumeResolves(st) \/ ResumeRejects(st)
  \/ \E t \in player.timers : ReplayTimer(t) \/ ChartEnds(t)
  \/ Frame \/ AudioStops \/ MediaEvent \/ Draw

Spec == Init /\ [][Next]_vars

(* The browser draws frames of a page that is open.                        *)
FairSpec == Spec /\ WF_vars(Frame) /\ WF_vars(Draw)

-----------------------------------------------------------------------------
(* Nothing outlives its session, however starts, stops, other results and  *)
(* failures interleave: every timer and the frame loop are of the session  *)
(* that is current, drums have their context open, the audio plays only    *)
(* for a session that plays or is being started, what plays is watched by  *)
(* the frame loop that stops it, and an audio context that is open is the  *)
(* one that plays or that of a start that will answer.  Excepted is the    *)
(* context that plays when play is clicked before the panel says so: it    *)
(* stays open.                                                             *)
NothingOutlivesItsSession ==
  LET awaited == \E st \in player.starts : IsCurrent(player, st) IN
  /\ \A t \in player.timers :
       /\ IsCurrent(player, t)
       /\ t.kind = "chart" => t.session \in player.contexts /\ player.playing
  /\ player.frame \in {NoSession, player.session}
  /\ player.audio.playing => awaited \/ player.frame = player.session
  /\ mounted /\ player.playing => awaited \/ player.frame = player.session
  /\ \A c \in player.contexts \ leaked :
       \/ player.playing /\ player.frame = c
       \/ \E st \in player.starts : st.session = c

(* Drums and audio keep together: a session that plays has its chart laid  *)
(* out at the rate of the audio element, which is the rate that is shown.  *)
(* Excepted are sessions whose rate was changed while they were starting:  *)
(* the audio gets the new rate, and the chart keeps the old one.           *)
RatesAgree ==
  player.frame \notin {NoSession} \cup hasty =>
    /\ player.audio.rate = rate
    /\ \A t \in player.timers : t.kind = "chart" => t.rate = rate

(* When the audio of a session that plays has stopped, for whatever        *)
(* reason, the panel comes to say so or another session is started.        *)
PlaybackStops ==
  (mounted /\ player.frame # NoSession /\ ~player.audio.playing)
    ~> (~mounted \/ (shown = player.playing /\ (shown => player.audio.playing)))
=============================================================================
