------------------------ MODULE PracticePlaybackProofs ------------------------
(***************************************************************************)
(* What holds of the practice player for all modes and rates and however   *)
(* many clicks.                                                            *)
(***************************************************************************)
EXTENDS PracticePlayback, TLAPS

(***************************************************************************)
(* The inductive invariant, of a player p.                                 *)
(***************************************************************************)
StartType == [session : Nat, rate : Rates, mode : Modes, at : {"play", "resume"}]
TimerType == [kind : {"chart", "replay"}, session : Nat, rate : Rates]
AudioType == [playing : BOOLEAN, rate : Rates, event : {"none", "ended", "error"}]
PlayerType ==
  [playing : BOOLEAN, session : Nat, timers : SUBSET TimerType, frame : Nat,
   starts : SUBSET StartType, contexts : SUBSET Nat, context : Nat, audio : AudioType]

(* A start of the session that is current is on its way.                   *)
Awaited(p) == \E st \in p.starts : st.session = p.session

(* Every session has one start at most; one that waits for the audio has   *)
(* no context yet, the current one that waits for its context has it, and  *)
(* until it begins nothing is scheduled.                                   *)
StartsInv(p) ==
  /\ \A st \in p.starts :
       /\ st.session \in 1..p.session
       /\ st.at = "play" => st.session \notin p.contexts
       /\ st.at = "resume" /\ st.session = p.session =>
            p.context = p.session /\ p.session \in p.contexts
  /\ \A st, other \in p.starts : st.session = other.session => st = other
  /\ Awaited(p) => p.frame = NoSession /\ p.timers = {}

(* What is scheduled belongs to the session that is current; a session     *)
(* that waits to be replayed has nothing else.                             *)
TimersInv(p) ==
  /\ \A t \in p.timers :
       /\ t.session = p.session
       /\ t.kind = "chart" => t.session \in p.contexts /\ p.playing /\ p.frame = p.session
       /\ t.kind = "replay" => ~p.playing /\ p.frame = NoSession
  /\ p.frame \in {NoSession, p.session}
  /\ p.audio.playing => Awaited(p) \/ p.frame = p.session

(* A context that is open is the one that plays, in the player's hands, or *)
(* that of a start, or it was leaked.                                      *)
ContextsInv(p, gone) ==
  /\ p.contexts \subseteq 1..p.session
  /\ \A c \in p.contexts \ gone :
       \/ p.playing /\ p.frame = c
       \/ \E st \in p.starts : st.session = c
  /\ p.frame # NoSession /\ p.frame \in p.contexts => p.context = p.frame

(* What plays, is about to play, or waits to be replayed, does so at the   *)
(* rate r, but for the sessions in h.                                      *)
RateInv(p, r, h) ==
  /\ p.frame \notin {NoSession} \cup h =>
       p.audio.rate = r /\ \A t \in p.timers : t.kind = "chart" => t.rate = r
  /\ \A st \in p.starts :
       st.session = p.session /\ p.session \notin h => st.rate = r /\ p.audio.rate = r
  /\ \A t \in p.timers : t.kind = "replay" /\ p.session + 1 \notin h => t.rate = r

Inv ==
  /\ player \in PlayerType /\ rate \in Rates /\ mode \in Modes /\ available \subseteq Modes
  /\ mounted \in BOOLEAN
  /\ StartsInv(player) /\ TimersInv(player) /\ ContextsInv(player, leaked)
  /\ RateInv(player, rate, hasty)
  /\ mounted /\ player.playing => Awaited(player) \/ player.frame = player.session
  /\ ~mounted => /\ player.timers = {} /\ player.frame = NoSession /\ ~Awaited(player)
                 /\ ~player.audio.playing

-----------------------------------------------------------------------------
(* What the functions of the panel leave behind.                           *)

PlayerInv(p, r, gone, h) ==
  /\ p \in PlayerType
  /\ StartsInv(p) /\ TimersInv(p) /\ ContextsInv(p, gone) /\ RateInv(p, r, h)

(* Nothing is scheduled and nothing is about to play.                      *)
AtRest(p) == p.timers = {} /\ p.frame = NoSession /\ ~Awaited(p) /\ ~p.audio.playing

LEMMA StoppedFields ==
  ASSUME NEW p \in PlayerType
  PROVE  /\ Stopped(p) \in PlayerType
         /\ Stopped(p).session = p.session + 1 /\ Stopped(p).playing = FALSE
         /\ Stopped(p).timers = {} /\ Stopped(p).frame = NoSession
         /\ Stopped(p).starts = p.starts /\ Stopped(p).contexts = p.contexts \ {p.context}
         /\ Stopped(p).context = NoSession
         /\ Stopped(p).audio.playing = FALSE /\ Stopped(p).audio.rate = p.audio.rate
<1> DEFINE q == [p EXCEPT !.timers = {}, !.frame = NoSession]
<1>1. q \in PlayerType /\ q.session = p.session /\ q.starts = p.starts /\ q.contexts = p.contexts
      /\ q.context = p.context /\ q.audio = p.audio /\ q.timers = {} /\ q.frame = NoSession
  BY DEF PlayerType, NoSession
<1> DEFINE s == p.session + 1
           a == [p.audio EXCEPT !.playing = FALSE]
           cs == p.contexts \ {p.context}
<1>2. a \in AudioType /\ a.rate = p.audio.rate /\ a.playing = FALSE
  BY DEF PlayerType, AudioType
<1>3. s \in Nat /\ cs \in SUBSET Nat /\ NoSession \in Nat
  BY DEF PlayerType, NoSession
<1>4. Stopped(p) = [q EXCEPT !.session = s, !.playing = FALSE, !.audio = a,
                      !.contexts = cs, !.context = NoSession]
  BY <1>1 DEF Stopped, Cleared
<1> HIDE DEF q, s, a, cs
<1>5. /\ Stopped(p).session = s /\ Stopped(p).playing = FALSE
      /\ Stopped(p).timers = {} /\ Stopped(p).frame = NoSession
      /\ Stopped(p).starts = p.starts /\ Stopped(p).contexts = cs
      /\ Stopped(p).context = NoSession /\ Stopped(p).audio = a
  BY <1>1, <1>4 DEF PlayerType
<1>6. Stopped(p) \in PlayerType
  BY <1>1, <1>2, <1>3, <1>4 DEF PlayerType
<1> QED BY <1>2, <1>5, <1>6 DEF s, a, cs

LEMMA StoppedRests ==
  ASSUME NEW p \in PlayerType, NEW gone, NEW r, NEW h, StartsInv(p), ContextsInv(p, gone)
  PROVE  PlayerInv(Stopped(p), r, gone, h) /\ AtRest(Stopped(p)) /\ ~Stopped(p).playing
<1> DEFINE q == Stopped(p)
<1>1. /\ q \in PlayerType /\ q.session = p.session + 1 /\ ~q.playing
      /\ q.timers = {} /\ q.frame = NoSession
      /\ q.starts = p.starts /\ q.contexts = p.contexts \ {p.context}
      /\ ~q.audio.playing
  BY StoppedFields
<1> HIDE DEF q
<1>2. p.session \in Nat
  BY DEF PlayerType
<1>3. \A st \in q.starts : st.session \in 1..q.session /\ st.session # q.session
  BY <1>1, <1>2 DEF StartsInv
<1>4. ~Awaited(q)
  BY <1>3 DEF Awaited
<1>5. StartsInv(q)
  BY <1>1, <1>3, <1>4 DEF StartsInv
<1>6. TimersInv(q)
  BY <1>1 DEF TimersInv
<1>7. ContextsInv(q, gone)
  <2>1. q.contexts \subseteq 1..q.session
    BY <1>1, <1>2 DEF ContextsInv
  <2>2. ASSUME NEW c \in q.contexts \ gone PROVE \E st \in q.starts : st.session = c
    <3>1. ~(p.playing /\ p.frame = c)
      BY <1>1, <1>2 DEF ContextsInv, NoSession
    <3> QED BY <1>1, <3>1 DEF ContextsInv
  <2> QED BY <1>1, <2>1, <2>2 DEF ContextsInv
<1>8. RateInv(q, r, h)
  BY <1>1, <1>3 DEF RateInv
<1> QED BY <1>1, <1>4, <1>5, <1>6, <1>7, <1>8 DEF PlayerInv, AtRest, q

LEMMA AskedFields ==
  ASSUME NEW p \in PlayerType, NEW m \in Modes, NEW r \in Rates
  PROVE  LET st == [session |-> p.session + 1, rate |-> r, mode |-> m, at |-> "play"]
             q == Asked(p, m, r)
         IN /\ q \in PlayerType /\ q.session = p.session + 1 /\ q.playing = p.playing
            /\ q.timers = {} /\ q.frame = NoSession
            /\ q.starts = p.starts \cup {st} /\ q.contexts = p.contexts
            /\ q.context = p.context /\ q.audio.rate = r
<1> DEFINE st == [session |-> p.session + 1, rate |-> r, mode |-> m, at |-> "play"]
           q == [p EXCEPT !.timers = {}, !.frame = NoSession]
<1>1. q \in PlayerType /\ q.session = p.session /\ q.starts = p.starts /\ q.contexts = p.contexts
      /\ q.context = p.context /\ q.timers = {} /\ q.frame = NoSession /\ q.playing = p.playing
  BY DEF PlayerType, NoSession
<1> DEFINE s == p.session + 1
           a == [playing |-> TRUE, rate |-> r, event |-> "none"]
           sts == p.starts \cup {st}
<1>2. Asked(p, m, r) = [q EXCEPT !.session = s, !.audio = a, !.starts = sts]
  BY <1>1 DEF Asked, Cleared
<1>3. s \in Nat
  BY DEF PlayerType
<1>4. a \in AudioType /\ a.rate = r
  BY DEF AudioType
<1>5. sts \in SUBSET StartType
  <2>1. st \in StartType
    BY <1>3 DEF StartType
  <2> QED BY <2>1 DEF PlayerType
<1> HIDE DEF q, st, s, a, sts
<1>6. /\ Asked(p, m, r).session = s /\ Asked(p, m, r).playing = p.playing
      /\ Asked(p, m, r).timers = {} /\ Asked(p, m, r).frame = NoSession
      /\ Asked(p, m, r).starts = sts /\ Asked(p, m, r).contexts = p.contexts
      /\ Asked(p, m, r).context = p.context /\ Asked(p, m, r).audio = a
  BY <1>1, <1>2 DEF PlayerType
<1>7. Asked(p, m, r) \in PlayerType
  BY <1>1, <1>2, <1>3, <1>4, <1>5 DEF PlayerType
<1> QED BY <1>4, <1>6, <1>7 DEF s, st, sts

(* A new session starts; what played without being seen loses its context. *)
LEMMA AskedAwaited ==
  ASSUME NEW p \in PlayerType, NEW m \in Modes, NEW rp \in Rates, NEW gone, NEW more, NEW r, NEW h,
         StartsInv(p), ContextsInv(p, gone),
         p.playing /\ p.frame \in p.contexts /\ p.frame # NoSession => p.context \in more,
         p.session + 1 \notin h => rp = r
  PROVE  PlayerInv(Asked(p, m, rp), r, gone \cup more, h) /\ Awaited(Asked(p, m, rp))
<1> DEFINE q == Asked(p, m, rp)
           new == [session |-> p.session + 1, rate |-> rp, mode |-> m, at |-> "play"]
<1>1. /\ q \in PlayerType /\ q.session = p.session + 1
      /\ q.timers = {} /\ q.frame = NoSession
      /\ q.starts = p.starts \cup {new} /\ q.contexts = p.contexts
      /\ q.audio.rate = rp
  BY AskedFields
<1>2. new.session = p.session + 1 /\ new.rate = rp /\ new.at = "play"
  OBVIOUS
<1> HIDE DEF q, new
<1>3. p.session \in Nat
  BY DEF PlayerType
<1>4. \A st \in p.starts : st.session \in 1..q.session /\ st.session # q.session
  BY <1>1, <1>3 DEF StartsInv
<1>5. q.session \notin p.contexts
  BY <1>1, <1>3 DEF ContextsInv
<1>6. Awaited(q)
  BY <1>1, <1>2 DEF Awaited
<1>7. StartsInv(q)
  <2>1. new.session \in 1..q.session /\ new.session = q.session
    BY <1>1, <1>2, <1>3
  <2>2. \A st \in q.starts :
          /\ st.session \in 1..q.session
          /\ st.at = "play" => st.session \notin q.contexts
          /\ st.at = "resume" => st.session # q.session
    BY <1>1, <1>2, <1>4, <1>5, <2>1 DEF StartsInv
  <2>3. \A st, other \in q.starts : st.session = other.session => st = other
    BY <1>1, <1>4, <2>1 DEF StartsInv
  <2> QED BY <1>1, <2>2, <2>3 DEF StartsInv
<1>8. TimersInv(q)
  BY <1>1, <1>6 DEF TimersInv
<1>9. ContextsInv(q, gone \cup more)
  <2>1. q.contexts \subseteq 1..q.session
    BY <1>1, <1>3 DEF ContextsInv
  <2>2. ASSUME NEW c \in q.contexts \ (gone \cup more) PROVE \E st \in q.starts : st.session = c
    <3>1. ~(p.playing /\ p.frame = c)
      BY <1>1, <1>3 DEF ContextsInv, NoSession
    <3> QED BY <1>1, <3>1 DEF ContextsInv
  <2> QED BY <1>1, <2>1, <2>2 DEF ContextsInv
<1>10. RateInv(q, r, h)
  BY <1>1, <1>2, <1>4 DEF RateInv
<1> QED BY <1>1, <1>6, <1>7, <1>8, <1>9, <1>10 DEF PlayerInv, q
(* A start that is over is forgotten, and so is its context.               *)
LEMMA DroppedStart ==
  ASSUME NEW p \in PlayerType, NEW gone, NEW r, NEW h, PlayerInv(p, r, gone, h),
         NEW st \in p.starts, st.session # p.session,
         NEW n \in PlayerType, n.session = p.session, n.playing = p.playing,
         n.timers = p.timers, n.frame = p.frame, n.context = p.context, n.audio = p.audio,
         n.starts = p.starts \ {st},
         n.contexts = p.contexts \ {st.session}
  PROVE  PlayerInv(n, r, gone, h) /\ (Awaited(n) <=> Awaited(p))
<1> USE DEF PlayerInv
<1>1. Awaited(n) <=> Awaited(p)
  BY DEF Awaited
<1>2. StartsInv(n)
  BY <1>1 DEF StartsInv
<1>3. TimersInv(n)
  BY <1>1 DEF TimersInv
<1>4. ContextsInv(n, gone)
  <2>1. ASSUME NEW c \in n.contexts \ gone, ~(n.playing /\ n.frame = c)
        PROVE  \E other \in n.starts : other.session = c
    BY <2>1 DEF ContextsInv
  <2> QED BY <2>1 DEF ContextsInv
<1>5. RateInv(n, r, h)
  BY DEF RateInv
<1> QED BY <1>1, <1>2, <1>3, <1>4, <1>5

(* The start of the current session fails: nothing is left of it.          *)
LEMMA FailedStart ==
  ASSUME NEW p \in PlayerType, NEW gone, NEW r, NEW h, PlayerInv(p, r, gone, h),
         NEW st \in p.starts, st.session = p.session,
         NEW n \in PlayerType, n.session = p.session, ~n.playing,
         n.timers = {}, n.frame = NoSession, ~n.audio.playing,
         n.starts = p.starts \ {st},
         n.contexts = p.contexts \ {st.session}
  PROVE  PlayerInv(n, r, gone, h) /\ AtRest(n)
<1> USE DEF PlayerInv
<1>1. p.frame = NoSession
  BY DEF StartsInv, Awaited
<1>2. \A other \in n.starts : other.session # n.session
  BY DEF StartsInv
<1>3. ~Awaited(n)
  BY <1>2 DEF Awaited
<1>4. StartsInv(n)
  BY <1>2, <1>3 DEF StartsInv
<1>5. TimersInv(n)
  BY DEF TimersInv
<1>6. ContextsInv(n, gone)
  <2>1. ASSUME NEW c \in n.contexts \ gone
        PROVE  \E other \in n.starts : other.session = c
    <3>1. c \in 1..p.session
      BY DEF ContextsInv
    <3>2. c # NoSession
      BY <3>1 DEF NoSession
    <3> QED BY <1>1, <3>2 DEF ContextsInv
  <2> QED BY <2>1 DEF ContextsInv
<1>7. RateInv(n, r, h)
  BY <1>2 DEF RateInv
<1> QED BY <1>3, <1>4, <1>5, <1>6, <1>7 DEF AtRest

(* The start of the current session succeeds: it plays.                    *)
LEMMA BegunPlays ==
  ASSUME NEW p \in PlayerType, NEW gone, NEW r, NEW h, PlayerInv(p, r, gone, h),
         NEW st \in p.starts, st.session = p.session,
         st.at = "resume" \/ st.mode = "original",
         NEW n \in PlayerType, n.session = p.session, n.playing, n.frame = st.session,
         n.context = p.context, n.audio = p.audio, n.contexts = p.contexts,
         n.starts = p.starts \ {st},
         n.timers = IF st.mode = "original" THEN {}
                    ELSE {[kind |-> "chart", session |-> st.session, rate |-> st.rate]}
  PROVE  PlayerInv(n, r, gone, h)
<1> USE DEF PlayerInv
<1>1. p.frame = NoSession
  BY DEF StartsInv, Awaited
<1>2. \A other \in n.starts : other.session # n.session
  BY DEF StartsInv
<1>3. ~Awaited(n)
  BY <1>2 DEF Awaited
<1>4. StartsInv(n)
  BY <1>2, <1>3 DEF StartsInv
<1>5. st.at \in {"play", "resume"}
  BY DEF PlayerType, StartType
<1>6. \A t \in n.timers : /\ t.kind = "chart" /\ t.session = st.session /\ t.rate = st.rate
                          /\ st.at = "resume"
  BY <1>5
<1>7. TimersInv(n)
  BY <1>6 DEF TimersInv, StartsInv
<1>8. ContextsInv(n, gone)
  <2>1. ASSUME NEW c \in n.contexts \ gone, c # n.frame
        PROVE  \E other \in n.starts : other.session = c
    <3>1. c \in 1..p.session
      BY DEF ContextsInv
    <3>2. c # NoSession
      BY <3>1 DEF NoSession
    <3> QED BY <1>1, <2>1, <3>2 DEF ContextsInv
  <2>2. n.frame \in n.contexts => n.context = n.frame
    BY <1>5 DEF StartsInv
  <2> QED BY <2>1, <2>2 DEF ContextsInv
<1>9. RateInv(n, r, h)
  BY <1>2, <1>6 DEF RateInv
<1> QED BY <1>4, <1>7, <1>8, <1>9

(* The audio of the current session plays and its context is opened.       *)
LEMMA ContextOpened ==
  ASSUME NEW p \in PlayerType, NEW gone, NEW r, NEW h, PlayerInv(p, r, gone, h),
         NEW st \in p.starts, st.session = p.session,
         NEW on, on.session = st.session, on.rate = st.rate, on.at = "resume",
         NEW n \in PlayerType, n.session = p.session, n.playing = p.playing,
         n.timers = p.timers, n.frame = p.frame, n.context = st.session, n.audio = p.audio,
         n.starts = (p.starts \ {st}) \cup {on},
         n.contexts = p.contexts \cup {st.session}
  PROVE  PlayerInv(n, r, gone, h) /\ Awaited(n)
<1> USE DEF PlayerInv
<1>1. p.frame = NoSession /\ p.timers = {} /\ Awaited(n)
  BY DEF StartsInv, Awaited
<1>2. \A other \in n.starts \ {on} : other \in p.starts /\ other.session # n.session
  BY DEF StartsInv
<1>3. StartsInv(n)
  BY <1>1, <1>2 DEF StartsInv
<1>4. TimersInv(n)
  BY <1>1 DEF TimersInv
<1>5. ContextsInv(n, gone)
  <2>1. n.contexts \subseteq 1..n.session
    BY DEF ContextsInv, StartsInv
  <2>2. ASSUME NEW c \in n.contexts \ gone
        PROVE  \E other \in n.starts : other.session = c
    <3>1. CASE c = st.session
      BY <3>1
    <3>2. CASE c # st.session
      <4>1. c \in 1..p.session /\ c \in p.contexts
        BY <3>2 DEF ContextsInv
      <4>2. c # NoSession
        BY <4>1 DEF NoSession
      <4> QED BY <1>1, <3>2, <4>1, <4>2 DEF ContextsInv
    <3> QED BY <3>1, <3>2
  <2> QED BY <1>1, <2>1, <2>2 DEF ContextsInv
<1>6. RateInv(n, r, h)
  BY <1>1, <1>2 DEF RateInv
<1> QED BY <1>1, <1>3, <1>4, <1>5, <1>6
-----------------------------------------------------------------------------
(* The steps.                                                              *)

LEMMA InvParts ==
  Inv <=> /\ PlayerInv(player, rate, leaked, hasty)
          /\ rate \in Rates /\ mode \in Modes /\ available \subseteq Modes /\ mounted \in BOOLEAN
          /\ mounted /\ player.playing => Awaited(player) \/ player.frame = player.session
          /\ ~mounted => AtRest(player)
BY DEF Inv, PlayerInv, AtRest

LEMMA InvNext ==
  ASSUME PlayerInv(player', rate', leaked', hasty'),
         rate' \in Rates, mode' \in Modes, available' \subseteq Modes, mounted' \in BOOLEAN,
         mounted' /\ player'.playing => Awaited(player') \/ player'.frame = player'.session,
         ~mounted' => AtRest(player')
  PROVE  Inv'
BY DEF Inv, PlayerInv, AtRest, StartsInv, TimersInv, ContextsInv, RateInv, Awaited, PlayerType,
       StartType, TimerType, AudioType, NoSession

(* The player that has been stopped, whoever stops it.                     *)
LEMMA StopKeeps ==
  ASSUME Inv, player' = Stopped(player), mounted' = mounted, leaked' = leaked, hasty' = hasty,
         rate' \in Rates, mode' \in Modes, available' \subseteq Modes
  PROVE  Inv'
<1>1. PlayerInv(player', rate', leaked', hasty') /\ AtRest(player') /\ ~player'.playing
  BY InvParts, StoppedRests DEF PlayerInv
<1> QED BY <1>1, InvNext, InvParts

LEMMA PressPlayKeeps ==
  ASSUME Inv, PressPlay
  PROVE  Inv'
<1>1. UNCHANGED <<mounted, available, mode, rate, hasty>> /\ mounted
  BY DEF PressPlay, Click, Clickable
<1>2. PlayerInv(player, rate, leaked, hasty) /\ player \in PlayerType
      /\ rate \in Rates /\ mode \in Modes
  BY InvParts DEF PlayerInv
<1>3. CASE shown
  <2>1. player' = Stopped(player) /\ leaked' = leaked
    BY <1>3 DEF PressPlay, Click
  <2> QED BY <1>1, <2>1, InvParts, StopKeeps
<1>4. CASE ~shown
  <2> DEFINE more == IF player.playing THEN {player.context} \ {NoSession} ELSE {}
  <2>1. player' = Asked(player, mode, rate) /\ leaked' = leaked \cup more
    BY <1>4 DEF PressPlay, Click
  <2>2. player.playing /\ player.frame \in player.contexts /\ player.frame # NoSession =>
          player.context \in more
    BY <1>2 DEF PlayerInv, ContextsInv
  <2> HIDE DEF more
  <2>3. PlayerInv(player', rate, leaked', hasty) /\ Awaited(player')
    BY <1>2, <2>1, <2>2, AskedAwaited DEF PlayerInv
  <2> QED BY <1>1, <2>3, InvNext, InvParts
<1> QED BY <1>3, <1>4

(* A replay is a stop with a timer that starts anew.                       *)
LEMMA ReplayFields ==
  ASSUME NEW p \in PlayerType, NEW r \in Rates
  PROVE  LET t == [kind |-> "replay", session |-> p.session, rate |-> r]
             q == Replay(p, r)
         IN /\ q \in PlayerType /\ q.session = p.session /\ q.playing = p.playing
            /\ q.timers = p.timers \cup {t} /\ q.frame = p.frame /\ q.starts = p.starts
            /\ q.contexts = p.contexts /\ q.context = p.context /\ q.audio = p.audio
<1> DEFINE t == [kind |-> "replay", session |-> p.session, rate |-> r]
           ts == p.timers \cup {t}
<1>1. ts \in SUBSET TimerType
  BY DEF PlayerType, TimerType
<1>2. Replay(p, r) = [p EXCEPT !.timers = ts]
  BY DEF Replay
<1> HIDE DEF t, ts
<1> QED BY <1>1, <1>2 DEF PlayerType, t, ts

LEMMA ReplayWaits ==
  ASSUME NEW p \in PlayerType, NEW r \in Rates, NEW gone, NEW h,
         PlayerInv(p, r, gone, h), AtRest(p), ~p.playing
  PROVE  /\ PlayerInv(Replay(p, r), r, gone, h) /\ ~Replay(p, r).playing
         /\ Replay(p, r).frame = NoSession /\ ~Awaited(Replay(p, r))
<1> DEFINE q == Replay(p, r)
           t == [kind |-> "replay", session |-> p.session, rate |-> r]
<1>1. /\ q \in PlayerType /\ q.session = p.session /\ q.playing = p.playing
      /\ q.timers = {t} /\ q.frame = NoSession /\ q.starts = p.starts
      /\ q.contexts = p.contexts /\ q.context = p.context /\ q.audio = p.audio
  BY ReplayFields DEF AtRest
<1>2. t.kind = "replay" /\ t.session = p.session /\ t.rate = r
  OBVIOUS
<1> HIDE DEF q, t
<1> USE DEF PlayerInv, AtRest
<1>3. ~Awaited(q)
  BY <1>1 DEF Awaited
<1>4. StartsInv(q)
  BY <1>1, <1>3 DEF StartsInv
<1>5. TimersInv(q)
  BY <1>1, <1>2 DEF TimersInv
<1>6. ContextsInv(q, gone)
  BY <1>1 DEF ContextsInv
<1>7. RateInv(q, r, h)
  BY <1>1, <1>2 DEF RateInv
<1> QED BY <1>1, <1>3, <1>4, <1>5, <1>6, <1>7 DEF q

LEMMA PressReplayKeeps ==
  ASSUME Inv, PressReplay
  PROVE  Inv'
<1>1. /\ UNCHANGED <<mounted, available, mode, rate, leaked, hasty>> /\ mounted
      /\ player' = Replay(Stopped(player), rate)
  BY DEF PressReplay, Click, Clickable, history
<1>2. /\ Stopped(player) \in PlayerType /\ PlayerInv(Stopped(player), rate, leaked, hasty)
      /\ AtRest(Stopped(player)) /\ ~Stopped(player).playing
  BY InvParts, StoppedRests DEF PlayerInv
<1>3. PlayerInv(player', rate, leaked, hasty) /\ ~player'.playing
  BY <1>1, <1>2, InvParts, ReplayWaits
<1> QED BY <1>1, <1>3, InvNext, InvParts

LEMMA PickModeKeeps ==
  ASSUME Inv, NEW m \in Modes, PickMode(m)
  PROVE  Inv'
BY StopKeeps, InvParts DEF PickMode, Click, Clickable, history

LEMMA SeekKeeps ==
  ASSUME Inv, Seek
  PROVE  Inv'
BY StopKeeps, InvParts DEF Seek, Click, Clickable, history

(* A player at another rate is the same but for the rate of its audio.     *)
LEMMA AtRateFields ==
  ASSUME NEW p \in PlayerType, NEW r \in Rates
  PROVE  LET q == AtRate(p, r)
         IN /\ q \in PlayerType /\ q.session = p.session /\ q.playing = p.playing
            /\ q.timers = p.timers /\ q.frame = p.frame /\ q.starts = p.starts
            /\ q.contexts = p.contexts /\ q.context = p.context
            /\ q.audio.playing = p.audio.playing
<1> DEFINE a == [p.audio EXCEPT !.rate = r]
<1>1. a \in AudioType /\ a.playing = p.audio.playing
  BY DEF PlayerType, AudioType
<1>2. AtRate(p, r) = IF r = rate THEN p ELSE [p EXCEPT !.audio = a]
  BY DEF AtRate
<1> HIDE DEF a
<1> QED BY <1>1, <1>2 DEF PlayerType

LEMMA AtRateKeeps ==
  ASSUME NEW p \in PlayerType, NEW r \in Rates, NEW to, NEW gone, NEW h, NEW more,
         StartsInv(p), TimersInv(p), ContextsInv(p, gone),
         p.frame \in {NoSession} \cup more,
         Awaited(p) => p.session \in more,
         \A t \in p.timers : t.kind = "replay" => p.session + 1 \in h \cup more \/ t.rate = to
  PROVE  /\ PlayerInv(AtRate(p, r), to, gone, h \cup more)
         /\ Awaited(AtRate(p, r)) <=> Awaited(p)
         /\ AtRest(p) => AtRest(AtRate(p, r))
<1> DEFINE q == AtRate(p, r)
<1>1. /\ q \in PlayerType /\ q.session = p.session /\ q.playing = p.playing
      /\ q.timers = p.timers /\ q.frame = p.frame /\ q.starts = p.starts
      /\ q.contexts = p.contexts /\ q.context = p.context
      /\ q.audio.playing = p.audio.playing
  BY AtRateFields
<1> HIDE DEF q
<1>2. Awaited(q) <=> Awaited(p)
  BY <1>1 DEF Awaited
<1>3. StartsInv(q) /\ TimersInv(q) /\ ContextsInv(q, gone)
  BY <1>1, <1>2 DEF StartsInv, TimersInv, ContextsInv
<1>4. RateInv(q, to, h \cup more)
  <2>1. q.frame \in {NoSession} \cup h \cup more
    BY <1>1
  <2>2. ASSUME NEW st \in q.starts, st.session = q.session PROVE q.session \in h \cup more
    BY <1>1, <2>2 DEF Awaited
  <2>3. ASSUME NEW t \in q.timers, t.kind = "replay", q.session + 1 \notin h \cup more
        PROVE  t.rate = to
    BY <1>1, <2>3
  <2> QED BY <2>1, <2>2, <2>3 DEF RateInv
<1>5. AtRest(p) => AtRest(q)
  BY <1>1, <1>2 DEF AtRest
<1> QED BY <1>1, <1>2, <1>3, <1>4, <1>5 DEF PlayerInv, q
LEMMA ChangeRateKeeps ==
  ASSUME Inv, NEW r \in Rates, ChangeRate(r)
  PROVE  Inv'
<1>1. /\ UNCHANGED <<mounted, available, mode, leaked>> /\ mounted
      /\ rate' = r /\ hasty' = hasty \cup Unseen
      /\ player' = AtRate(IF shown THEN Replay(Stopped(player), r) ELSE player, r)
  BY DEF ChangeRate, Click, Clickable
<1>2. PlayerInv(player, rate, leaked, hasty) /\ player \in PlayerType
  BY InvParts DEF PlayerInv
<1>3. CASE shown
  <2> DEFINE p == Stopped(player)
             q == Replay(p, r)
  <2>1. /\ PlayerInv(p, r, leaked, hasty) /\ p \in PlayerType /\ AtRest(p) /\ ~p.playing
    BY <1>2, StoppedRests DEF PlayerInv
  <2> HIDE DEF p
  <2>2. /\ PlayerInv(q, r, leaked, hasty) /\ q \in PlayerType
        /\ q.frame = NoSession /\ ~Awaited(q) /\ ~q.playing
    BY <2>1, ReplayWaits DEF PlayerInv
  <2> HIDE DEF q
  <2>3. player' = AtRate(q, r) /\ hasty' = hasty \cup {}
    BY <1>1, <1>3 DEF q, p, Unseen
  <2>4. PlayerInv(AtRate(q, r), r, leaked, hasty \cup {})
    <3>1. \A t \in q.timers : t.kind = "replay" => q.session + 1 \in hasty \cup {} \/ t.rate = r
      BY <2>2 DEF PlayerInv, RateInv
    <3> QED BY <2>2, <3>1, AtRateKeeps DEF PlayerInv
  <2>5. ~player'.playing
    BY <2>2, <2>3, AtRateFields
  <2> QED BY <1>1, <2>3, <2>4, <2>5, InvNext, InvParts
<1>4. CASE ~shown
  <2>1. player' = AtRate(player, r)
    BY <1>1, <1>4
  <2>2. player.frame \in {NoSession} \cup Unseen
    BY <1>2, <1>4 DEF PlayerInv, TimersInv, Unseen
  <2>3. Awaited(player) => player.session \in Unseen
    <3>1. ASSUME Awaited(player) PROVE player.session # NoSession /\ player.timers = {}
      BY <1>2, <3>1 DEF PlayerInv, StartsInv, Awaited, NoSession
    <3> QED BY <1>4, <3>1 DEF Unseen
  <2>4. \A t \in player.timers : t.kind = "replay" => player.session + 1 \in Unseen
    BY <1>4 DEF Unseen
  <2>5. /\ PlayerInv(player', r, leaked, hasty \cup Unseen)
        /\ Awaited(player') <=> Awaited(player)
    BY <1>2, <2>1, <2>2, <2>3, <2>4, AtRateKeeps DEF PlayerInv
  <2>6. /\ player'.playing = player.playing /\ player'.frame = player.frame
        /\ player'.session = player.session
    BY <1>2, <2>1, AtRateFields
  <2> QED BY <1>1, <2>5, <2>6, InvNext, InvParts
<1> QED BY <1>3, <1>4

LEMMA NewResultKeeps ==
  ASSUME Inv, PlaybackAssumption, NewResult
  PROVE  Inv'
<1>1. PICK modes \in Offers, change \in {"sources", "candidate", "job"} :
       /\ available' = modes
       /\ mode' \in IF mode \in modes THEN {mode}
                    ELSE IF modes = {} THEN {"original"} ELSE modes
       /\ rate' = IF change = "job" THEN 1 ELSE rate
       /\ player' = IF change = "sources" /\ mode \in modes THEN player
                    ELSE AtRate(Stopped(player), rate')
  BY DEF NewResult
<1>2. mounted /\ UNCHANGED <<mounted, leaked, hasty>>
  BY DEF NewResult, history
<1>3. modes \subseteq Modes
  BY DEF Offers, PracticeModes
<1>4. rate' \in Rates /\ mode' \in Modes /\ available' \subseteq Modes
  BY <1>1, <1>3, InvParts DEF PlaybackAssumption
<1>5. CASE change = "sources" /\ mode \in modes
  BY <1>1, <1>2, <1>4, <1>5, InvParts, InvNext
<1>6. CASE ~(change = "sources" /\ mode \in modes)
  <2> DEFINE p == Stopped(player)
  <2>1. /\ PlayerInv(p, rate', leaked, hasty) /\ p \in PlayerType /\ AtRest(p) /\ ~p.playing
    BY InvParts, StoppedRests DEF PlayerInv
  <2>2. player' = AtRate(p, rate')
    BY <1>1, <1>6
  <2> HIDE DEF p
  <2>3. PlayerInv(player', rate', leaked, hasty \cup {})
    BY <1>4, <2>1, <2>2, AtRateKeeps DEF PlayerInv, AtRest
  <2>4. ~player'.playing /\ hasty \cup {} = hasty'
    BY <1>2, <1>4, <2>1, <2>2, AtRateFields
  <2> QED BY <1>2, <1>4, <2>3, <2>4, InvParts, InvNext
<1> QED BY <1>5, <1>6

(* The page keeps the number of the context it has closed, and what it     *)
(* believed about playing; nothing runs on.                                *)
LEMMA UnmountKeeps ==
  ASSUME Inv, Unmount
  PROVE  Inv'
<1> DEFINE p == Stopped(player)
<1>1. /\ UNCHANGED <<available, mode, rate, leaked, hasty>> /\ mounted' = FALSE
      /\ player' = [p EXCEPT !.context = player.context, !.playing = player.playing]
  BY DEF Unmount, history
<1>2. /\ PlayerInv(p, rate, leaked, hasty) /\ p \in PlayerType /\ AtRest(p)
      /\ player \in PlayerType /\ ~p.playing
  BY InvParts, StoppedRests DEF PlayerInv
<1> HIDE DEF p
<1>3. /\ player' \in PlayerType /\ player'.session = p.session /\ player'.timers = p.timers
      /\ player'.frame = p.frame /\ player'.starts = p.starts /\ player'.contexts = p.contexts
      /\ player'.audio = p.audio
  BY <1>1, <1>2 DEF PlayerType
<1>4. AtRest(player')
  BY <1>2, <1>3 DEF AtRest, Awaited
<1>5. StartsInv(player') /\ TimersInv(player') /\ ContextsInv(player', leaked)
      /\ RateInv(player', rate, hasty)
  <2>1. StartsInv(player')
    BY <1>2, <1>3, <1>4 DEF PlayerInv, StartsInv, AtRest, Awaited
  <2>2. TimersInv(player')
    BY <1>3, <1>4 DEF TimersInv, AtRest
  <2>3. ContextsInv(player', leaked)
    BY <1>2, <1>3, <1>4 DEF PlayerInv, ContextsInv, AtRest
  <2>4. RateInv(player', rate, hasty)
    BY <1>2, <1>3, <1>4 DEF PlayerInv, RateInv, AtRest, Awaited
  <2> QED BY <2>1, <2>2, <2>3, <2>4
<1> QED BY <1>1, <1>3, <1>4, <1>5, InvParts, InvNext DEF PlayerInv

(* The player without the start that has answered.                         *)
LEMMA AnsweredFields ==
  ASSUME NEW p \in PlayerType, NEW st \in p.starts
  PROVE  LET q == [p EXCEPT !.starts = @ \ {st}]
         IN /\ q \in PlayerType /\ q.session = p.session /\ q.playing = p.playing
            /\ q.timers = p.timers /\ q.frame = p.frame /\ q.starts = p.starts \ {st}
            /\ q.contexts = p.contexts /\ q.context = p.context /\ q.audio = p.audio
BY DEF PlayerType

(* What fails in a step of the browser leaves no click behind.             *)
LEMMA QuietKeeps ==
  ASSUME Inv, Quiet, PlayerInv(player', rate, leaked, hasty),
         player'.playing => Awaited(player') \/ player'.frame = player'.session \/ ~mounted,
         ~mounted => AtRest(player')
  PROVE  Inv'
BY InvNext, InvParts DEF Quiet, history
(* The fields of the other players that the answers lead to.               *)
LEMMA BegunFields ==
  ASSUME NEW q \in PlayerType, NEW st \in StartType, q.timers = {}
  PROVE  LET n == Begun(q, st)
         IN /\ n \in PlayerType /\ n.session = q.session /\ n.playing = TRUE
            /\ n.frame = st.session /\ n.starts = q.starts
            /\ n.contexts = q.contexts /\ n.context = q.context /\ n.audio = q.audio
            /\ n.timers = IF st.mode = "original" THEN {}
                          ELSE {[kind |-> "chart", session |-> st.session, rate |-> st.rate]}
<1> DEFINE ts == IF st.mode = "original" THEN {}
                 ELSE {[kind |-> "chart", session |-> st.session, rate |-> st.rate]}
<1>1. ts \in SUBSET TimerType /\ st.session \in Nat
  BY DEF StartType, TimerType
<1>2. Begun(q, st) = [q EXCEPT !.playing = TRUE, !.frame = st.session, !.timers = ts]
  BY DEF Begun
<1> HIDE DEF ts
<1> QED BY <1>1, <1>2 DEF PlayerType, ts

LEMMA SilencedFields ==
  ASSUME NEW q \in PlayerType
  PROVE  LET n == [Cleared(q) EXCEPT !.audio.playing = FALSE, !.playing = FALSE]
         IN /\ n \in PlayerType /\ n.session = q.session /\ n.playing = FALSE
            /\ n.timers = {} /\ n.frame = NoSession /\ n.starts = q.starts
            /\ n.contexts = q.contexts /\ n.context = q.context /\ n.audio.playing = FALSE
<1> DEFINE a == [q.audio EXCEPT !.playing = FALSE]
           c == Cleared(q)
<1>1. a \in AudioType /\ a.playing = FALSE
  BY DEF PlayerType, AudioType
<1>2. c \in PlayerType /\ c.session = q.session /\ c.starts = q.starts /\ c.contexts = q.contexts
      /\ c.context = q.context /\ c.timers = {} /\ c.frame = NoSession /\ c.audio = q.audio
  BY DEF Cleared, PlayerType, NoSession
<1>3. [Cleared(q) EXCEPT !.audio.playing = FALSE, !.playing = FALSE]
        = [c EXCEPT !.audio = a, !.playing = FALSE]
  BY <1>2
<1> HIDE DEF a, c
<1> QED BY <1>1, <1>2, <1>3 DEF PlayerType

LEMMA ChartFailedFields ==
  ASSUME NEW q \in PlayerType, NEW st \in StartType, st.session = q.session, NEW c \in Nat,
         c = NoSession \/ c = q.context, NEW n, n = ChartFailed(q, st, c)
  PROVE  /\ n \in PlayerType /\ n.session = q.session /\ ~n.playing
         /\ n.timers = {} /\ n.frame = NoSession /\ n.starts = q.starts
         /\ q.context = c => n.contexts = q.contexts \ {c}
         /\ q.context # c => n.contexts = q.contexts
         /\ ~n.audio.playing
<1> DEFINE a == [q.audio EXCEPT !.playing = FALSE]
           d == Cleared(q)
           cs == IF q.context = c THEN q.contexts \ {c} ELSE q.contexts
           x == IF q.context = c THEN NoSession ELSE q.context
<1>1. a \in AudioType /\ ~a.playing /\ cs \in SUBSET Nat /\ x \in Nat
  BY DEF PlayerType, AudioType, NoSession
<1>2. d \in PlayerType /\ d.session = q.session /\ d.starts = q.starts /\ d.contexts = q.contexts
      /\ d.context = q.context /\ d.timers = {} /\ d.frame = NoSession /\ d.audio = q.audio
  BY DEF Cleared, PlayerType, NoSession
<1>3. n = [d EXCEPT !.playing = FALSE, !.audio = a, !.contexts = cs, !.context = x]
  BY <1>2 DEF ChartFailed, IsCurrent
<1> HIDE DEF a, d, cs, x
<1>4. n \in PlayerType
  BY <1>1, <1>2, <1>3 DEF PlayerType
<1>5. /\ n.session = q.session /\ ~n.playing
      /\ n.timers = {} /\ n.frame = NoSession /\ n.starts = q.starts
      /\ n.contexts = cs /\ n.audio = a
  BY <1>2, <1>3 DEF PlayerType
<1> QED BY <1>1, <1>4, <1>5 DEF cs

LEMMA PlayResolvesKeeps ==
  ASSUME Inv, NEW st \in player.starts, PlayResolves(st)
  PROVE  Inv'
<1> DEFINE p == [player EXCEPT !.starts = @ \ {st}]
<1>1. /\ st.at = "play" /\ Quiet
      /\ \/ st.session # player.session /\ player' = p
         \/ st.session = player.session /\ st.mode = "original" /\ player' = Begun(p, st)
         \/ /\ st.session = player.session
            /\ \/ player' = Stopped(p)
               \/ player' = ChartFailed(p, st, NoSession)
               \/ player' = [p EXCEPT !.contexts = @ \cup {st.session},
                    !.context = st.session, !.starts = @ \cup {[st EXCEPT !.at = "resume"]}]
  <2>1. p.session = player.session
    BY InvParts, AnsweredFields DEF PlayerInv
  <2> QED BY <2>1 DEF PlayResolves, IsCurrent
<1>2. /\ PlayerInv(player, rate, leaked, hasty) /\ player \in PlayerType
      /\ rate \in Rates /\ st \in StartType
      /\ player.playing => Awaited(player) \/ player.frame = player.session \/ ~mounted
      /\ ~mounted => AtRest(player)
  BY InvParts DEF PlayerInv, PlayerType
<1>3. /\ p \in PlayerType /\ p.session = player.session /\ p.playing = player.playing
      /\ p.timers = player.timers /\ p.frame = player.frame /\ p.starts = player.starts \ {st}
      /\ p.contexts = player.contexts /\ p.context = player.context /\ p.audio = player.audio
  BY <1>2, AnsweredFields
<1> HIDE DEF p
<1>4. st.session \notin player.contexts
  BY <1>1, <1>2 DEF PlayerInv, StartsInv
<1>5. st.session = player.session => mounted /\ player.timers = {} /\ player.frame = NoSession
  BY <1>2 DEF PlayerInv, StartsInv, AtRest, Awaited
<1>6. CASE st.session # player.session /\ player' = p
  <2>1. p.contexts = player.contexts \ {st.session}
    BY <1>3, <1>4
  <2>2. PlayerInv(player', rate, leaked, hasty) /\ (Awaited(player') <=> Awaited(player))
    BY <1>2, <1>3, <1>6, <2>1, DroppedStart
  <2> QED BY <1>1, <1>2, <1>3, <1>6, <2>2, QuietKeeps DEF AtRest
<1>7. CASE st.session = player.session /\ st.mode = "original" /\ player' = Begun(p, st)
  <2> DEFINE n == Begun(p, st)
  <2>1. /\ n \in PlayerType /\ n.session = player.session /\ n.playing
        /\ n.frame = st.session /\ n.starts = player.starts \ {st}
        /\ n.contexts = player.contexts /\ n.context = player.context /\ n.audio = player.audio
        /\ n.timers = IF st.mode = "original" THEN {}
                      ELSE {[kind |-> "chart", session |-> st.session, rate |-> st.rate]}
    BY <1>2, <1>3, <1>5, <1>7, BegunFields
  <2> HIDE DEF n
  <2>2. PlayerInv(n, rate, leaked, hasty)
    BY <1>2, <1>7, <2>1, BegunPlays
  <2>3. player' = n
    BY <1>7 DEF n
  <2> QED BY <1>1, <1>5, <1>7, <2>1, <2>2, <2>3, QuietKeeps
<1>8. CASE st.session = player.session /\ player' = Stopped(p)
  <2>1. StartsInv(p)
    <3>1. \A other \in p.starts : other \in player.starts /\ other.session # p.session
      BY <1>2, <1>3, <1>8 DEF PlayerInv, StartsInv
    <3>2. ~Awaited(p)
      BY <3>1 DEF Awaited
    <3> QED BY <1>2, <1>3, <3>1, <3>2 DEF PlayerInv, StartsInv
  <2>2. ContextsInv(p, leaked)
    BY <1>2, <1>3, <1>4 DEF PlayerInv, ContextsInv
  <2>3. PlayerInv(player', rate, leaked, hasty) /\ ~player'.playing
    BY <1>3, <1>8, <2>1, <2>2, StoppedRests
  <2> QED BY <1>1, <1>5, <1>8, <2>3, QuietKeeps
<1>9. CASE st.session = player.session /\ player' = ChartFailed(p, st, NoSession)
  <2>1. NoSession \in Nat /\ NoSession \notin p.contexts
    BY <1>2, <1>3 DEF PlayerInv, ContextsInv, NoSession
  <2>2. /\ player' \in PlayerType /\ player'.session = p.session /\ player'.playing = FALSE
        /\ player'.timers = {} /\ player'.frame = NoSession /\ player'.starts = p.starts
        /\ player'.contexts = p.contexts /\ player'.audio.playing = FALSE
    <3>1. st.session = p.session /\ p.contexts \ {NoSession} = p.contexts
      BY <1>3, <1>9, <2>1
    <3>2. p \in PlayerType /\ st \in StartType
      BY <1>2, <1>3
    <3>3. player' = ChartFailed(p, st, NoSession)
      BY <1>9
    <3>4. /\ player' \in PlayerType /\ player'.session = p.session /\ ~player'.playing
          /\ player'.timers = {} /\ player'.frame = NoSession /\ player'.starts = p.starts
          /\ p.context = NoSession => player'.contexts = p.contexts \ {NoSession}
          /\ p.context # NoSession => player'.contexts = p.contexts
          /\ ~player'.audio.playing
      BY <2>1, <3>1, <3>2, <3>3, ChartFailedFields
    <3> QED BY <3>1, <3>4
  <2>3. PlayerInv(player', rate, leaked, hasty)
    BY <1>2, <1>3, <1>4, <1>9, <2>2, FailedStart
  <2> QED BY <1>1, <1>5, <1>9, <2>2, <2>3, QuietKeeps
<1>10. CASE /\ st.session = player.session
            /\ player' = [p EXCEPT !.contexts = @ \cup {st.session},
                    !.context = st.session, !.starts = @ \cup {[st EXCEPT !.at = "resume"]}]
  <2> DEFINE on == [st EXCEPT !.at = "resume"]
             cs == p.contexts \cup {st.session}
             sts == p.starts \cup {on}
  <2>1. on \in StartType /\ on.session = st.session /\ on.rate = st.rate /\ on.at = "resume"
    BY <1>2 DEF StartType
  <2>2. cs \in SUBSET Nat /\ sts \in SUBSET StartType /\ st.session \in Nat
    BY <1>2, <1>3, <2>1 DEF PlayerType, StartType
  <2>3. player' = [p EXCEPT !.contexts = cs, !.context = st.session, !.starts = sts]
    BY <1>10
  <2> HIDE DEF on, cs, sts
  <2>4. /\ player' \in PlayerType /\ player'.session = p.session
        /\ player'.playing = p.playing /\ player'.timers = p.timers /\ player'.frame = p.frame
        /\ player'.context = st.session /\ player'.audio = p.audio
        /\ player'.starts = sts /\ player'.contexts = cs
    BY <1>3, <2>2, <2>3 DEF PlayerType
  <2>5. PlayerInv(player', rate, leaked, hasty) /\ Awaited(player')
    <3>1. player'.starts = (player.starts \ {st}) \cup {on}
      BY <1>3, <2>4 DEF sts
    <3>2. player'.contexts = player.contexts \cup {st.session}
      BY <1>3, <2>4 DEF cs
    <3>3. /\ player'.session = player.session /\ player'.playing = player.playing
          /\ player'.timers = player.timers /\ player'.frame = player.frame
          /\ player'.audio = player.audio
      BY <1>3, <2>4
    <3>4. st.session = player.session /\ PlayerInv(player, rate, leaked, hasty)
          /\ player \in PlayerType
      BY <1>2, <1>10
    <3>5. player' \in PlayerType /\ player'.context = st.session
      BY <2>4
    <3> HIDE DEF on
    <3> QED BY <2>1, <3>1, <3>2, <3>3, <3>4, <3>5, ContextOpened
  <2> QED BY <1>1, <1>5, <1>10, <2>5, QuietKeeps
<1> QED BY <1>1, <1>6, <1>7, <1>8, <1>9, <1>10

LEMMA PlayRejectsKeeps ==
  ASSUME Inv, NEW st \in player.starts, PlayRejects(st)
  PROVE  Inv'
<1> DEFINE p == [player EXCEPT !.starts = @ \ {st}]
<1>1. /\ st.at = "play" /\ Quiet
      /\ player' = IF st.session = player.session
                   THEN [Cleared(p) EXCEPT !.audio.playing = FALSE, !.playing = FALSE] ELSE p
  <2>1. p.session = player.session
    BY InvParts, AnsweredFields DEF PlayerInv
  <2> QED BY <2>1 DEF PlayRejects, IsCurrent
<1>2. /\ PlayerInv(player, rate, leaked, hasty) /\ player \in PlayerType
      /\ player.playing => Awaited(player) \/ player.frame = player.session \/ ~mounted
      /\ ~mounted => AtRest(player)
  BY InvParts DEF PlayerInv
<1>3. /\ p \in PlayerType /\ p.session = player.session /\ p.playing = player.playing
      /\ p.timers = player.timers /\ p.frame = player.frame /\ p.starts = player.starts \ {st}
      /\ p.contexts = player.contexts /\ p.context = player.context /\ p.audio = player.audio
  BY <1>2, AnsweredFields
<1> HIDE DEF p
<1>4. player.contexts = player.contexts \ {st.session}
  BY <1>1, <1>2 DEF PlayerInv, StartsInv
<1>5. CASE st.session # player.session
  <2>1. PlayerInv(player', rate, leaked, hasty) /\ (Awaited(player') <=> Awaited(player))
    BY <1>1, <1>2, <1>3, <1>4, <1>5, DroppedStart
  <2> QED BY <1>1, <1>2, <1>3, <1>5, <2>1, QuietKeeps DEF AtRest
<1>6. CASE st.session = player.session
  <2>1. /\ player' \in PlayerType /\ player'.session = p.session /\ player'.playing = FALSE
        /\ player'.timers = {} /\ player'.frame = NoSession /\ player'.starts = p.starts
        /\ player'.contexts = p.contexts /\ player'.audio.playing = FALSE
    BY <1>1, <1>3, <1>6, SilencedFields
  <2>2. PlayerInv(player', rate, leaked, hasty) /\ AtRest(player')
    BY <1>2, <1>3, <1>4, <1>6, <2>1, FailedStart
  <2> QED BY <1>1, <2>1, <2>2, QuietKeeps
<1> QED BY <1>5, <1>6
LEMMA ResumeResolvesKeeps ==
  ASSUME Inv, NEW st \in player.starts, ResumeResolves(st)
  PROVE  Inv'
<1> DEFINE p == [player EXCEPT !.starts = @ \ {st}]
<1>1. /\ st.at = "resume" /\ Quiet
      /\ player' = IF st.session = player.session THEN Begun(p, st)
                   ELSE [p EXCEPT !.contexts = @ \ {st.session}]
  <2>1. p.session = player.session
    BY InvParts, AnsweredFields DEF PlayerInv
  <2> QED BY <2>1 DEF ResumeResolves, IsCurrent
<1>2. /\ PlayerInv(player, rate, leaked, hasty) /\ player \in PlayerType /\ st \in StartType
      /\ player.playing => Awaited(player) \/ player.frame = player.session \/ ~mounted
      /\ ~mounted => AtRest(player)
  BY InvParts DEF PlayerInv, PlayerType
<1>3. /\ p \in PlayerType /\ p.session = player.session /\ p.playing = player.playing
      /\ p.timers = player.timers /\ p.frame = player.frame /\ p.starts = player.starts \ {st}
      /\ p.contexts = player.contexts /\ p.context = player.context /\ p.audio = player.audio
  BY <1>2, AnsweredFields
<1> HIDE DEF p
<1>4. CASE st.session = player.session
  <2> DEFINE n == Begun(p, st)
  <2>1. mounted /\ p.timers = {}
    BY <1>2, <1>3, <1>4 DEF PlayerInv, StartsInv, AtRest, Awaited
  <2>2. /\ n \in PlayerType /\ n.session = player.session /\ n.playing
        /\ n.frame = st.session /\ n.starts = player.starts \ {st}
        /\ n.contexts = player.contexts /\ n.context = player.context /\ n.audio = player.audio
        /\ n.timers = IF st.mode = "original" THEN {}
                      ELSE {[kind |-> "chart", session |-> st.session, rate |-> st.rate]}
    BY <1>2, <1>3, <2>1, BegunFields
  <2>3. player' = n
    BY <1>1, <1>4
  <2> HIDE DEF n
  <2>4. PlayerInv(n, rate, leaked, hasty)
    BY <1>1, <1>2, <1>4, <2>2, BegunPlays
  <2> QED BY <1>1, <1>4, <2>1, <2>2, <2>3, <2>4, QuietKeeps
<1>5. CASE st.session # player.session
  <2> DEFINE cs == player.contexts \ {st.session}
  <2>1. player' = [p EXCEPT !.contexts = cs] /\ cs \in SUBSET Nat
    BY <1>1, <1>2, <1>3, <1>5 DEF PlayerType
  <2> HIDE DEF cs
  <2>2. /\ player' \in PlayerType /\ player'.session = player.session
        /\ player'.playing = player.playing
        /\ player'.timers = player.timers /\ player'.frame = player.frame
        /\ player'.context = player.context /\ player'.audio = player.audio
        /\ player'.starts = player.starts \ {st} /\ player'.contexts = cs
    BY <1>3, <2>1 DEF PlayerType
  <2>3. PlayerInv(player', rate, leaked, hasty) /\ (Awaited(player') <=> Awaited(player))
    BY <1>2, <1>5, <2>2, DroppedStart DEF cs
  <2> QED BY <1>1, <1>2, <2>2, <2>3, QuietKeeps DEF AtRest
<1> QED BY <1>4, <1>5

LEMMA ResumeRejectsKeeps ==
  ASSUME Inv, NEW st \in player.starts, ResumeRejects(st)
  PROVE  Inv'
<1> DEFINE p == [player EXCEPT !.starts = @ \ {st}]
<1>1. st.at = "resume" /\ Quiet /\ player' = ChartFailed(p, st, st.session)
  BY DEF ResumeRejects
<1>2. /\ PlayerInv(player, rate, leaked, hasty) /\ player \in PlayerType /\ st \in StartType
      /\ player.playing => Awaited(player) \/ player.frame = player.session \/ ~mounted
      /\ ~mounted => AtRest(player)
  BY InvParts DEF PlayerInv, PlayerType
<1>3. /\ p \in PlayerType /\ p.session = player.session /\ p.playing = player.playing
      /\ p.timers = player.timers /\ p.frame = player.frame /\ p.starts = player.starts \ {st}
      /\ p.contexts = player.contexts /\ p.context = player.context /\ p.audio = player.audio
  BY <1>2, AnsweredFields
<1> HIDE DEF p
<1>4. CASE st.session = player.session
  <2>1. p.context = st.session /\ st.session \in Nat /\ st.session = p.session
    BY <1>1, <1>2, <1>3, <1>4 DEF PlayerInv, StartsInv, StartType
  <2>2. /\ player' \in PlayerType /\ player'.session = p.session /\ player'.playing = FALSE
        /\ player'.timers = {} /\ player'.frame = NoSession /\ player'.starts = p.starts
        /\ player'.contexts = p.contexts \ {st.session} /\ player'.audio.playing = FALSE
    <3>1. p \in PlayerType /\ st \in StartType
      BY <1>2, <1>3
    <3> QED BY <1>1, <2>1, <3>1, ChartFailedFields
  <2>3. /\ player'.session = player.session /\ player'.starts = player.starts \ {st}
        /\ player'.contexts = player.contexts \ {st.session}
    BY <1>3, <2>2
  <2>4. PlayerInv(player', rate, leaked, hasty) /\ AtRest(player')
    BY <1>2, <1>4, <2>2, <2>3, FailedStart
  <2> QED BY <1>1, <2>2, <2>4, QuietKeeps
<1>5. CASE st.session # player.session
  <2> DEFINE cs == player.contexts \ {st.session}
  <2>1. player' = [p EXCEPT !.contexts = cs] /\ cs \in SUBSET Nat
    BY <1>1, <1>2, <1>3, <1>5 DEF PlayerType, ChartFailed, IsCurrent
  <2> HIDE DEF cs
  <2>2. /\ player' \in PlayerType /\ player'.session = player.session
        /\ player'.playing = player.playing
        /\ player'.timers = player.timers /\ player'.frame = player.frame
        /\ player'.context = player.context /\ player'.audio = player.audio
        /\ player'.starts = player.starts \ {st} /\ player'.contexts = cs
    BY <1>3, <2>1 DEF PlayerType
  <2>3. PlayerInv(player', rate, leaked, hasty) /\ (Awaited(player') <=> Awaited(player))
    BY <1>2, <1>5, <2>2, DroppedStart DEF cs
  <2> QED BY <1>1, <1>2, <2>2, <2>3, QuietKeeps DEF AtRest
<1> QED BY <1>4, <1>5

(* The player without a timer that has run.                                *)
LEMMA RunTimerFields ==
  ASSUME NEW q \in PlayerType, NEW t \in q.timers
  PROVE  LET n == [q EXCEPT !.timers = @ \ {t}]
         IN /\ n \in PlayerType /\ n.session = q.session /\ n.playing = q.playing
            /\ n.timers = q.timers \ {t} /\ n.frame = q.frame /\ n.starts = q.starts
            /\ n.contexts = q.contexts /\ n.context = q.context /\ n.audio = q.audio
BY DEF PlayerType

LEMMA RunTimerKeeps ==
  ASSUME NEW q \in PlayerType, NEW r, NEW gone, NEW h, PlayerInv(q, r, gone, h),
         NEW t \in q.timers
  PROVE  LET n == [q EXCEPT !.timers = @ \ {t}]
         IN PlayerInv(n, r, gone, h) /\ (Awaited(n) <=> Awaited(q))
<1> DEFINE n == [q EXCEPT !.timers = @ \ {t}]
<1>1. /\ n \in PlayerType /\ n.session = q.session /\ n.playing = q.playing
      /\ n.timers = q.timers \ {t} /\ n.frame = q.frame /\ n.starts = q.starts
      /\ n.contexts = q.contexts /\ n.context = q.context /\ n.audio = q.audio
  BY RunTimerFields
<1> HIDE DEF n
<1> USE DEF PlayerInv
<1>2. Awaited(n) <=> Awaited(q)
  BY <1>1 DEF Awaited
<1>3. StartsInv(n)
  BY <1>1, <1>2 DEF StartsInv
<1>4. TimersInv(n)
  BY <1>1, <1>2 DEF TimersInv
<1>5. ContextsInv(n, gone)
  BY <1>1 DEF ContextsInv
<1>6. RateInv(n, r, h)
  BY <1>1 DEF RateInv
<1> QED BY <1>1, <1>2, <1>3, <1>4, <1>5, <1>6 DEF n

LEMMA ReplayTimerKeeps ==
  ASSUME Inv, NEW t \in player.timers, ReplayTimer(t)
  PROVE  Inv'
<1> DEFINE p == [player EXCEPT !.timers = @ \ {t}]
<1>1. t.kind = "replay" /\ Quiet
      /\ player' = IF p.session = t.session THEN Asked(p, mode, t.rate) ELSE p
  BY DEF ReplayTimer, IsCurrent
<1>2. /\ PlayerInv(player, rate, leaked, hasty) /\ player \in PlayerType /\ t \in TimerType
      /\ mode \in Modes /\ rate \in Rates
      /\ ~mounted => AtRest(player)
  BY InvParts DEF PlayerInv, PlayerType
<1>3. /\ p \in PlayerType /\ p.session = player.session /\ p.playing = player.playing
      /\ p.timers = player.timers \ {t} /\ p.frame = player.frame
  BY <1>2, RunTimerFields
<1>4. PlayerInv(p, rate, leaked, hasty)
  BY <1>2, RunTimerKeeps
<1> HIDE DEF p
<1>5. /\ t.session = player.session /\ ~player.playing /\ mounted /\ t.rate \in Rates
      /\ player.session + 1 \notin hasty => t.rate = rate
  BY <1>1, <1>2 DEF PlayerInv, TimersInv, RateInv, AtRest, TimerType
<1>6. player' = Asked(p, mode, t.rate)
  BY <1>1, <1>3, <1>5
<1>7. PlayerInv(player', rate, leaked \cup {}, hasty) /\ Awaited(player')
  BY <1>2, <1>3, <1>4, <1>5, <1>6, AskedAwaited DEF PlayerInv
<1>8. leaked \cup {} = leaked
  OBVIOUS
<1> QED BY <1>1, <1>5, <1>7, <1>8, QuietKeeps

LEMMA ChartEndsKeeps ==
  ASSUME Inv, NEW t \in player.timers, ChartEnds(t)
  PROVE  Inv'
<1> DEFINE p == [player EXCEPT !.timers = @ \ {t}]
<1>1. Quiet /\ player' = p
  BY DEF ChartEnds
<1>2. /\ PlayerInv(player, rate, leaked, hasty) /\ player \in PlayerType
      /\ player.playing => Awaited(player) \/ player.frame = player.session \/ ~mounted
      /\ ~mounted => AtRest(player)
  BY InvParts DEF PlayerInv
<1>3. /\ p.session = player.session /\ p.playing = player.playing /\ p.frame = player.frame
      /\ p.audio = player.audio /\ p.timers = player.timers \ {t}
  BY <1>2, RunTimerFields
<1>4. PlayerInv(p, rate, leaked, hasty) /\ (Awaited(p) <=> Awaited(player))
  BY <1>2, RunTimerKeeps
<1> HIDE DEF p
<1>5. mounted
  BY <1>2 DEF AtRest
<1> QED BY <1>1, <1>2, <1>3, <1>4, <1>5, QuietKeeps

LEMMA FrameKeeps ==
  ASSUME Inv, Frame
  PROVE  Inv'
BY StopKeeps, InvParts DEF Frame, Quiet, history

(* Another event, or silence, of the audio element.                        *)
LEMMA HushedFields ==
  ASSUME NEW q \in PlayerType, NEW a \in AudioType
  PROVE  LET n == [q EXCEPT !.audio = a]
         IN /\ n \in PlayerType /\ n.session = q.session /\ n.playing = q.playing
            /\ n.timers = q.timers /\ n.frame = q.frame /\ n.starts = q.starts
            /\ n.contexts = q.contexts /\ n.context = q.context /\ n.audio = a
BY DEF PlayerType

LEMMA HushedKeeps ==
  ASSUME NEW q \in PlayerType, NEW r, NEW gone, NEW h, PlayerInv(q, r, gone, h),
         NEW a \in AudioType, ~a.playing, a.rate = q.audio.rate
  PROVE  LET n == [q EXCEPT !.audio = a]
         IN PlayerInv(n, r, gone, h) /\ (Awaited(n) <=> Awaited(q))
<1> DEFINE n == [q EXCEPT !.audio = a]
<1>1. /\ n \in PlayerType /\ n.session = q.session /\ n.playing = q.playing
      /\ n.timers = q.timers /\ n.frame = q.frame /\ n.starts = q.starts
      /\ n.contexts = q.contexts /\ n.context = q.context /\ n.audio = a
  BY HushedFields
<1> HIDE DEF n
<1> USE DEF PlayerInv
<1>2. Awaited(n) <=> Awaited(q)
  BY <1>1 DEF Awaited
<1>3. StartsInv(n)
  BY <1>1, <1>2 DEF StartsInv
<1>4. TimersInv(n)
  BY <1>1, <1>2 DEF TimersInv
<1>5. ContextsInv(n, gone)
  BY <1>1 DEF ContextsInv
<1>6. RateInv(n, r, h)
  BY <1>1 DEF RateInv
<1> QED BY <1>1, <1>2, <1>3, <1>4, <1>5, <1>6 DEF n

LEMMA AudioStopsKeeps ==
  ASSUME Inv, AudioStops
  PROVE  Inv'
<1>1. PICK e \in {"none", "ended", "error"} :
        player' = [player EXCEPT !.audio.playing = FALSE, !.audio.event = e]
  BY DEF AudioStops
<1>2. mounted /\ Quiet
  BY DEF AudioStops
<1>3. /\ PlayerInv(player, rate, leaked, hasty) /\ player \in PlayerType
      /\ player.playing => Awaited(player) \/ player.frame = player.session \/ ~mounted
  BY InvParts DEF PlayerInv
<1> DEFINE a == [player.audio EXCEPT !.playing = FALSE, !.event = e]
<1>4. a \in AudioType /\ ~a.playing /\ a.rate = player.audio.rate
  BY <1>3 DEF PlayerType, AudioType
<1>5. player' = [player EXCEPT !.audio = a]
  BY <1>1
<1> HIDE DEF a
<1>6. PlayerInv(player', rate, leaked, hasty) /\ (Awaited(player') <=> Awaited(player))
  BY <1>3, <1>4, <1>5, HushedKeeps
<1>7. /\ player'.playing = player.playing /\ player'.frame = player.frame
      /\ player'.session = player.session
  BY <1>3, <1>4, <1>5, HushedFields
<1> QED BY <1>2, <1>3, <1>6, <1>7, QuietKeeps

LEMMA MediaEventKeeps ==
  ASSUME Inv, MediaEvent
  PROVE  Inv'
<1> DEFINE q == Stopped(player)
           a == [q.audio EXCEPT !.event = "none"]
<1>1. mounted /\ Quiet /\ player' = [q EXCEPT !.audio.event = "none"]
  BY DEF MediaEvent
<1>2. /\ PlayerInv(q, rate, leaked, hasty) /\ q \in PlayerType /\ ~q.playing
      /\ ~q.audio.playing
  BY InvParts, StoppedRests DEF PlayerInv, AtRest
<1> HIDE DEF q
<1>3. a \in AudioType /\ ~a.playing /\ a.rate = q.audio.rate
  BY <1>2 DEF PlayerType, AudioType
<1>4. player' = [q EXCEPT !.audio = a]
  BY <1>1
<1> HIDE DEF a
<1>5. PlayerInv(player', rate, leaked, hasty) /\ ~player'.playing
  BY <1>2, <1>3, <1>4, HushedKeeps, HushedFields
<1> QED BY <1>1, <1>5, QuietKeeps

LEMMA InitInv ==
  ASSUME Init, PlaybackAssumption
  PROVE  Inv
<1>1. 1 \in Rates /\ "original" \in Modes
  BY DEF PlaybackAssumption
<1>2. available \subseteq Modes /\ mode \in Modes
  BY <1>1 DEF Init, Offers, PracticeModes
<1>3. /\ player.playing = FALSE /\ player.session = 0 /\ player.timers = {} /\ player.frame = 0
      /\ player.starts = {} /\ player.contexts = {} /\ player.context = 0
      /\ player.audio.playing = FALSE
  BY DEF Init, NoSession
<1>4. player \in PlayerType
  BY <1>1 DEF Init, PlayerType, AudioType, NoSession
<1> QED BY <1>1, <1>2, <1>3, <1>4
     DEF Init, Inv, StartsInv, TimersInv, ContextsInv, RateInv, Awaited, NoSession

LEMMA NextInv ==
  ASSUME Inv, PlaybackAssumption, [Next]_vars
  PROVE  Inv'
<1>1. CASE PressPlay BY <1>1, PressPlayKeeps
<1>2. CASE PressReplay BY <1>2, PressReplayKeeps
<1>3. CASE Seek BY <1>3, SeekKeeps
<1>4. CASE NewResult BY <1>4, NewResultKeeps
<1>5. CASE Unmount BY <1>5, UnmountKeeps
<1>6. CASE \E m \in Modes : PickMode(m) BY <1>6, PickModeKeeps
<1>7. CASE \E r \in Rates : ChangeRate(r) BY <1>7, ChangeRateKeeps
<1>8. CASE \E st \in player.starts : PlayResolves(st) BY <1>8, PlayResolvesKeeps
<1>9. CASE \E st \in player.starts : PlayRejects(st) BY <1>9, PlayRejectsKeeps
<1>10. CASE \E st \in player.starts : ResumeResolves(st) BY <1>10, ResumeResolvesKeeps
<1>11. CASE \E st \in player.starts : ResumeRejects(st) BY <1>11, ResumeRejectsKeeps
<1>12. CASE \E t \in player.timers : ReplayTimer(t) BY <1>12, ReplayTimerKeeps
<1>13. CASE \E t \in player.timers : ChartEnds(t) BY <1>13, ChartEndsKeeps
<1>14. CASE Frame BY <1>14, FrameKeeps
<1>15. CASE AudioStops BY <1>15, AudioStopsKeeps
<1>16. CASE MediaEvent BY <1>16, MediaEventKeeps
<1>17. CASE Draw \/ UNCHANGED vars
  <2>1. UNCHANGED <<mounted, available, mode, rate, player, hasty, leaked>>
    BY <1>17 DEF Draw, vars, history
  <2> QED BY <2>1 DEF Inv, StartsInv, TimersInv, ContextsInv, RateInv, Awaited
<1> QED BY <1>1, <1>2, <1>3, <1>4, <1>5, <1>6, <1>7, <1>8, <1>9, <1>10, <1>11, <1>12, <1>13,
           <1>14, <1>15, <1>16, <1>17 DEF Next

LEMMA PlaybackInvariant == Spec => []Inv
BY PlaybackAssumption, InitInv, NextInv, PTL DEF Spec

-----------------------------------------------------------------------------
(* Whatever order clicks, answers, timers, frames, media events and other  *)
(* results come in, no timer, frame loop, sound or open audio context is   *)
(* left of a session that is over; see stop, playFrom and                  *)
(* cleanupFailedChartStart of PracticePlaybackPanel.                       *)
THEOREM NothingIsLeftBehind == Spec => []NothingOutlivesItsSession
<1>1. Inv => NothingOutlivesItsSession
  BY DEF Inv, StartsInv, TimersInv, ContextsInv, Awaited, NothingOutlivesItsSession, IsCurrent
<1> QED BY <1>1, PlaybackInvariant, PTL

(* Drums and audio play at the rate that the panel shows, for every set of *)
(* rates, but in the sessions whose rate was changed as they were starting *)
(* (changeRate restarts only what it saw playing).                         *)
THEOREM DrumsKeepTheRate == Spec => []RatesAgree
<1>1. Inv => RatesAgree
  BY DEF Inv, RateInv, RatesAgree
<1> QED BY <1>1, PlaybackInvariant, PTL
=============================================================================
