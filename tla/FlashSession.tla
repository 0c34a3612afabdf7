------------------------------ MODULE FlashSession ------------------------------
(***************************************************************************)
(* main/flash_session.cpp: a spoken dialogue over one websocket, held by   *)
(* the Confirm key.  Five tasks share g_flash: the UI task (key and page), *)
(* the capture task, the playback task, the task of the websocket client   *)
(* (all events), and the lifecycle task that stops a session which ended   *)
(* by itself.  StopFlashSession is run by two of them, also at once.       *)
(*                                                                         *)
(* A section under g_flash.mutex is one step; steps that commute with what *)
(* the other tasks do are joined.  Texts are present or not, audio is      *)
(* counted in blocks; a wait that may give up is a fault.  A client that   *)
(* lost its connection opens another after 2 s; the stop that the loss     *)
(* asks for begins after 20 ms, so the new connection is left out.         *)
(***************************************************************************)
EXTENDS Naturals, Sequences

CONSTANTS MaxGestures,    \* bound: presses of the key and departures from the page
          MaxBlocks,      \* bound: blocks of reply audio
          MaxFlashFaults  \* bound: failures, expired waits, errors and lost connections

ASSUME FlashAssumption == {MaxGestures, MaxBlocks, MaxFlashFaults} \subseteq Nat

VARIABLES
    flash,    \* g_flash: status, client, connection, key, capture, sequence, response
    chat,     \* the assembly of the current turn, and the rows of the history
    capture,  \* stream_task
    play,     \* playback_task, its ring buffer and its flags
    audio,    \* g_flash_audio_session, stream_rx, stream_tx, GPIO46
    flashPc,  \* the UI task and the lifecycle task
    local,    \* their local variables
    ending,   \* g_intentional_stop and g_terminal_reason
    ws,       \* of each client: its task
    server,   \* the response it generates, and the transcripts it owes
    past      \* counters, and what the turn under way has seen

flashVars == <<flash, chat, capture, play, audio, flashPc, local, ending, ws, server, past>>

Stoppers == {"ui", "life"}
Clients == 1..MaxGestures
NoTurn == [user |-> FALSE, think |-> FALSE, text |-> FALSE, done |-> FALSE,
           thinkRow |-> FALSE, textRow |-> FALSE]
FreshPlayback == [at |-> "receive", ring |-> 0, queued |-> 0, drain |-> FALSE, abort |-> FALSE,
                  writing |-> FALSE, armed |-> FALSE, stop |-> FALSE]

\* InitFlashSession has run.
FlashInit ==
    /\ flash = [status |-> "idle", client |-> 0, connected |-> FALSE, pressed |-> FALSE,
                capturing |-> FALSE, seq |-> 0, base |-> 0, inFlight |-> FALSE]
    /\ chat = [turn |-> NoTurn, rows |-> <<>>]
    /\ capture = "none"
    /\ play = FreshPlayback
    /\ audio = [session |-> FALSE, rx |-> FALSE, tx |-> FALSE, amp |-> FALSE]
    /\ flashPc = [ui |-> "idle", life |-> "idle"]
    /\ local = [again |-> FALSE, held |-> FALSE, was |-> FALSE, connected |-> FALSE, to |-> 0,
                dead |-> [t \in Stoppers |-> 0]]
    /\ ending = [intentional |-> FALSE, reason |-> FALSE]
    /\ ws = [c \in Clients |-> [state |-> "none", busy |-> "no"]]
    /\ server = [on |-> 0, told |-> {}, asr |-> 0]
    /\ past = [gestures |-> 0, clients |-> 0, blocks |-> 0, faults |-> 0,
               warm |-> FALSE, heard |-> FALSE, stray |-> FALSE, emptyTurn |-> FALSE,
               overlap |-> FALSE]

Goto(t, place) == flashPc' = [flashPc EXCEPT ![t] = place]
Fault == past.faults < MaxFlashFaults /\ past' = [past EXCEPT !.faults = @ + 1]

\* Effects on the shared state, by the functions that have them.
SetErrorLocked(f) == [f EXCEPT !.status = "error", !.inFlight = FALSE]
RequestFlashTerminalStop == ending' = [ending EXCEPT !.reason = @ \/ ~ending.intentional]
SetStreamAudioAmp(on) ==
    audio' = [audio EXCEPT !.amp = IF audio.session THEN on ELSE @]
DrainPlaybackRingbuf == [play EXCEPT !.drain = TRUE, !.abort = TRUE, !.armed = FALSE]
EndAudioActivity == [audio EXCEPT !.session = FALSE, !.amp = FALSE]

EnsureThinkingEarly(c) ==
    IF c.turn.think /\ ~c.turn.thinkRow
    THEN [turn |-> [c.turn EXCEPT !.thinkRow = TRUE], rows |-> Append(c.rows, "thinking")]
    ELSE c
EnsureThinking(c) ==
    IF c.turn.user /\ c.turn.think /\ ~c.turn.thinkRow
    THEN [turn |-> [c.turn EXCEPT !.thinkRow = TRUE], rows |-> Append(c.rows, "thinking")]
    ELSE c

FinalizeAssistant(c) ==
    IF c.turn.user /\ c.turn.text /\ ~c.turn.textRow
    THEN [turn |-> [c.turn EXCEPT !.textRow = TRUE], rows |-> Append(c.rows, "assistant")]
    ELSE c

--------------------------------------------------------------------------------
(* StopFlashSession, by the UI task or the lifecycle task *)

StopBegins(t) ==
    /\ flashPc[t] = "stop"
    /\ ending' = [ending EXCEPT !.intentional = TRUE]
    /\ flash' = [flash EXCEPT !.capturing = FALSE, !.pressed = FALSE]
    /\ Goto(t, IF capture # "none" THEN "join" ELSE "drain")
    /\ UNCHANGED <<chat, capture, play, audio, local, ws, server, past>>

\* StopAudioStreaming: the capture task is waited for, 3 s at most.
Join(t) ==
    /\ flashPc[t] = "join"
    /\ \/ capture = "none" /\ UNCHANGED past
       \/ capture # "none" /\ Fault
    /\ Goto(t, "drain")
    /\ UNCHANGED <<flash, chat, capture, play, audio, local, ending, ws, server>>

StopPlayback(t) ==
    /\ flashPc[t] = "drain"
    /\ play' = DrainPlaybackRingbuf
    /\ SetStreamAudioAmp(FALSE)
    /\ Goto(t, "detach")
    /\ UNCHANGED <<flash, chat, capture, local, ending, ws, server, past>>

Detach(t) ==
    /\ flashPc[t] = "detach"
    /\ local' = [local EXCEPT !.dead[t] = flash.client]
    /\ flash' = [flash EXCEPT !.client = 0, !.status = "idle",
                              !.connected = @ /\ flash.client = 0]
    /\ Goto(t, "destroy")
    /\ UNCHANGED <<chat, capture, play, audio, ending, ws, server, past>>

\* The client's task ends its handler first.
Destroy(t) ==
    LET c == local.dead[t] IN
    /\ flashPc[t] = "destroy"
    /\ IF c = 0 THEN UNCHANGED <<ws, server>>
       ELSE /\ ws[c].busy = "no"
            /\ ws' = [ws EXCEPT ![c].state = "none"]
            /\ server' = IF server.on = c THEN [on |-> 0, told |-> {}, asr |-> 0] ELSE server
    /\ local' = [local EXCEPT !.dead[t] = 0]
    /\ Goto(t, "linger")
    /\ UNCHANGED <<flash, chat, capture, play, audio, ending, past>>

\* Another 1.5 s for the capture task.
Linger(t) ==
    /\ flashPc[t] = "linger"
    /\ \/ capture = "none" /\ UNCHANGED past
       \/ capture # "none" /\ Fault
    /\ Goto(t, "halt")
    /\ UNCHANGED <<flash, chat, capture, play, audio, local, ending, ws, server>>

HaltPlayback(t) ==
    /\ flashPc[t] = "halt"
    /\ play' = IF play.at = "none" THEN play ELSE [play EXCEPT !.drain = TRUE, !.stop = TRUE]
    /\ Goto(t, "halting")
    /\ UNCHANGED <<flash, chat, capture, audio, local, ending, ws, server, past>>

\* TearDownStreamChannels removes a channel only when its task has gone, a request
\* to go is not enough; the removal of either may fail.
PlaybackGoneOnRequest == play.stop
PlaybackGone == play.at = "none"

CaptureGoneOnRequest == ~flash.capturing
CaptureGone == capture = "none"

TearDown(t) ==
    /\ flashPc[t] = "halting"
    /\ \E keepTx \in {~PlaybackGone, ~PlaybackGone \/ audio.tx},
          keepRx \in {~CaptureGone, ~CaptureGone \/ audio.rx} :
        /\ IF ~keepTx /\ keepRx = ~CaptureGone THEN UNCHANGED past ELSE Fault
        /\ audio' = [audio EXCEPT !.tx = @ /\ keepTx, !.rx = @ /\ keepRx]
    /\ Goto(t, IF audio'.rx \/ audio'.tx THEN "retain" ELSE "end")
    /\ UNCHANGED <<flash, chat, capture, play, local, ending, ws, server>>

\* With a channel left the session is retained, and the audio service refuses to
\* end it if one was opened since, or if the amplifier does not answer.
MayEndAnyway(t) == flashPc[t] \in {"end", "retain"}
MayEnd(t) == flashPc[t] = "end" /\ ~audio.rx /\ ~audio.tx

StopEnds(t) ==
    /\ flashPc[t] \in {"end", "retain"}
    /\ \/ MayEnd(t) /\ audio' = EndAudioActivity /\ UNCHANGED past
       \/ ~MayEnd(t) /\ UNCHANGED <<audio, past>>
       \/ MayEnd(t) /\ Fault /\ UNCHANGED audio
    /\ ending' = [ending EXCEPT !.intentional = FALSE]
    /\ Goto(t, IF t = "life" THEN "report" ELSE IF local.again THEN "start" ELSE "idle")
    /\ local' = [local EXCEPT !.again = @ /\ t = "life"]
    /\ UNCHANGED <<flash, chat, capture, play, ws, server>>

Stop(t) ==
    \/ StopBegins(t) \/ Join(t) \/ StopPlayback(t) \/ Detach(t) \/ Destroy(t) \/ Linger(t)
    \/ HaltPlayback(t) \/ TearDown(t) \/ StopEnds(t)

\* FlashLifecycleTask
LifecycleWakes ==
    /\ flashPc.life = "idle" /\ ending.reason
    /\ ending' = [ending EXCEPT !.reason = FALSE]
    /\ Goto("life", "stop")
    /\ UNCHANGED <<flash, chat, capture, play, audio, local, ws, server, past>>

LifecycleReports ==
    /\ flashPc.life = "report"
    /\ flash' = SetErrorLocked(flash)
    /\ Goto("life", "idle")
    /\ UNCHANGED <<chat, capture, play, audio, local, ending, ws, server, past>>

--------------------------------------------------------------------------------
(* UI task: the key and the page *)

Gesture == flashPc.ui = "idle" /\ past.gestures < MaxGestures
Gestured == past' = [past EXCEPT !.gestures = @ + 1]

\* OnFlashButtonPressed: a session that failed is stopped, then started anew.
PressKey ==
    /\ Gesture /\ Gestured /\ ~local.held
    /\ local' = [local EXCEPT !.held = TRUE, !.again = flash.status = "error"]
    /\ Goto("ui", CASE flash.status = "error" -> "stop"
                    [] flash.status = "idle" -> "start"
                    [] OTHER -> "press")
    /\ UNCHANGED <<flash, chat, capture, play, audio, ending, ws, server>>

\* The page is left: a key still held is forgotten.
LeavePage ==
    /\ Gesture /\ Gestured
    /\ local' = [local EXCEPT !.held = FALSE]
    /\ Goto("ui", "stop")
    /\ UNCHANGED <<flash, chat, capture, play, audio, ending, ws, server>>

EnsurePlaybackRingbuf ==
    /\ flashPc.ui = "start"
    /\ play' = IF play.at = "none" THEN FreshPlayback ELSE play
    /\ Goto("ui", "begin")
    /\ UNCHANGED <<flash, chat, capture, audio, local, ending, ws, server, past>>

\* A session still held refuses the start; so may the audio service.
BeginSession ==
    /\ flashPc.ui = "begin"
    /\ \/ /\ flash.client # 0 \/ flash.status \notin {"idle", "error"} \/ audio.session
          /\ Goto("ui", "press") /\ UNCHANGED <<flash, chat, audio, past>>
       \/ /\ flash.client = 0 /\ flash.status \in {"idle", "error"} /\ ~audio.session
          /\ \/ Fault /\ Goto("ui", "press") /\ UNCHANGED <<flash, chat, audio>>
             \/ /\ audio' = [audio EXCEPT !.session = TRUE]
                /\ flash' = [flash EXCEPT !.status = "connecting", !.inFlight = FALSE]
                /\ chat' = [chat EXCEPT !.turn.think = FALSE, !.turn.text = FALSE]
                /\ Goto("ui", "connect") /\ UNCHANGED past
    /\ UNCHANGED <<capture, play, local, ending, ws, server>>

\* Wi-Fi, token and client; whatever fails ends the audio session, which the audio
\* service refuses once a capture task of before has opened its channels under it.
OpenClient ==
    /\ flashPc.ui = "connect"
    /\ \/ /\ LET c == past.clients + 1 IN
             /\ past' = [past EXCEPT !.clients = c]
             /\ flash' = [flash EXCEPT !.client = c]
             /\ ws' = [ws EXCEPT ![c].state = "connecting"]
          /\ UNCHANGED audio
       \/ /\ Fault
          /\ flash' = SetErrorLocked(flash)
          /\ audio' = IF audio.rx \/ audio.tx THEN audio ELSE EndAudioActivity
          /\ UNCHANGED ws
    /\ Goto("ui", "press")
    /\ UNCHANGED <<chat, capture, play, local, ending, server>>

Talking == flash.connected /\ flash.status \in {"streaming", "updating"}

\* A turn begins on an open session; a press before that waits for session.ready.
Press ==
    /\ flashPc.ui = "press"
    /\ flash' = [flash EXCEPT !.pressed = TRUE,
                              !.capturing = @ \/ Talking,
                              !.base = IF Talking THEN flash.seq ELSE @]
    /\ chat' = IF Talking THEN [chat EXCEPT !.turn = NoTurn] ELSE chat
    /\ past' = IF Talking THEN [past EXCEPT !.warm = TRUE, !.heard = FALSE] ELSE past
    /\ Goto("ui", IF ~Talking THEN "idle" ELSE IF flash.inFlight THEN "silence" ELSE "listen")
    /\ UNCHANGED <<capture, play, audio, local, ending, ws, server>>

\* Barge-in: the reply is drained and the server told to cancel it.
BargeIn ==
    /\ flashPc.ui = "silence"
    /\ play' = DrainPlaybackRingbuf
    /\ SetStreamAudioAmp(FALSE)
    /\ Goto("ui", "listen")
    /\ UNCHANGED <<flash, chat, capture, local, ending, ws, server, past>>

\* StartAudioStreaming; the creation of the task may fail.
StartAudioStreaming ==
    IF capture # "none" THEN UNCHANGED <<flash, capture, play, audio, ending, past>>
    ELSE /\ play' = [play EXCEPT !.abort = TRUE, !.armed = FALSE]
         /\ SetStreamAudioAmp(FALSE)
         /\ \/ capture' = "warmup" /\ UNCHANGED <<flash, ending, past>>
            \/ /\ Fault
               /\ flash' = SetErrorLocked([flash EXCEPT !.capturing = FALSE])
               /\ RequestFlashTerminalStop
               /\ UNCHANGED capture

Listen ==
    /\ flashPc.ui = "listen"
    /\ StartAudioStreaming
    /\ Goto("ui", "idle")
    /\ UNCHANGED <<chat, local, ws, server>>

\* OnFlashButtonReleased
ReleaseKey ==
    /\ flashPc.ui = "idle" /\ local.held
    /\ local' = [local EXCEPT !.held = FALSE, !.was = flash.capturing,
                              !.connected = flash.connected]
    /\ flash' = [flash EXCEPT !.capturing = FALSE, !.pressed = FALSE]
    /\ Goto("ui", IF flash.capturing /\ capture # "none" THEN "await" ELSE "mute")
    /\ UNCHANGED <<chat, capture, play, audio, ending, ws, server, past>>

AwaitCapture ==
    /\ flashPc.ui = "await"
    /\ \/ capture = "none" /\ UNCHANGED past
       \/ capture # "none" /\ Fault
    /\ Goto("ui", "mute")
    /\ UNCHANGED <<flash, chat, capture, play, audio, local, ending, ws, server>>

Mute ==
    /\ flashPc.ui = "mute"
    /\ play' = [play EXCEPT !.abort = TRUE, !.armed = FALSE]
    /\ SetStreamAudioAmp(FALSE)
    /\ Goto("ui", "submit")
    /\ UNCHANGED <<flash, chat, capture, local, ending, ws, server, past>>

\* The turn is submitted if audio was sent and no response is under way.
MaySubmitBusy ==
    local.connected /\ flash.client # 0 /\ local.was /\ flash.seq # flash.base
MaySubmitSilence ==
    local.connected /\ flash.client # 0 /\ local.was /\ ~flash.inFlight
MaySubmit ==
    /\ local.connected /\ flash.client # 0 /\ local.was
    /\ flash.seq # flash.base
    /\ ~flash.inFlight

Submit ==
    /\ flashPc.ui = "submit"
    /\ play' = [play EXCEPT !.abort = @ /\ ~local.was]
    /\ IF MaySubmit
       THEN /\ flash' = [flash EXCEPT !.seq = @ + 1, !.inFlight = TRUE]
            /\ Goto("ui", "send")
       ELSE Goto("ui", "idle") /\ UNCHANGED flash
    /\ local' = [local EXCEPT !.was = FALSE, !.connected = FALSE,
                              !.to = IF MaySubmit THEN flash.client ELSE 0]
    /\ UNCHANGED <<chat, capture, audio, ending, ws, server, past>>

\* The final frame, sent without the lock: the client may be gone.
SendTurnEnd ==
    /\ flashPc.ui = "send"
    /\ IF ws[local.to].state = "up"
       THEN /\ server' = [on |-> local.to, told |-> {}, asr |-> server.asr + 1]
            /\ past' = [past EXCEPT !.emptyTurn = @ \/ (past.warm /\ ~past.heard),
                                    !.overlap = @ \/ server.on = local.to]
       ELSE UNCHANGED <<server, past>>
    /\ local' = [local EXCEPT !.to = 0]
    /\ Goto("ui", "idle")
    /\ UNCHANGED <<flash, chat, capture, play, audio, ending, ws>>

\* AbortFlashPlayback, by another key while the page shows the reply as spoken,
\* which it may no longer be.
AbortFlashPlayback ==
    /\ Gesture /\ Gestured
    /\ past.blocks > 0
    /\ play' = DrainPlaybackRingbuf
    /\ SetStreamAudioAmp(FALSE)
    /\ UNCHANGED <<flash, chat, capture, flashPc, local, ending, ws, server>>

\* CheckAmpIdleTail
PollFlashAmpIdle ==
    /\ flashPc.ui = "idle"
    /\ play.armed /\ ~play.writing /\ play.queued = 0
    /\ play' = [play EXCEPT !.armed = FALSE]
    /\ SetStreamAudioAmp(FALSE)
    /\ UNCHANGED <<flash, chat, capture, flashPc, local, ending, ws, server, past>>

Ui ==
    \/ PressKey \/ LeavePage \/ ReleaseKey \/ AbortFlashPlayback \/ PollFlashAmpIdle
    \/ EnsurePlaybackRingbuf \/ BeginSession \/ OpenClient \/ Press \/ BargeIn \/ Listen
    \/ AwaitCapture \/ Mute \/ Submit \/ SendTurnEnd

--------------------------------------------------------------------------------
(* AudioStreamingTask *)

\* Bus, codec and channels, under the audio session only.  The channels are made
\* together: none is made beside a stream_tx that was left.
OpenCapture ==
    LET possible == audio.session /\ (audio.rx \/ ~audio.tx) IN
    /\ capture = "warmup"
    /\ \/ /\ possible
          /\ capture' = "read"
          /\ audio' = [audio EXCEPT !.tx = @ \/ ~audio.rx, !.rx = TRUE]
          /\ UNCHANGED <<flash, ending, past>>
       \/ /\ IF possible THEN Fault ELSE UNCHANGED past
          /\ capture' = "none"
          /\ flash' = SetErrorLocked([flash EXCEPT !.capturing = FALSE])
          /\ RequestFlashTerminalStop
          /\ UNCHANGED audio
    /\ UNCHANGED <<chat, play, flashPc, local, ws, server>>

ReadBlock ==
    /\ capture = "read"
    /\ capture' = IF flash.capturing THEN "send" ELSE "exit"
    /\ UNCHANGED <<flash, chat, play, audio, flashPc, local, ending, ws, server, past>>

\* A second block of a turn changes nothing that the first has not.
SendBlock ==
    /\ capture = "send"
    /\ capture' = "read"
    /\ IF flash.connected /\ flash.client # 0 /\ ~past.heard
       THEN /\ flash' = [flash EXCEPT !.seq = @ + 1]
            /\ past' = [past EXCEPT !.heard = TRUE]
       ELSE UNCHANGED <<flash, past>>
    /\ UNCHANGED <<chat, play, audio, flashPc, local, ending, ws, server>>

FinishAudioStreamingTask ==
    /\ capture = "exit"
    /\ capture' = "none"
    /\ flash' = [flash EXCEPT !.capturing = FALSE]
    /\ UNCHANGED <<chat, play, audio, flashPc, local, ending, ws, server, past>>

Capture == OpenCapture \/ ReadBlock \/ SendBlock \/ FinishAudioStreamingTask

--------------------------------------------------------------------------------
(* FlashPlaybackTask *)

Receive ==
    /\ play.at = "receive"
    /\ \/ play.stop /\ play' = [play EXCEPT !.at = "none"]
       \/ /\ ~play.stop /\ play.ring > 0
          /\ play' = [play EXCEPT !.at = IF play.drain THEN "discard" ELSE "check",
                                  !.ring = @ - 1]
    /\ UNCHANGED <<flash, chat, capture, audio, flashPc, local, ending, ws, server, past>>

\* The drain empties the buffer first and clears the flags after.
Discard ==
    /\ \/ /\ play.at = "discard"
          /\ play' = [play EXCEPT !.at = "drained", !.ring = 0, !.queued = 0, !.drain = FALSE]
       \/ /\ play.at = "drained"
          /\ play' = [play EXCEPT !.at = "receive", !.writing = FALSE, !.abort = FALSE,
                                  !.armed = FALSE]
    /\ UNCHANGED <<flash, chat, capture, audio, flashPc, local, ending, ws, server, past>>

\* Without a channel, or after an abort, the block is given back, and that drops it.
CheckBlock ==
    LET aborted == play.abort \/ play.drain IN
    /\ play.at = "check"
    /\ play' = CASE ~audio.tx -> [play EXCEPT !.at = "receive"]
                 [] audio.tx /\ aborted ->
                        [play EXCEPT !.at = "receive", !.writing = FALSE, !.armed = FALSE]
                 [] OTHER -> [play EXCEPT !.at = "open", !.writing = TRUE, !.armed = FALSE]
    /\ UNCHANGED <<flash, chat, capture, audio, flashPc, local, ending, ws, server, past>>

OpenAmplifier ==
    /\ play.at = "open"
    /\ SetStreamAudioAmp(TRUE)
    /\ play' = [play EXCEPT !.at = "write"]
    /\ UNCHANGED <<flash, chat, capture, flashPc, local, ending, ws, server, past>>

WriteBlock ==
    /\ play.at = "write"
    /\ play' = [play EXCEPT !.at = "written",
                            !.queued = IF @ > 0 THEN @ - 1 ELSE 0]
    /\ UNCHANGED <<flash, chat, capture, audio, flashPc, local, ending, ws, server, past>>

ArmTail ==
    /\ play.at = "written"
    /\ play' = [play EXCEPT !.at = "receive", !.writing = FALSE, !.abort = FALSE,
                            !.armed = ~play.abort]
    /\ UNCHANGED <<flash, chat, capture, audio, flashPc, local, ending, ws, server, past>>

Playback == Receive \/ Discard \/ CheckBlock \/ OpenAmplifier \/ WriteBlock \/ ArmTail

--------------------------------------------------------------------------------
(* WebsocketEventHandler, in the task of client c *)

\* The handler does not ask whose connection it is: that of a client a stop has
\* detached, and that completes before it is destroyed, counts as well.
Connected(c) ==
    /\ ws[c].state = "connecting"
    /\ ws' = [ws EXCEPT ![c].state = "up"]
    /\ flash' = [flash EXCEPT !.connected = TRUE, !.status = "updating", !.seq = 0]
    /\ past' = [past EXCEPT !.stray = @ \/ c # flash.client]
    /\ UNCHANGED <<chat, capture, play, audio, flashPc, local, ending, server>>

\* session.ready: a key held since before starts the recording at once.
SessionReady(c) ==
    LET record == flash.pressed /\ ~flash.capturing IN
    /\ ws[c].state = "up" /\ ws[c].busy = "no"
    /\ flash.status \in {"connecting", "updating"}
    /\ flash' = [flash EXCEPT !.status = "streaming", !.capturing = @ \/ record]
    /\ ws' = [ws EXCEPT ![c].busy = IF record THEN "starting" ELSE "no"]
    /\ past' = IF record THEN [past EXCEPT !.warm = FALSE, !.heard = FALSE] ELSE past
    /\ UNCHANGED <<chat, capture, play, audio, flashPc, local, ending, server>>

AutoRecord(c) ==
    /\ ws[c].busy = "starting"
    /\ ws' = [ws EXCEPT ![c].busy = "no"]
    /\ StartAudioStreaming
    /\ UNCHANGED <<chat, flashPc, local, server>>

\* Free to handle the next event of the response the server sends to c.
Hearing(c) == ws[c].state = "up" /\ ws[c].busy = "no" /\ server.on = c
Handled == UNCHANGED <<capture, play, audio, flashPc, local, ending, ws, past>>

\* asr.complete, which may come after the end of the response.
TranscriptArrives(c) ==
    /\ ws[c].state = "up" /\ ws[c].busy = "no" /\ server.asr > 0
    /\ server' = [server EXCEPT !.asr = @ - 1]
    /\ LET said == IF chat.turn.user THEN chat
                   ELSE [turn |-> [chat.turn EXCEPT !.user = TRUE],
                         rows |-> Append(chat.rows, "user")]
           shown == EnsureThinking(said)
       IN chat' = IF chat.turn.done THEN FinalizeAssistant(shown) ELSE shown
    /\ UNCHANGED flash /\ Handled

ThinkingArrives(c) ==
    /\ Hearing(c) /\ server.told = {}
    /\ server' = [server EXCEPT !.told = {"thinking"}]
    /\ chat' = EnsureThinking([chat EXCEPT !.turn.think = TRUE])
    /\ UNCHANGED flash /\ Handled

TextArrives(c) ==
    /\ Hearing(c) /\ "text" \notin server.told
    /\ server' = [server EXCEPT !.told = @ \cup {"text"}]
    /\ chat' = [chat EXCEPT !.turn.text = TRUE]
    /\ UNCHANGED flash /\ Handled

TurnDone(c) ==
    /\ Hearing(c)
    /\ server' = [server EXCEPT !.on = 0]
    /\ flash' = [flash EXCEPT !.inFlight = FALSE]
    /\ chat' = LET over == [chat EXCEPT !.turn.done = TRUE]
               IN IF over.turn.user THEN FinalizeAssistant(EnsureThinking(over)) ELSE over
    /\ Handled

\* HandleV2DownlinkAudio: the block is in the buffer before it is counted.
AudioArrives(c) ==
    /\ Hearing(c) /\ past.blocks < MaxBlocks
    /\ past' = [past EXCEPT !.blocks = @ + 1]
    /\ ws' = [ws EXCEPT ![c].busy = "counting"]
    /\ play' = [play EXCEPT !.ring = @ + 1]
    /\ UNCHANGED <<flash, chat, capture, audio, flashPc, local, ending, server>>

AudioCounted(c) ==
    /\ ws[c].busy = "counting"
    /\ ws' = [ws EXCEPT ![c].busy = "no"]
    /\ play' = [play EXCEPT !.queued = @ + 1]
    /\ UNCHANGED <<flash, chat, capture, audio, flashPc, local, ending, server, past>>

\* An error event ends the response, not the connection; a transport error asks
\* for the end of the session.
ErrorArrives(c) ==
    /\ ws[c].state = "up" /\ ws[c].busy = "no"
    /\ Fault
    /\ flash' = SetErrorLocked(flash)
    /\ server' = IF server.on = c THEN [server EXCEPT !.on = 0] ELSE server
    /\ \/ UNCHANGED ending
       \/ RequestFlashTerminalStop
    /\ UNCHANGED <<chat, capture, play, audio, flashPc, local, ws>>

Disconnected(c) ==
    /\ ws[c].state \in {"connecting", "up"} /\ ws[c].busy = "no"
    /\ Fault
    /\ ws' = [ws EXCEPT ![c].state = "lost"]
    /\ LET apart == [flash EXCEPT !.connected = FALSE] IN
        flash' = IF flash.status = "error" THEN apart ELSE SetErrorLocked(apart)
    /\ server' = IF server.on = c THEN [on |-> 0, told |-> {}, asr |-> 0] ELSE server
    /\ RequestFlashTerminalStop
    /\ UNCHANGED <<chat, capture, play, audio, flashPc, local>>

WebsocketEvent(c) ==
    \/ Connected(c) \/ SessionReady(c) \/ AutoRecord(c)
    \/ TranscriptArrives(c) \/ ThinkingArrives(c) \/ TextArrives(c) \/ TurnDone(c)
    \/ AudioArrives(c) \/ AudioCounted(c) \/ ErrorArrives(c) \/ Disconnected(c)

FlashNext ==
    \/ \E t \in Stoppers : Stop(t)
    \/ LifecycleWakes \/ LifecycleReports
    \/ Ui \/ Capture \/ Playback
    \/ \E c \in Clients : WebsocketEvent(c)

FlashSpec == FlashInit /\ [][FlashNext]_flashVars

--------------------------------------------------------------------------------
(* Properties *)

FlashTypeOK ==
    /\ flash.status \in {"idle", "connecting", "updating", "streaming", "error"}
    /\ flash.client \in 0..MaxGestures
    /\ capture \in {"none", "warmup", "read", "send", "exit"}
    /\ play.at \in {"none", "receive", "check", "discard", "drained", "open", "write", "written"}
    /\ play.ring \in 0..MaxBlocks /\ play.queued \in 0..MaxBlocks

\* As long as nothing fails and no connection of a client that a stop has detached
\* completes after all, the server is never asked for a response while it generates
\* another one of the same connection, whatever barge-ins come between.
OneResponse == past.overlap => past.faults > 0 \/ past.stray

\* A turn begun on an open session is submitted only with audio of its own, over
\* errors, ends and restarts of the session; a stray connection, as above, restarts
\* the sequence that tells.
WarmTurnHasAudio == past.emptyTurn => past.stray

\* However late the transcript and whatever turns it meets, the history shows no
\* reasoning or answer before the words of a user, and one of each after them.
RowsFollowUser ==
    \A i \in DOMAIN chat.rows :
        chat.rows[i] # "user" =>
            \E j \in 1..(i - 1) :
                /\ chat.rows[j] = "user"
                /\ \A k \in (j + 1)..(i - 1) : chat.rows[k] \notin {"user", chat.rows[i]}

\* While a task reads or writes a channel, no stop of the session removes it.
UsersHaveChannels ==
    /\ play.at \in {"open", "write"} => audio.tx
    /\ capture \in {"read", "send"} => audio.rx

\* A channel is open only under the audio session, although channels are opened,
\* removed and left behind by four tasks: the service never sees one without it.
ChannelsWithinSession == audio.rx \/ audio.tx => audio.session

FlashSound == FlashTypeOK /\ OneResponse /\ WarmTurnHasAudio /\ RowsFollowUser
              /\ UsersHaveChannels /\ ChannelsWithinSession
================================================================================
