-------------------------------- MODULE EpdPanel --------------------------------
(***************************************************************************)
(* The panel driver of display_service.cpp: which waveform a frame gets,   *)
(* what the driver believes the panel shows, and the frame it remembers in *)
(* RTC memory across deep sleep.  One caller at a time holds the operation *)
(* mutex, so an operation is interrupted only by a reset.                  *)
(*                                                                         *)
(* A frame is a value; how much two of them differ, and where, is a choice *)
(* made for each refresh.  A frame and its CRC are one.                    *)
(***************************************************************************)
EXTENDS Naturals, FiniteSets

CONSTANTS Frames,        \* what may be drawn
          PartialLimit,  \* kMaxPartialRefreshesBeforeFull
          HeavyLimit,    \* kMaxHeavyPartialsBeforeFull
          CleanupHeavy,  \* kIdleCleanupHeavyPartials
          MaxFailures,   \* bound: transfers that fail
          MaxBoots       \* bound: deep sleeps and resets

\* What is assumed of the constants.
ASSUME LimitsAssumption ==
    /\ {PartialLimit, HeavyLimit, CleanupHeavy} \subseteq Nat \ {0}
    /\ {MaxFailures, MaxBoots} \subseteq Nat

VARIABLES
    \* driver
    op,            \* "idle", "sending", "recover"
    job,           \* the refresh under way
    buffer,        \* g_framebuffer
    previous,      \* g_previous_framebuffer
    synced,        \* g_previous_framebuffer_synced
    partials,      \* g_partial_refreshes_since_full
    heavies,       \* g_heavy_partials_since_full
    fullFrame,     \* g_last_partial_was_full_frame
    hot,           \* g_epd_rail_powered, g_epd_powered and g_hot_refresh_ok
    \* RTC memory and wake context
    rtcFrame,      \* g_rtc_last_frame_crc, NoFrame while it is not valid
    trusted,       \* panel_cache_trusted
    attempted,     \* a frame was refreshed in this boot
    \* panel
    panel,         \* what it shows
    ready,         \* its controller was initialised since the rail came up
    bias,          \* history: partial waveforms since the last full one
    wave,          \* history: the last waveform of this boot
    unrepaired,    \* history: whose transfer failed and no full one has succeeded since
    failures, boots

driverVars == <<op, job, buffer, previous, synced, partials, heavies, fullFrame, hot>>
rtcVars == <<rtcFrame, trusted, attempted>>
panelVars == <<panel, ready, bias, wave>>
historyVars == <<unrepaired, failures, boots>>
epdVars == <<driverVars, rtcVars, panelVars, historyVars>>

NoFrame == "no frame"
Garbled == "garbled"
Cold == [rail |-> FALSE, power |-> FALSE, ok |-> FALSE]
NoJob == [frame |-> NoFrame, wave |-> "none", heavy |-> FALSE, by |-> "none"]

PanelInit ==
    /\ op = "idle" /\ job = NoJob
    /\ buffer = NoFrame /\ previous = NoFrame /\ synced = FALSE
    /\ partials = 0 /\ heavies = 0 /\ fullFrame = FALSE /\ hot = Cold
    /\ rtcFrame = NoFrame /\ trusted = FALSE /\ attempted = FALSE
    /\ panel = NoFrame /\ ready = FALSE /\ bias = 0 /\ wave = "none"
    /\ unrepaired = "none" /\ failures = 0 /\ boots = 0

--------------------------------------------------------------------------------
(* Which waveform *)

CrcMatches(frame) == trusted /\ rtcFrame = frame

\* Mutant of Overused: one partial too many.
OverusedLate == partials > PartialLimit \/ heavies > HeavyLimit

Overused == partials >= PartialLimit \/ heavies >= HeavyLimit

\* Mutant of Strategy: a window may follow a full-frame partial.
StrategyUnescalated(frame, force, local) ==
    IF force \/ ~synced \/ Overused THEN "full"
    ELSE IF local THEN "window" ELSE "frame"

\* The strategy of RefreshEpdFull. "local": the caller allows a window and the
\* dirty rectangle is small enough for one.
Strategy(frame, force, local) ==
    IF force \/ ~synced \/ Overused \/ (local /\ fullFrame) THEN "full"
    ELSE IF local THEN "window" ELSE "frame"

HotReady == hot.rail /\ hot.power /\ hot.ok

--------------------------------------------------------------------------------
(* Operations *)

\* RefreshFrame up to the transfer. Nothing is sent for the frame RTC memory
\* vouches for, nor for one equal to the previous frame.
Refresh(frame, force, local, heavy) ==
    /\ buffer' = frame /\ attempted' = TRUE
    /\ IF ~force /\ CrcMatches(frame)
       THEN synced' = TRUE /\ previous' = frame /\ UNCHANGED <<op, job, hot, ready>>
       ELSE IF synced /\ previous = frame
       THEN UNCHANGED <<op, job, synced, previous, hot, ready>>
       ELSE LET kind == Strategy(frame, force, local)
            IN  /\ op' = "sending"
                /\ job' = [frame |-> frame, wave |-> kind, heavy |-> heavy,
                           by |-> "frame"]
                /\ ready' = (kind # "full" /\ HotReady => ready)
                /\ hot' = IF kind # "full" /\ HotReady THEN hot
                          ELSE [hot EXCEPT !.rail = TRUE, !.power = FALSE]
                /\ UNCHANGED <<synced, previous>>
    /\ UNCHANGED <<partials, heavies, fullFrame, rtcFrame, trusted, panel, bias, wave, historyVars>>

RefreshFrame ==
    /\ op = "idle"
    /\ \E frame \in Frames, force, local, heavy \in BOOLEAN : Refresh(frame, force, local, heavy)

\* A partial waveform drives the pixels that differ from the previous frame:
\* it draws the new one only over the panel the driver believes in.
Drawn == IF job.wave = "full" \/ previous = panel THEN job.frame ELSE Garbled

\* The waveform itself, and what it does to the panel.
Waveform ==
    /\ panel' = Drawn
    /\ bias' = IF job.wave = "full" THEN 0 ELSE bias + 1
    /\ wave' = job.wave

\* Mutant of Commit: every write of the whole frame ends the run of partials.
CommitForgetful ==
    /\ previous' = job.frame /\ synced' = TRUE
    /\ partials' = IF job.wave = "window" THEN partials + 1 ELSE 0
    /\ heavies' = IF job.wave = "window" /\ job.heavy THEN heavies + 1 ELSE 0
    /\ fullFrame' = (job.wave = "frame")
    /\ rtcFrame' = job.frame /\ unrepaired' = IF job.wave = "full" THEN "none" ELSE unrepaired

\* What the driver records of a refresh that succeeded.
Commit ==
    /\ previous' = job.frame /\ synced' = TRUE
    /\ partials' = IF job.wave = "full" THEN 0 ELSE partials + 1
    /\ heavies' = IF job.wave = "full" THEN 0 ELSE heavies + (IF job.heavy THEN 1 ELSE 0)
    /\ fullFrame' = (job.wave = "frame")
    /\ rtcFrame' = job.frame /\ unrepaired' = IF job.wave = "full" THEN "none" ELSE unrepaired

\* TriggerDisplayUpdate: a panel that showed a full frame loses its power at
\* once, one that took a partial stays hot.
Succeed ==
    /\ op = "sending"
    /\ Waveform /\ Commit
    /\ hot' = IF job.wave = "full" THEN Cold ELSE [rail |-> TRUE, power |-> TRUE, ok |-> TRUE]
    /\ ready' = (ready /\ job.wave # "full")
    /\ op' = "idle" /\ job' = NoJob
    /\ UNCHANGED <<buffer, trusted, attempted, failures, boots>>

\* DropEpdHotState(true, true)
DropEpdHotState ==
    /\ hot' = Cold /\ ready' = FALSE
    /\ synced' = FALSE /\ partials' = 0 /\ heavies' = 0 /\ fullFrame' = FALSE

\* A transfer fails before the waveform, during it, or after a full one, when
\* the panel is told to power off.
Fail ==
    /\ op = "sending" /\ failures < MaxFailures
    /\ \/ UNCHANGED <<panel, bias, wave>>
       \/ panel' = Garbled /\ UNCHANGED <<bias, wave>>
       \/ job.wave = "full" /\ Waveform
    /\ DropEpdHotState
    /\ failures' = failures + 1
    /\ unrepaired' = IF unrepaired = "frame" THEN unrepaired ELSE job.by
    /\ op' = IF job.wave = "full" THEN "idle" ELSE "recover"
    /\ job' = IF job.wave = "full" THEN NoJob ELSE job
    /\ UNCHANGED <<buffer, previous, rtcVars, boots>>

\* A partial that failed is followed by a full refresh of the same frame.
Recover ==
    /\ op = "recover" /\ op' = "sending" /\ job' = [job EXCEPT !.wave = "full"]
    /\ ready' = TRUE /\ hot' = [hot EXCEPT !.rail = TRUE]
    /\ UNCHANGED <<buffer, previous, synced, partials, heavies, fullFrame, rtcVars, panel, bias,
                   wave, historyVars>>

\* The full refresh of an idle panel that took heavy partials; the frame is the
\* one in the buffer.
Clean ==
    /\ op = "idle" /\ heavies >= CleanupHeavy
    /\ synced' = FALSE
    /\ op' = "sending" /\ job' = [frame |-> buffer, wave |-> "full", heavy |-> FALSE,
                              by |-> "cleanup"]
    /\ ready' = TRUE /\ hot' = [hot EXCEPT !.rail = TRUE, !.power = FALSE]
    /\ UNCHANGED <<buffer, previous, partials, heavies, fullFrame, rtcVars, panel, bias, wave,
                   historyVars>>

\* Mutant of PowerOffEpd: the panel still counts as hot.
PowerOffKeepsHot ==
    /\ op = "idle" /\ hot.rail
    /\ ready' = FALSE
    /\ UNCHANGED <<op, job, buffer, previous, synced, partials, heavies, fullFrame, hot, rtcVars,
                   panel, bias, wave, historyVars>>

\* PowerOffEpd, of the idle maintenance and of the sleep preparation: the panel
\* keeps its picture and the driver its belief.
PowerOffEpd ==
    /\ op = "idle" /\ hot.rail
    /\ hot' = Cold /\ ready' = FALSE
    /\ UNCHANGED <<op, job, buffer, previous, synced, partials, heavies, fullFrame, rtcVars, panel,
                   bias, wave, historyVars>>

\* Mutant of Boot: RTC memory is trusted whatever reset came before.
BootTrusting(cacheTrusted) ==
    /\ boots < MaxBoots /\ boots' = boots + 1
    /\ op' = "idle" /\ job' = NoJob
    /\ buffer' = NoFrame /\ previous' = NoFrame /\ synced' = FALSE
    /\ partials' = 0 /\ heavies' = 0 /\ fullFrame' = FALSE /\ hot' = Cold
    /\ ready' = FALSE /\ trusted' = TRUE /\ attempted' = FALSE
    /\ wave' = "none"
    /\ UNCHANGED <<rtcFrame, bias, unrepaired, failures>>

\* RAM is lost, RTC memory is kept. CaptureWakeContext trusts it only after a
\* deep sleep the coordinator committed.
Boot(cacheTrusted) ==
    /\ boots < MaxBoots /\ boots' = boots + 1
    /\ op' = "idle" /\ job' = NoJob
    /\ buffer' = NoFrame /\ previous' = NoFrame /\ synced' = FALSE
    /\ partials' = 0 /\ heavies' = 0 /\ fullFrame' = FALSE /\ hot' = Cold
    /\ ready' = FALSE /\ trusted' = cacheTrusted /\ attempted' = FALSE
    /\ wave' = "none"
    /\ UNCHANGED <<rtcFrame, bias, unrepaired, failures>>

\* Deep sleep begins after the rail is off and the first frame of the boot.
PanelSleep ==
    /\ op = "idle" /\ ~hot.rail /\ attempted
    /\ Boot(TRUE) /\ UNCHANGED panel

\* A panic, the watchdog or a brownout, also in the middle of a waveform.
Reset ==
    /\ Boot(FALSE)
    /\ \/ UNCHANGED panel
       \/ op = "sending" /\ panel' \in {Garbled, Drawn}

PanelNext ==
    RefreshFrame \/ Succeed \/ Fail \/ Recover \/ Clean \/ PowerOffEpd \/ PanelSleep \/ Reset

PanelSpec == PanelInit /\ [][PanelNext]_epdVars

--------------------------------------------------------------------------------
(* Properties *)

\* Every field stays in its range; a window is only under way while nothing
\* forbids it.
PanelTypeOK ==
    /\ op \in {"idle", "sending", "recover"}
    /\ {buffer, previous, rtcFrame} \subseteq Frames \cup {NoFrame}
    /\ panel \in Frames \cup {NoFrame, Garbled}
    /\ partials \in 0..PartialLimit /\ heavies \in 0..HeavyLimit
    /\ {synced, fullFrame, trusted, attempted, ready} \subseteq BOOLEAN
    /\ unrepaired \in {"none", "frame", "cleanup"}
    /\ op = "idle" <=> job = NoJob

\* What the driver believes the panel shows is what it shows, over lost power,
\* deep sleeps and resets in the middle of a waveform: a partial or a skip that
\* relies on it is right (as long as no transfer has failed unrepaired).
BeliefIsPicture == op = "idle" /\ synced /\ unrepaired = "none" => previous = panel

\* The same when only a cleanup has failed, which nobody is told of
\* (display_service.cpp:1534-1537, "If it matches the CRC stored in RTC memory
\* from the last real refresh, the panel already shows this frame").
SkipMeansShown == op = "idle" /\ synced /\ unrepaired # "frame" => previous = panel

\* A window that follows a full-frame partial of the same boot.
WindowAfterFullFrame == bias' > bias /\ wave' = "window" /\ unrepaired = "none" /\ wave = "frame"

\* A window never follows a full-frame partial of the same boot, which wedges
\* the controller, over skips, cleanups and power cuts.
NoWindowAfterFullFrame == [][~WindowAfterFullFrame]_epdVars

\* Between two full waveforms the panel takes a limited number of partial ones,
\* whatever the driver's own count is, in a boot that trusts no earlier one.
BiasLimited == synced /\ ~trusted /\ unrepaired = "none" => bias <= PartialLimit

\* Nothing is sent to a controller that was not initialised since its rail
\* came up, whatever the flags of the hot panel say.
WriteToReadyPanel == op = "sending" => ready /\ hot.rail

\* What the driver knows of the panel is true: its picture, its power, its bias.
PanelKnown == PanelTypeOK /\ BeliefIsPicture /\ BiasLimited /\ WriteToReadyPanel
================================================================================
